----------------------------- MODULE Coordination -----------------------------
(***************************************************************************)
(* The multiplayer coordinator (src/garden/coordination.py): one SQLite    *)
(* database that says who owns a task or a phase, which installation holds *)
(* its fenced lease, and which external effects and Git projections are    *)
(* still open.                                                             *)
(*                                                                         *)
(* Every operation of the class runs in one BEGIN IMMEDIATE transaction,   *)
(* so each is one action here.  The clients are not modelled: any          *)
(* installation may send any request at any time, with any claim it was    *)
(* ever given, so lost, delayed, repeated and reordered requests are all   *)
(* included.  A request the code refuses (Conflict, PermissionError) rolls *)
(* back, and a request whose operation id is recorded only returns the     *)
(* recorded response (_repeat): both leave the database as it was and are  *)
(* stuttering steps.  Only server time decides whether a lease expired.    *)
(***************************************************************************)
EXTENDS Integers, FiniteSets, FiniteSetsExt

CONSTANTS
    Tasks,         \* scopes of kind "task"
    Phases,        \* scopes of kind "phase"
    Members,       \* member ids
    Installations, \* installation ids; a principal is an installation
    MemberOf,      \* the member an installation is enrolled for
    Admins,        \* installations whose role is administrator
    Viewers,       \* installations whose role is viewer
    OpIds,         \* operation ids (bounds how many operations commit)
    Generations,   \* authority generations an administrator may name
    EffectKeys,    \* (provider, effect_key) pairs
    EvidenceIds,   \* evidence ids
    Pools,         \* reservation pools
    GlobalPools,   \* the pools named "global:..."
    PhaseOf,       \* the phase of a pool named "phase:<scope>:...", or NoOne
    Amounts,       \* what one reservation asks of each resource
    Limits,        \* the ceilings an administrator may set
    LeaseTimes,    \* lease_seconds of a claim
    MaxTime,       \* bound on the server clock
    NoOne          \* the empty owner, and every absent field

Keys == Tasks \cup Phases
Owners == Members \cup {NoOne}
Resources == {"units", "spend"}
OutboxKinds == {"task_transition", "git_projection"}

ASSUME CoordinationAssumption ==
    /\ Tasks \cap Phases = {}
    /\ NoOne \notin Keys \cup Members \cup Installations \cup OpIds
    /\ MemberOf \in [Installations -> Members]
    /\ Admins \subseteq Installations /\ Viewers \subseteq Installations
    /\ Generations \subseteq Nat \ {0}
    /\ GlobalPools \subseteq Pools /\ PhaseOf \in [Pools -> Phases \cup {NoOne}]
    /\ Amounts \subseteq [Resources -> Nat] /\ Limits \subseteq [Resources -> Nat]
    /\ LeaseTimes \subseteq Nat \ {0} /\ MaxTime \in Nat

VARIABLES
    auth,          \* table authority; version 0 where there is no row
    claims,        \* table claims; NoClaim where there is no row
    operations,    \* table operations: request and response by operation id
    outbox,        \* table outbox, by operation id and effect kind
    effects,       \* table effects, by effect key
    handoffs,      \* table handoffs, by scope and to_generation
    cancellations, \* table cancellations
    evidence,      \* table evidence
    pools,         \* table reservation_pools
    reservations,  \* table reservations
    now            \* server time

tables == <<auth, claims, operations, outbox, effects, handoffs, cancellations>>
vars == <<auth, claims, operations, outbox, effects, handoffs, cancellations,
          evidence, pools, reservations, now>>

\* The Claim dataclass; fence 0 is "no row".
Claim == [owner : Owners, gen : Nat, inst : Installations \cup {NoOne},
          op : OpIds \cup {NoOne}, fence : Nat, expires : Nat]
NoClaim == [owner |-> NoOne, gen |-> 0, inst |-> NoOne,
            op |-> NoOne, fence |-> 0, expires |-> 0]
NoAuthority == [version |-> 0, owner |-> NoOne, gen |-> 0, nextFence |-> 0]
NoOperation == [kind |-> "none", inst |-> NoOne, key |-> NoOne,
                basis |-> 0, claim |-> NoClaim]
NoOutbox == [key |-> NoOne, version |-> 0, fence |-> 0, status |-> "none"]
NoEffect == [op |-> NoOne, inst |-> NoOne, key |-> NoOne,
             gen |-> 0, fence |-> 0, status |-> "none"]
NoHandoff == [from |-> 0, version |-> 0, status |-> "none"]
NoReservation == [inst |-> NoOne, amount |-> [r \in Resources |-> 0], status |-> "none"]

Unresolved == {"pending", "unknown"}

Init ==
    /\ auth = [k \in Keys |-> NoAuthority]
    /\ claims = [k \in Keys |-> NoClaim]
    /\ operations = [o \in OpIds |-> NoOperation]
    /\ outbox = [o \in OpIds |-> [e \in OutboxKinds |-> NoOutbox]]
    /\ effects = [e \in EffectKeys |-> NoEffect]
    /\ handoffs = [k \in Keys |-> [g \in Generations |-> NoHandoff]]
    /\ cancellations = {}
    /\ evidence = [e \in EvidenceIds |-> NoOne]
    /\ pools = [p \in Pools |-> <<>>]
    /\ reservations = [p \in Pools |-> [o \in OpIds |-> NoReservation]]
    /\ now = 0

-----------------------------------------------------------------------------
(* Checks shared by the operations.                                          *)

Established(k) == auth[k].version # 0
Held(k) == claims[k].fence # 0

\* _repeat: an operation id that is already recorded is never executed again.
Fresh(op) == operations[op].kind = "none"

\* _record: the request (its actor, scope, expected version) and the response.
Record(op, kind, i, k, basis, c) ==
    operations' = [operations EXCEPT ![op] =
        [kind |-> kind, inst |-> i, key |-> k, basis |-> basis, claim |-> c]]

\* Claims some installation was ever given, or can ask for again.
Issued(k) == {operations[o].claim : o \in {p \in OpIds :
                 operations[p].kind = "claim" /\ operations[p].key = k}}

\* The compare in every compare-and-swap on expected_version.
CurrentWeak(k, basis) == auth[k].version >= basis
Current(k, basis) == auth[k].version = basis

\* _reject_unresolved_effects.
NoPendingEffect(k) ==
    \A e \in EffectKeys : effects[e].key = k => effects[e].status # "pending"
NoUnresolvedEffect(k) ==
    \A e \in EffectKeys : effects[e].key = k => effects[e].status \notin Unresolved

\* _handoff_blockers: old workers, old provider outcomes, old projections.
HandoffBlockedByEffects(k, g) ==
    \E e \in EffectKeys : effects[e].key = k /\ effects[e].status \in Unresolved
HandoffBlocked(k, g) ==
    \/ \E x \in cancellations : x.key = k /\ x.status = "requested"
    \/ \E e \in EffectKeys : /\ effects[e].key = k
                             /\ effects[e].gen <= handoffs[k][g].from
                             /\ effects[e].status \in Unresolved
    \/ \E o \in OpIds, f \in OutboxKinds :
          /\ outbox[o][f].key = k
          /\ outbox[o][f].version < handoffs[k][g].version
          /\ outbox[o][f].status = "pending"

\* _validate_claim: the presented claim is the row, unexpired, and its owner
\* and generation are still the scope's.
ValidClaimOfOwner(i, k, c) == c.inst = i /\ auth[k].owner = MemberOf[i]
ValidClaim(i, k, c) ==
    /\ Held(k) /\ claims[k] = c
    /\ c.inst = i /\ c.expires > now
    /\ Established(k) /\ auth[k].owner = MemberOf[i] /\ auth[k].gen = c.gen

-----------------------------------------------------------------------------
(* Authority and leases.                                                     *)

\* The upsert of set_authority: next_fence survives (0 in a new row).
ReassignedNewRow(k, owner, gen) ==
    [version |-> auth[k].version + 1, owner |-> owner, gen |-> gen, nextFence |-> 0]
Reassigned(k, owner, gen) ==
    [version |-> auth[k].version + 1, owner |-> owner, gen |-> gen,
     nextFence |-> auth[k].nextFence]

\* set_authority: compare and swap the owner under a strictly newer
\* generation.  The old claim is dropped and its installation is asked to stop.
SetAuthority(a, k, owner, gen, basis, op) ==
    /\ a \in Admins /\ Fresh(op)
    /\ Current(k, basis)
    /\ Established(k) => gen > auth[k].gen
    /\ NoUnresolvedEffect(k)
    /\ auth' = [auth EXCEPT ![k] = Reassigned(k, owner, gen)]
    /\ handoffs' = IF Established(k) /\ handoffs[k][gen].status = "none"
                   THEN [handoffs EXCEPT ![k][gen] =
                           [from |-> auth[k].gen, version |-> auth[k].version + 1,
                            status |-> "reconciling"]]
                   ELSE handoffs
    /\ cancellations' = IF Established(k) /\ Held(k)
                        THEN {x \in cancellations : ~ (/\ x.key = k
                                                       /\ x.inst = claims[k].inst
                                                       /\ x.fence = claims[k].fence)}
                             \cup {[key |-> k, inst |-> claims[k].inst,
                                    fence |-> claims[k].fence, status |-> "requested"]}
                        ELSE cancellations
    /\ claims' = [claims EXCEPT ![k] = NoClaim]
    /\ Record(op, "set_authority", a, k, basis, NoClaim)
    /\ UNCHANGED <<outbox, effects, evidence, pools, reservations, now>>

\* initialize_authority: the migration's rows, only while nothing is open.  A
\* superseded outbox row counts as open here (status != 'done').
InitializeAuthority(a, rows, op) ==
    /\ a \in Admins /\ Fresh(op)
    /\ \A k \in Keys : ~ Held(k)
    /\ \A o \in OpIds, f \in OutboxKinds : outbox[o][f].status \in {"none", "done"}
    /\ \A e \in EffectKeys : effects[e].status \notin Unresolved
    /\ \A k \in DOMAIN rows : ~ Established(k)
    /\ auth' = [k \in Keys |-> IF k \in DOMAIN rows
                               THEN [version |-> 1, owner |-> rows[k],
                                     gen |-> 1, nextFence |-> 0]
                               ELSE auth[k]]
    /\ Record(op, "initialize_authority", a, NoOne, 0, NoClaim)
    /\ UNCHANGED <<claims, outbox, effects, handoffs, cancellations,
                   evidence, pools, reservations, now>>

\* lease_expires_at, from the time the request arrived.
Expiry(t, lease) == t + lease

\* claim: t is the time read before the transaction began, so it may lag now.
\* Handoffs that are no longer blocked become ready; one blocked handoff rolls
\* everything back.
ClaimScope(i, k, basis, gen, lease, t, op) ==
    /\ i \notin Viewers /\ Fresh(op)
    /\ Established(k)
    /\ Current(k, basis) /\ auth[k].owner = MemberOf[i] /\ auth[k].gen = gen
    /\ \A g \in Generations :
          handoffs[k][g].status = "reconciling" => ~ HandoffBlocked(k, g)
    /\ NoUnresolvedEffect(k)
    /\ Held(k) => claims[k].expires <= t
    /\ LET c == [owner |-> MemberOf[i], gen |-> gen, inst |-> i, op |-> op,
                 fence |-> auth[k].nextFence + 1, expires |-> Expiry(t, lease)]
       IN  /\ auth' = [auth EXCEPT ![k].nextFence = @ + 1]
           /\ claims' = [claims EXCEPT ![k] = c]
           /\ Record(op, "claim", i, k, basis, c)
    /\ handoffs' = [handoffs EXCEPT ![k] = [g \in Generations |->
                      IF handoffs[k][g].status = "reconciling"
                      THEN [handoffs[k][g] EXCEPT !.status = "ready"]
                      ELSE handoffs[k][g]]]
    /\ UNCHANGED <<outbox, effects, cancellations, evidence, pools, reservations, now>>

\* acknowledge_cancellation: the installation asked to stop, or an administrator.
AcknowledgeCancellation(i, x) ==
    /\ x \in cancellations /\ x.status = "requested"
    /\ x.inst = i \/ i \in Admins
    /\ cancellations' = (cancellations \ {x}) \cup {[x EXCEPT !.status = "acknowledged"]}
    /\ UNCHANGED <<auth, claims, operations, outbox, effects, handoffs,
                   evidence, pools, reservations, now>>

-----------------------------------------------------------------------------
(* Fenced work: transitions, their outbox, and provider effects.             *)

\* transition: a new version and its two outbox rows; reused evidence ids
\* violate the table's key and roll back.  ev = NoOne is "no evidence".
Transition(i, k, c, basis, op, ev) ==
    /\ Fresh(op)
    /\ ValidClaim(i, k, c) /\ Current(k, basis)
    /\ ev # NoOne => evidence[ev] = NoOne
    /\ auth' = [auth EXCEPT ![k].version = @ + 1]
    /\ outbox' = [outbox EXCEPT ![op] = [f \in OutboxKinds |->
                    [key |-> k, version |-> basis + 1,
                     fence |-> c.fence, status |-> "pending"]]]
    /\ evidence' = IF ev = NoOne THEN evidence ELSE [evidence EXCEPT ![ev] = i]
    /\ Record(op, "transition", i, k, basis, c)
    /\ UNCHANGED <<claims, effects, handoffs, cancellations, pools, reservations, now>>

\* A git_projection of a task may complete only at the current version (the
\* lookup is by kind 'task', so a phase's row is not compared).
NotAhead(o, f) ==
    (f = "git_projection" /\ outbox[o][f].key \in Tasks)
       => auth[outbox[o][f].key].version >= outbox[o][f].version
NotStale(o, f) ==
    (f = "git_projection" /\ outbox[o][f].key \in Tasks)
       => auth[outbox[o][f].key].version = outbox[o][f].version

\* finish_outbox.
FinishOutbox(a, o, f, success) ==
    /\ a \in Admins /\ outbox[o][f].status # "none"
    /\ NotStale(o, f)
    /\ outbox' = [outbox EXCEPT ![o][f].status = IF success THEN "done" ELSE "pending"]
    /\ UNCHANGED <<auth, claims, operations, effects, handoffs, cancellations,
                   evidence, pools, reservations, now>>

\* supersede_outbox: whatever the row's status was.
SupersedeOutbox(a, o, f) ==
    /\ a \in Admins /\ outbox[o][f].status # "none"
    /\ outbox' = [outbox EXCEPT ![o][f].status = "superseded"]
    /\ UNCHANGED <<auth, claims, operations, effects, handoffs, cancellations,
                   evidence, pools, reservations, now>>

\* begin_effect: one provider mutation per key at a time.  The HTTP API passes
\* no expected version.
BeginEffect(i, k, c, e, op) ==
    /\ Fresh(op)
    /\ ValidClaim(i, k, c)
    /\ effects[e].status \notin Unresolved
    /\ effects' = [effects EXCEPT ![e] =
          [op |-> op, inst |-> i, key |-> k, gen |-> c.gen,
           fence |-> c.fence, status |-> "pending"]]
    /\ Record(op, "effect", i, k, auth[k].version, c)
    /\ UNCHANGED <<auth, claims, outbox, handoffs, cancellations,
                   evidence, pools, reservations, now>>

\* finish_effect: the actor's installation or an administrator; not fenced by
\* the claim.  A terminal outcome is never replaced.
FinishEffect(i, e, outcome) ==
    /\ effects[e].status \in Unresolved
    /\ effects[e].inst = i \/ i \in Admins
    /\ effects' = [effects EXCEPT ![e].status = outcome]
    /\ UNCHANGED <<auth, claims, operations, outbox, handoffs, cancellations,
                   evidence, pools, reservations, now>>

\* retain_stale_evidence: a late result is archived and changes nothing else.
RetainStaleEvidence(i, ev) ==
    /\ evidence[ev] = NoOne
    /\ evidence' = [evidence EXCEPT ![ev] = i]
    /\ UNCHANGED <<tables, pools, reservations, now>>

-----------------------------------------------------------------------------
(* Shared capacity.                                                          *)

\* SUM(...) over the pool's active reservations.
Reserved(p, r) ==
    MapThenSumSet(LAMBDA o : reservations[p][o].amount[r],
                  {o \in OpIds : reservations[p][o].status = "active"})

\* set_reservation_pool: refused below what is already reserved.
SetReservationPool(a, p, limit) ==
    /\ a \in Admins
    /\ \A r \in Resources : Reserved(p, r) <= limit[r]
    /\ pools' = [pools EXCEPT ![p] = limit]
    /\ UNCHANGED <<tables, evidence, reservations, now>>

\* The limit check of _reserve.
SomeRoom(p, amount) == \A r \in Resources : Reserved(p, r) <= pools[p][r]
Fits(p, amount) == \A r \in Resources : Reserved(p, r) + amount[r] <= pools[p][r]

\* _reserve, for an operation id the pool has not seen.
ReserveIn(p, i, amount, op) ==
    /\ reservations[p][op].status = "none"
    /\ pools[p] # <<>>
    /\ Fits(p, amount)
    /\ reservations' = [reservations EXCEPT ![p][op] =
                          [inst |-> i, amount |-> amount, status |-> "active"]]
    /\ UNCHANGED <<tables, evidence, pools, now>>

\* reserve.
Reserve(i, p, amount, op) ==
    /\ i \notin Viewers /\ PhaseOf[p] = NoOne
    /\ p \in GlobalPools => i \in Admins
    /\ ReserveIn(p, i, amount, op)

\* reserve_phase: only beneath a current claim on the phase.
ReservePhase(i, p, c, amount, op) ==
    /\ i \notin Viewers /\ PhaseOf[p] # NoOne
    /\ ValidClaim(i, PhaseOf[p], c)
    /\ ReserveIn(p, i, amount, op)

\* release_reservation.
ReleaseReservation(i, p, op) ==
    /\ reservations[p][op].status # "none"
    /\ reservations[p][op].inst = i \/ i \in Admins
    /\ reservations' = [reservations EXCEPT ![p][op].status = "released"]
    /\ UNCHANGED <<tables, evidence, pools, now>>

\* The server clock.
Tick ==
    /\ now < MaxTime
    /\ now' = now + 1
    /\ UNCHANGED <<tables, evidence, pools, reservations>>

-----------------------------------------------------------------------------

\* Versions a caller may have read: the current one, or the one before it.
SeenVersions(k) == {auth[k].version, auth[k].version - 1} \cap Nat

Next ==
    \/ \E i \in Installations, k \in Keys, op \in OpIds :
          \/ \E owner \in Owners, gen \in Generations, basis \in SeenVersions(k) :
                SetAuthority(i, k, owner, gen, basis, op)
          \/ \E basis \in SeenVersions(k), gen \in Generations,
                lease \in LeaseTimes, t \in 0..now :
                ClaimScope(i, k, basis, gen, lease, t, op)
          \/ \E c \in Issued(k), basis \in SeenVersions(k),
                ev \in EvidenceIds \cup {NoOne} : Transition(i, k, c, basis, op, ev)
          \/ \E c \in Issued(k), e \in EffectKeys : BeginEffect(i, k, c, e, op)
    \/ \E i \in Installations, op \in OpIds, S \in SUBSET Keys :
          \E rows \in [S -> Owners] : InitializeAuthority(i, rows, op)
    \/ \E i \in Installations :
          \/ \E x \in cancellations : AcknowledgeCancellation(i, x)
          \/ \E o \in OpIds, f \in OutboxKinds :
                \/ \E success \in BOOLEAN : FinishOutbox(i, o, f, success)
                \/ SupersedeOutbox(i, o, f)
          \/ \E e \in EffectKeys, outcome \in {"succeeded", "failed", "unknown"} :
                FinishEffect(i, e, outcome)
          \/ \E ev \in EvidenceIds : RetainStaleEvidence(i, ev)
          \/ \E p \in Pools :
                \/ \E limit \in Limits : SetReservationPool(i, p, limit)
                \/ \E op \in OpIds, amount \in Amounts :
                      \/ Reserve(i, p, amount, op)
                      \/ \E k \in Phases : \E c \in Issued(k) :
                            PhaseOf[p] = k /\ ReservePhase(i, p, c, amount, op)
                \/ \E op \in OpIds : ReleaseReservation(i, p, op)
    \/ Tick

Spec == Init /\ [][Next]_vars

-----------------------------------------------------------------------------
(* Properties.                                                               *)

AuthorityRow == [version : Nat, owner : Owners, gen : Nat, nextFence : Nat]
OperationRow == [kind : {"none", "set_authority", "initialize_authority",
                         "claim", "transition", "effect"},
                 inst : Installations \cup {NoOne}, key : Keys \cup {NoOne},
                 basis : Nat, claim : Claim]
OutboxRow == [key : Keys \cup {NoOne}, version : Nat, fence : Nat,
              status : {"none", "pending", "done", "superseded"}]
EffectRow == [op : OpIds \cup {NoOne}, inst : Installations \cup {NoOne},
              key : Keys \cup {NoOne}, gen : Nat, fence : Nat,
              status : {"none", "pending", "unknown", "succeeded", "failed"}]
HandoffRow == [from : Nat, version : Nat, status : {"none", "reconciling", "ready"}]
CancellationRow == [key : Keys, inst : Installations \cup {NoOne}, fence : Nat,
                    status : {"requested", "acknowledged"}]
ReservationRow == [inst : Installations \cup {NoOne}, amount : [Resources -> Nat],
                   status : {"none", "active", "released"}]

\* Every table holds rows of its own shape.
TypeOK ==
    /\ auth \in [Keys -> AuthorityRow]
    /\ claims \in [Keys -> Claim]
    /\ operations \in [OpIds -> OperationRow]
    /\ outbox \in [OpIds -> [OutboxKinds -> OutboxRow]]
    /\ effects \in [EffectKeys -> EffectRow]
    /\ handoffs \in [Keys -> [Generations -> HandoffRow]]
    /\ cancellations \subseteq CancellationRow
    /\ evidence \in [EvidenceIds -> Installations \cup {NoOne}]
    /\ pools \in [Pools -> [Resources -> Nat] \cup {<<>>}]
    /\ reservations \in [Pools -> [OpIds -> ReservationRow]]
    /\ now \in Nat

\* claim() numbers the leases of a scope with next_fence, which survives every
\* reassignment: no two leases ever granted on a scope share a fence, and the
\* lease in the claims table is the newest one granted.
FencesUnique ==
    \A k \in Keys :
      /\ \A o1, o2 \in OpIds :
            /\ operations[o1].kind = "claim" /\ operations[o1].key = k
            /\ operations[o2].kind = "claim" /\ operations[o2].key = k
            /\ operations[o1].claim.fence = operations[o2].claim.fence
            => o1 = o2
      /\ \A c \in Issued(k) : Held(k) => c.fence <= claims[k].fence

\* The operations that act beneath a claim.
Fenced(o) == operations[o].kind \in {"transition", "effect"}

\* The purpose of the fence: once work is accepted under one lease, work under
\* an older lease or an older authority generation is never accepted after it,
\* however late its request arrives (transition, begin_effect).
AcceptedInFenceOrder ==
    \A o1, o2 \in OpIds :
      /\ Fenced(o1) /\ Fenced(o2) /\ operations[o1].key = operations[o2].key
      /\ operations[o1].basis < operations[o2].basis
      => /\ operations[o1].claim.fence <= operations[o2].claim.fence
         /\ operations[o1].claim.gen <= operations[o2].claim.gen

\* The operations that make a new version of a scope.
Changes(o, k) == /\ operations[o].kind \in {"set_authority", "transition"}
                 /\ operations[o].key = k

\* expected_version is a compare-and-swap and an operation id executes once:
\* every version after the first was replaced by exactly one operation, which
\* had seen it.  No change is overwritten unseen, and a request sent twice
\* changes the scope once (_repeat, set_authority, transition).
EachVersionReplacedOnce ==
    \A k \in Keys : \A v \in 1..(auth[k].version - 1) :
      /\ \E o \in OpIds : Changes(o, k) /\ operations[o].basis = v
      /\ \A o1, o2 \in OpIds :
            /\ Changes(o1, k) /\ operations[o1].basis = v
            /\ Changes(o2, k) /\ operations[o2].basis = v
            => o1 = o2

\* An effect whose outcome is not known pins its scope: the lease it was begun
\* under is still the one in the table, and the owner's generation has not
\* moved, even after that lease expired (_reject_unresolved_effects in
\* set_authority and claim).
UnresolvedEffectPinsClaim ==
    \A e \in EffectKeys : effects[e].status \in Unresolved =>
      /\ effects[e].key \in Keys /\ Held(effects[e].key)
      /\ claims[effects[e].key].fence = effects[e].fence
      /\ claims[effects[e].key].inst = effects[e].inst
      /\ auth[effects[e].key].gen = effects[e].gen

\* The handoff barrier: a scope is leased only when every installation that was
\* asked to stop by a reassignment has acknowledged, through any number of
\* reassignments in between (set_authority, acknowledge_cancellation, claim).
ReconciledBeforeClaim ==
    \A k \in Keys : Held(k) =>
      /\ \A x \in cancellations : x.key = k => x.status = "acknowledged"
      /\ \A g \in Generations : handoffs[k][g].status # "reconciling"
      /\ auth[k].gen = claims[k].gen /\ auth[k].owner = claims[k].owner

-----------------------------------------------------------------------------
(* The inductive invariant behind the properties of fencing and handoff.     *)

\* What is recorded about a scope never runs ahead of the scope.
BehindRow(o) ==
    /\ operations[o].kind \in {"claim", "transition", "effect"} =>
          /\ operations[o].key \in Keys
          /\ Established(operations[o].key)
          /\ operations[o].claim.fence <= auth[operations[o].key].nextFence
          /\ operations[o].claim.gen <= auth[operations[o].key].gen
          /\ operations[o].basis <= auth[operations[o].key].version
    /\ operations[o].kind \in {"set_authority", "transition"} =>
          /\ operations[o].key \in Keys
          /\ operations[o].basis < auth[operations[o].key].version
RecordedBehind == \A o \in OpIds : BehindRow(o)

\* The lease in the table is the newest one, of the current owner.
HolderIsNewest ==
    \A k \in Keys : Held(k) =>
      /\ Established(k)
      /\ claims[k].fence = auth[k].nextFence
      /\ claims[k].gen = auth[k].gen /\ claims[k].owner = auth[k].owner

\* A handoff belongs to a generation already assigned, and one that asked a
\* worker to stop stays reconciling until the worker acknowledged.
HandoffsCover ==
    /\ \A k \in Keys, g \in Generations :
          handoffs[k][g].status # "none" => Established(k) /\ g <= auth[k].gen
    /\ \A x \in cancellations : x.status = "requested" =>
          \E g \in Generations : handoffs[x.key][g].status = "reconciling"

FencingInv ==
    /\ TypeOK
    /\ RecordedBehind
    /\ HolderIsNewest
    /\ HandoffsCover
    /\ FencesUnique
    /\ AcceptedInFenceOrder
    /\ EachVersionReplacedOnce
    /\ UnresolvedEffectPinsClaim
    /\ ReconciledBeforeClaim

-----------------------------------------------------------------------------

\* The shared pool is never overcommitted, whatever is reserved, released,
\* repeated or re-limited in between (_reserve, set_reservation_pool).
WithinLimits ==
    \A p \in Pools : \A r \in Resources :
      Reserved(p, r) > 0 => pools[p] # <<>> /\ Reserved(p, r) <= pools[p][r]

\* A task's Markdown is projected in version order: a projection is recorded as
\* done only if no newer version of the task was accepted (finish_outbox).
ProjectionsInOrder ==
    [][\A o1, o2 \in OpIds :
         /\ outbox[o1]["git_projection"].status # "done"
         /\ outbox'[o1]["git_projection"].status = "done"
         /\ outbox[o1]["git_projection"].key \in Tasks
         /\ outbox[o2]["git_projection"].key = outbox[o1]["git_projection"].key
         => outbox[o2]["git_projection"].version <= outbox[o1]["git_projection"].version]_vars
===============================================================================
