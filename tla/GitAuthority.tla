---------------------------- MODULE GitAuthority ----------------------------
(***************************************************************************)
(* Ownership of one entity (a task or a phase) in the state that           *)
(* installations share through a git ref (git_coordination.py), and what   *)
(* the installations do under it.                                          *)
(*                                                                         *)
(* An accepted transaction is one step: GitStore shows that fetching,      *)
(* pushing with a lease and resolving a lost answer amount to that, and    *)
(* that an operation id is accepted once.  A rejected transaction changes  *)
(* nothing and is no step, unless its caller goes on differently.          *)
(***************************************************************************)
EXTENDS Integers, FiniteSets

CONSTANTS
    Installations, Members, Admins,
    Of,             \* Of[i]: the member installation i is configured for
    NoOne,          \* no member, no installation
    Keys,           \* effect keys: what a caller wants done
    Beside,         \* whether web pages and commands dispatch beside the pass
    MaxGen,         \* bound: generations
    MaxChanges,     \* bound: administrative changes
    MaxCrashes      \* bound: kills of an installation's process

ASSUME GitAuthorityAssumption ==
    /\ Admins \subseteq Members
    /\ Of \in [Installations -> Members]
    /\ NoOne \notin Members \cup Installations
    /\ Beside \in BOOLEAN
    /\ MaxGen \in Nat \ {0}
    /\ {MaxChanges, MaxCrashes} \subseteq Nat

VARIABLES
    ent,        \* the entity: owner, generation, version, draining
    claim,      \* its claim: operation id and what it is bound to
    effects,    \* effects with their permits, by operation id
    handoff,    \* the pending handoff
    members,    \* active, and whether the entity's project is theirs
    enrolled,   \* installations: who each is bound to
    changes,    \* authority_changes that are draining
    ops,        \* accepted operation ids, with who sent them
    view,       \* view[i]: entity and handoff as i's process last read them
    doing,      \* doing[i]: the effect that i is inside of
    acking,     \* acking[i]: how far i is with stopping and handing over
    works,      \* works[i]: generations whose worker processes live on i
    ran,        \* history: effect operations that were executed
    left        \* what remains of the bounds

shared == <<ent, claim, effects, handoff, members, enrolled, changes, ops>>
local == <<view, doing, acking, works, ran>>
vars == <<shared, local, left>>

Gens == 1 .. MaxGen
NoClaim == [inst |-> NoOne, gen |-> 0, ver |-> 0]
NoHandoff == [from |-> NoOne, gen |-> 0, inst |-> NoOne, to |-> NoOne, ack |-> FALSE, fence |-> FALSE]
Idle == [stage |-> "idle", key |-> NoOne, gen |-> 0, ver |-> 0]
Quiet == [stage |-> "idle", id |-> 0]
Open == {"pending", "unknown"}     \* "settled" stands for the terminal outcomes

Init ==
    /\ ent \in {[owner |-> m, gen |-> 1, ver |-> 0, drain |-> FALSE] : m \in Members \ Admins}
    /\ claim = NoClaim
    /\ effects = {}
    /\ handoff = NoHandoff
    /\ members = [m \in Members |-> [active |-> TRUE, sees |-> TRUE]]
    /\ enrolled = Of
    /\ changes = {}
    /\ ops = {}
    /\ view = [i \in Installations |-> [ent |-> ent, handoff |-> NoHandoff]]
    /\ doing = [i \in Installations |-> Idle]
    /\ acking = [i \in Installations |-> Quiet]
    /\ works = [i \in Installations |-> {}]
    /\ ran = {}
    /\ left = [changes |-> MaxChanges, crashes |-> MaxCrashes]

-----------------------------------------------------------------------------
(* What a transaction requires.                                            *)

\* An id accepted before answers from the log when sender and inputs agree.
Replayed(id, i) == [id |-> id, by |-> i] \in ops
Used(id) == \E o \in ops : o.id = id
Accept(id, i) == ~Used(id) /\ ops' = ops \cup {[id |-> id, by |-> i]}

\* _require_active_installation
Enrolled(i) == enrolled[i] = Of[i] /\ members[Of[i]].active
Administers(i) == Enrolled(i) /\ Of[i] \in Admins

\* apply: the revocation of one installation names its member as well.
MayApply(i) ==
    /\ Enrolled(i)
    /\ \A c \in changes : c.member # Of[i] /\ c.inst # i

\* _require_authorized_owner
MayOwn(m) == m # NoOne => members[m].active /\ members[m].sees

\* Mutant: an effect with an unknown outcome does not block.
PendingOnly == {e \in effects : e.outcome = "pending"}

\* _handoff_blockers: one entity, so every unresolved effect is of it.
Blockers == {e \in effects : e.outcome \in Open}

\* _stage_lifecycle_handoff: owner and generation stay until completion.
Stage(to, ready) ==
    /\ handoff = NoHandoff
    /\ ent' = [ent EXCEPT !.drain = TRUE, !.ver = @ + 1]
    /\ handoff' = [from |-> ent.owner, gen |-> ent.gen, inst |-> claim.inst, to |-> to,
                   ack |-> ready, fence |-> FALSE]

\* The entity as it is once the handoff is complete.
Handed(to) ==
    [ent EXCEPT !.owner = to, !.gen = handoff.gen + 1, !.drain = FALSE, !.ver = @ + 1]

\* Mutant: draining is enough, no one has to acknowledge.
StoppedOrDraining == handoff # NoHandoff

\* The old installation acknowledged, or an administrator vouched for it.
Stopped == handoff.ack \/ handoff.fence

-----------------------------------------------------------------------------
(* effect: claim, admission, execution, outcome.                           *)

\* refresh at the start of a pass
Refresh(i) ==
    /\ view' = [view EXCEPT ![i] = [ent |-> ent, handoff |-> handoff]]
    /\ view'[i] # view[i]
    /\ UNCHANGED <<shared, doing, acking, works, ran, left>>

ClaimId(i, gen, ver) == <<"claim", i, gen, ver>>

\* claim: apply's checks of the entity and of a claim that is in place.
ClaimAllowed(i, gen, ver) ==
    /\ MayApply(i)
    /\ ent.ver = ver /\ ent.gen = gen /\ ent.owner = Of[i] /\ ~ent.drain
    /\ claim \in {NoClaim, [inst |-> i, gen |-> gen, ver |-> ver]}

\* Begin an effect from the pass's view; a replayed claim is taken as it is.
Claim(i, k) ==
    LET v == view[i].ent
        id == ClaimId(i, v.gen, v.ver)
    IN  /\ doing[i] = Idle /\ v.owner = Of[i]
        /\ acking[i] = Quiet \/ Beside
        /\ \/ Replayed(id, i) /\ UNCHANGED <<claim, ops>>
           \/ /\ ClaimAllowed(i, v.gen, v.ver)
              /\ Accept(id, i)
              /\ claim' = [inst |-> i, gen |-> v.gen, ver |-> v.ver]
        /\ doing' = [doing EXCEPT ![i] = [stage |-> "claimed", key |-> k, gen |-> v.gen, ver |-> v.ver]]
        /\ UNCHANGED <<ent, effects, handoff, members, enrolled, changes, view, acking, works, ran, left>>

EffectId(i) == <<"effect", i, doing[i].key, doing[i].gen>>

\* apply of permit and effect: the version is current, the claim active, and no
\* handoff is draining.
AdmitAllowed(i) ==
    /\ MayApply(i)
    /\ ent.ver = doing[i].ver /\ ~ent.drain
    /\ claim = [inst |-> i, gen |-> doing[i].gen, ver |-> doing[i].ver]

Admit(i) ==
    /\ doing[i].stage = "claimed"
    /\ AdmitAllowed(i)
    /\ Accept(EffectId(i), i)
    /\ effects' = effects \cup {[id |-> EffectId(i), inst |-> i, gen |-> doing[i].gen,
                                 ver |-> doing[i].ver, outcome |-> "pending"]}
    /\ doing' = [doing EXCEPT ![i].stage = "run"]
    /\ ran' = ran \cup {EffectId(i)}
    /\ UNCHANGED <<ent, claim, handoff, members, enrolled, changes, view, acking, works, left>>

\* Mutant: an id that was accepted before grants execution again.
RunReplayed(i) ==
    /\ doing[i].stage = "claimed"
    /\ Used(EffectId(i)) \/ ~AdmitAllowed(i)
    /\ doing' = [doing EXCEPT ![i] = IF Used(EffectId(i)) THEN [@ EXCEPT !.stage = "run"] ELSE Idle]
    /\ UNCHANGED <<shared, view, acking, works, ran, left>>

\* Rejected, or admitted before: "reconcile it instead of executing again".
Refuse(i) ==
    /\ doing[i].stage = "claimed"
    /\ Used(EffectId(i)) \/ ~AdmitAllowed(i)
    /\ doing' = [doing EXCEPT ![i] = Idle]
    /\ UNCHANGED <<shared, view, acking, works, ran, left>>

\* Inside the effect a worker process is started.
Launch(i) ==
    /\ doing[i].stage = "run"
    /\ works' = [works EXCEPT ![i] = @ \cup {doing[i].gen}]
    /\ works' # works
    /\ UNCHANGED <<shared, view, doing, acking, ran, left>>

WorkerEnds(i) ==
    /\ works[i] # {}
    /\ works' = [works EXCEPT ![i] = {}]
    /\ UNCHANGED <<shared, view, doing, acking, ran, left>>

Settled(id, outcome) ==
    {IF e.id = id THEN [e EXCEPT !.outcome = outcome] ELSE e : e \in effects}

Mine(i) == CHOOSE e \in effects : e.id = EffectId(i)

\* The body is over: its outcome is recorded if apply lets it, and is lost if not.
Finish(i, outcome) ==
    LET ok == /\ MayApply(i)
              /\ claim = [inst |-> i, gen |-> doing[i].gen, ver |-> doing[i].ver]
              /\ Mine(i).outcome \in Open \cup {outcome}
        id == <<"finish", EffectId(i), outcome>>
    IN  /\ doing[i].stage = "run"
        /\ \/ ok /\ Accept(id, i) /\ effects' = Settled(EffectId(i), outcome)
           \/ ~ok /\ UNCHANGED <<effects, ops>>
        /\ doing' = [doing EXCEPT ![i] = Idle]
        /\ UNCHANGED <<ent, claim, handoff, members, enrolled, changes, view, acking, works, ran, left>>

\* The installation's process is killed; its workers are detached and live on.
Crash(i) ==
    /\ left.crashes > 0
    /\ doing[i] # Idle \/ acking[i] # Quiet
    /\ doing' = [doing EXCEPT ![i] = Idle]
    /\ acking' = [acking EXCEPT ![i] = Quiet]
    /\ left' = [left EXCEPT !.crashes = @ - 1]
    /\ UNCHANGED <<shared, view, works, ran>>

-----------------------------------------------------------------------------
(* Handing over.                                                           *)

\* begin_handoff, by the owner or an administrator.
BeginHandoff(i, to) ==
    /\ ent.gen < MaxGen
    /\ acking[i] = Quiet
    /\ Enrolled(i) /\ (Of[i] = ent.owner \/ Of[i] \in Admins)
    /\ to # ent.owner /\ MayOwn(to)
    /\ Stage(to, claim = NoClaim /\ Blockers = {})
    /\ Accept(<<"handoff", i, ent.ver, to>>, i)
    /\ acking' = [acking EXCEPT ![i] = IF handoff'.ack THEN [stage |-> "complete", id |-> ent.ver]
                                       ELSE Quiet]
    /\ UNCHANGED <<claim, effects, members, enrolled, changes, view, doing, works, ran, left>>

\* Mutant: the kill is sent and its effect not awaited.
CancelUnwaited(i) ==
    LET h == view[i].handoff
    IN  /\ acking[i] = Quiet /\ h.inst = i
        /\ doing[i] = Idle \/ Beside
        /\ acking' = [acking EXCEPT ![i] = [stage |-> "stop", id |-> h.gen]]
        /\ UNCHANGED <<shared, view, works, doing, ran, left>>

\* acknowledge_cancellations: the workers of the scope are killed and gone.
Cancel(i) ==
    LET h == view[i].handoff
    IN  /\ acking[i] = Quiet /\ h.inst = i
        /\ doing[i] = Idle \/ Beside
        /\ works' = [works EXCEPT ![i] = {}]
        /\ acking' = [acking EXCEPT ![i] = [stage |-> "stop", id |-> h.gen]]
        /\ UNCHANGED <<shared, view, doing, ran, left>>

\* acknowledge_stop; a rejection ends the pass.
AcknowledgeStop(i) ==
    LET id == <<"stop", acking[i].id>>
        ok == handoff.inst = i /\ handoff.from = Of[i] /\ Blockers = {}
        next(s) == acking' = [acking EXCEPT ![i] = s]
        on == [stage |-> "complete", id |-> acking[i].id]
    IN  /\ acking[i].stage = "stop"
        /\ \/ Replayed(id, i) /\ next(on) /\ UNCHANGED <<handoff, ops>>
           \/ ok /\ Accept(id, i) /\ next(on) /\ handoff' = [handoff EXCEPT !.ack = TRUE]
           \/ ~ok /\ ~Replayed(id, i) /\ next(Quiet) /\ UNCHANGED <<handoff, ops>>
        /\ UNCHANGED <<ent, claim, effects, members, enrolled, changes, view, doing, works, ran, left>>

\* complete_handoff: what it requires, and what it does.
MayComplete(i) ==
    /\ Enrolled(i) /\ handoff # NoHandoff
    /\ Of[i] \in {handoff.from, handoff.to} \cup Admins
    /\ Blockers = {} /\ Stopped
    /\ MayOwn(handoff.to)

Complete == ent' = Handed(handoff.to) /\ claim' = NoClaim /\ handoff' = NoHandoff

\* The client completes what it began or acknowledged.  The id is made of a
\* version in the first case and of a generation in the second.
CompleteHandoff(i) ==
    LET id == <<"complete", acking[i].id>>
    IN  /\ acking[i].stage = "complete"
        /\ \/ MayComplete(i) /\ Accept(id, i) /\ Complete
           \/ (~MayComplete(i) \/ Used(id)) /\ UNCHANGED <<ent, claim, handoff, ops>>
        /\ acking' = [acking EXCEPT ![i] = Quiet]
        /\ UNCHANGED <<effects, members, enrolled, changes, view, doing, works, ran, left>>

\* The new owner or an administrator completes it under an id of its own.
CompleteForOther(i) ==
    /\ MayComplete(i) /\ Complete
    /\ UNCHANGED <<effects, members, enrolled, changes, ops, local, left>>

\* reconcile_inherited_task_owners after a phase changed hands.
InheritOwner(i, to) ==
    /\ ent.gen < MaxGen
    /\ Administers(i) /\ to # ent.owner /\ MayOwn(to)
    /\ handoff = NoHandoff
    /\ IF claim = NoClaim
       THEN /\ ent' = [ent EXCEPT !.owner = to, !.gen = @ + 1, !.ver = @ + 2]
            /\ UNCHANGED handoff
       ELSE Stage(to, FALSE)
    /\ UNCHANGED <<claim, effects, members, enrolled, changes, ops, local, left>>

-----------------------------------------------------------------------------
(* Administration.                                                         *)

Spend == left.changes > 0 /\ left' = [left EXCEPT !.changes = @ - 1]

\* begin_member_authority_change: disabling, or taking the project away.
BeginMemberChange(i, m, what) ==
    /\ Spend /\ ent.gen < MaxGen
    /\ Administers(i)
    /\ \A c \in changes : ~(c.kind = "member" /\ c.member = m)
    /\ IF ent.owner = m THEN Stage(NoOne, claim = NoClaim) ELSE UNCHANGED <<ent, handoff>>
    /\ changes' = changes \cup {[kind |-> "member", member |-> m, inst |-> NoOne, what |-> what,
                                 mine |-> ent.owner = m]}
    /\ UNCHANGED <<claim, effects, members, enrolled, ops, local>>

\* begin_installation_revocation
BeginRevocation(i, j) ==
    /\ Spend /\ ent.gen < MaxGen
    /\ Administers(i) /\ enrolled[j] # NoOne
    /\ \A c \in changes : c.inst # j
    /\ IF claim.inst = j THEN Stage(NoOne, FALSE) ELSE UNCHANGED <<ent, handoff>>
    /\ changes' = changes \cup {[kind |-> "inst", member |-> enrolled[j], inst |-> j, what |-> "revoke",
                                 mine |-> claim.inst = j]}
    /\ UNCHANGED <<claim, effects, members, enrolled, ops, local>>

\* enroll_installation
Enroll(i, j) ==
    /\ Administers(i) /\ enrolled[j] = NoOne /\ members[Of[j]].active
    /\ \A c \in changes : c.inst # j
    /\ enrolled' = [enrolled EXCEPT ![j] = Of[j]]
    /\ UNCHANGED <<ent, claim, effects, handoff, members, changes, ops, local, left>>

\* What complete_authority_change requires of the authorities it fenced.
Ready(c) == c.mine => (handoff # NoHandoff /\ Blockers = {} /\ Stopped)

\* complete_authority_change
CompleteChange(i, c) ==
    /\ Administers(i)
    /\ Ready(c)
    /\ IF c.mine THEN ent' = Handed(NoOne) /\ claim' = NoClaim /\ handoff' = NoHandoff
       ELSE UNCHANGED <<ent, claim, handoff>>
    /\ members' = IF c.kind = "inst" THEN members
                  ELSE IF c.what = "disable" THEN [members EXCEPT ![c.member].active = FALSE]
                  ELSE [members EXCEPT ![c.member].sees = FALSE]
    /\ enrolled' = IF c.kind = "inst" THEN [enrolled EXCEPT ![c.inst] = NoOne] ELSE enrolled
    /\ changes' = changes \ {c}
    /\ UNCHANGED <<effects, ops, local, left>>

\* record_external_fence, with a proof that holds: nothing runs there any more,
\* and nothing can be started.
ExternalFence(i) ==
    /\ enrolled[i] = Of[i] /\ Of[i] \in Admins
    /\ handoff # NoHandoff /\ ~handoff.fence /\ Blockers = {}
    /\ handoff.inst # NoOne => (works[handoff.inst] = {} /\ doing[handoff.inst] = Idle)
    /\ handoff' = [handoff EXCEPT !.fence = TRUE]
    /\ UNCHANGED <<ent, claim, effects, members, enrolled, changes, ops, local, left>>

\* reconcile_effect, with evidence that holds: its executor is through with it.
Reconcile(i, e) ==
    /\ enrolled[i] = Of[i]
    /\ e.outcome \in Open
    /\ \A j \in Installations : ~(doing[j].stage = "run" /\ EffectId(j) = e.id)
    /\ effects' = Settled(e.id, "settled")
    /\ UNCHANGED <<ent, claim, handoff, members, enrolled, changes, ops, local, left>>

-----------------------------------------------------------------------------
Effect(i) ==
    \/ \E k \in Keys : Claim(i, k)
    \/ Admit(i) \/ Refuse(i) \/ Launch(i) \/ Crash(i)
    \/ \E o \in {"settled", "unknown"} : Finish(i, o)

HandOver(i) ==
    \/ Refresh(i) \/ Cancel(i) \/ AcknowledgeStop(i) \/ CompleteHandoff(i)
    \/ \E to \in Members \cup {NoOne} : BeginHandoff(i, to) \/ InheritOwner(i, to)

Administer(i) ==
    \/ \E m \in Members, what \in {"disable", "narrow"} : BeginMemberChange(i, m, what)
    \/ \E j \in Installations : BeginRevocation(i, j) \/ Enroll(i, j)
    \/ \E c \in changes : CompleteChange(i, c)
    \/ ExternalFence(i) \/ CompleteForOther(i)
    \/ \E e \in effects : Reconcile(i, e)

Next == \E i \in Installations : Effect(i) \/ HandOver(i) \/ Administer(i) \/ WorkerEnds(i)

Spec == Init /\ [][Next]_vars

\* A running installation reads the shared state, ends the effects it is in and
\* carries a stop through.
FairSpec ==
    /\ Spec
    /\ \A i \in Installations :
        /\ WF_vars(Refresh(i))
        /\ WF_vars(Admit(i) \/ Refuse(i))
        /\ WF_vars(\E o \in {"settled", "unknown"} : Finish(i, o))
        /\ SF_vars(Cancel(i))
        /\ WF_vars(AcknowledgeStop(i))
        /\ WF_vars(CompleteHandoff(i))

-----------------------------------------------------------------------------
(* Properties.                                                             *)

Busy(i) == doing[i].stage = "run" \/ works[i] # {}

Entities == [owner : Members \cup {NoOne}, gen : Gens, ver : Nat, drain : BOOLEAN]
Handoffs == [from : Members \cup {NoOne}, gen : 0 .. MaxGen, inst : Installations \cup {NoOne},
             to : Members \cup {NoOne}, ack : BOOLEAN, fence : BOOLEAN]
Claims == [inst : Installations \cup {NoOne}, gen : 0 .. MaxGen, ver : Nat]
EffectIds == {"effect"} \X Installations \X (Keys \cup {NoOne}) \X (0 .. MaxGen)
Effects == [id : EffectIds, inst : Installations, gen : 0 .. MaxGen, ver : Nat,
            outcome : Open \cup {"settled"}]
Changes == [kind : {"member", "inst"}, member : Members, inst : Installations \cup {NoOne},
            what : {"disable", "narrow", "revoke"}, mine : BOOLEAN]
MemberRows == [active : BOOLEAN, sees : BOOLEAN]
Doings == [stage : {"idle", "claimed", "run"}, key : Keys \cup {NoOne}, gen : 0 .. MaxGen, ver : Nat]
Ackings == [stage : {"idle", "stop", "complete"}, id : Nat]

\* The shape of the shared tables and of what each installation holds.
TypeOK ==
    /\ ent \in Entities
    /\ claim \in Claims
    /\ effects \subseteq Effects
    /\ handoff \in Handoffs
    /\ members \in [Members -> MemberRows]
    /\ enrolled \in [Installations -> Members \cup {NoOne}]
    /\ changes \subseteq Changes
    /\ view \in [Installations -> [ent : Entities, handoff : Handoffs]]
    /\ doing \in [Installations -> Doings]
    /\ acking \in [Installations -> Ackings]
    /\ works \in [Installations -> SUBSET (0 .. MaxGen)]
    /\ left \in [changes : Nat, crashes : Nat]

\* At most one installation executes for the entity at any time, across handoffs,
\* revocations, kills and every stale view.
OneExecutor == \A i, j \in Installations : Busy(i) /\ Busy(j) => i = j

\* Whoever executes holds the claim, under the generation in force and for the
\* entity's owner: authority cannot move from under running work.
WorkUnderAuthority ==
    \A i \in Installations : Busy(i) =>
        claim.inst = i /\ claim.gen = ent.gen /\ ent.owner = Of[i] /\ works[i] \subseteq {ent.gen}

\* An effect whose outcome is not known keeps the claim and the generation it was
\* admitted under in place until it is settled.
UnresolvedPins ==
    \A e \in effects : e.outcome \in Open =>
        claim = [inst |-> e.inst, gen |-> e.gen, ver |-> e.ver] /\ ent.gen = e.gen

\* A member that was disabled and an installation that was revoked execute nothing.
OutsidersIdle ==
    \A i \in Installations : Busy(i) => enrolled[i] = Of[i] /\ members[Of[i]].active

\* An effect operation is executed once: neither a second pass, nor a restart, nor
\* a lost answer starts its body again.
ExecutedOnce ==
    [][\A i \in Installations :
         doing[i].stage # "run" /\ doing'[i].stage = "run" => EffectId(i) \notin ran]_vars

\* begin_handoff promises that draining and acknowledgement are automatic: a
\* handoff completes, or waits for an effect whose outcome nobody knows.
HandoffResolves == handoff # NoHandoff ~> handoff = NoHandoff \/ Blockers # {}

\* Only a member that may own the entity owns it (_require_authorized_owner).
OwnerAuthorized == MayOwn(ent.owner)

\* A draining change can be completed: the authorities it fenced are still fenced.
ChangesCompletable == \A c \in changes : c.mine => handoff # NoHandoff
=============================================================================
