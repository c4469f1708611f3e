-------------------------- MODULE CoordinationProofs --------------------------
(***************************************************************************)
(* What the coordinator guarantees for any number of scopes, installations *)
(* and operations.                                                         *)
(***************************************************************************)
EXTENDS Coordination, FiniteSetTheorems, WellFoundedInduction, TLAPS

-----------------------------------------------------------------------------
(* Type correctness.                                                         *)

\* A presented claim comes from the operations table, so it has its type.
LEMMA IssuedType ==
    ASSUME TypeOK, NEW k \in Keys, NEW c \in Issued(k)
    PROVE  c \in Claim
  BY DEF TypeOK, Issued, OperationRow

\* The empty rows have the types of their tables.
LEMMA EmptyRows ==
    /\ NoClaim \in Claim
    /\ NoAuthority \in AuthorityRow
    /\ NoOperation \in OperationRow
    /\ NoOutbox \in OutboxRow
    /\ NoEffect \in EffectRow
    /\ NoHandoff \in HandoffRow
    /\ NoReservation \in ReservationRow
  BY DEF NoClaim, Claim, NoAuthority, AuthorityRow, Owners, NoOperation, OperationRow,
     NoOutbox, OutboxRow, NoEffect, EffectRow, NoHandoff, HandoffRow,
     NoReservation, ReservationRow

\* _record writes an operation row.
LEMMA RecordType ==
    ASSUME TypeOK, NEW op \in OpIds, NEW i \in Installations, NEW k \in Keys \cup {NoOne},
           NEW basis \in Nat, NEW c \in Claim,
           NEW kind \in {"set_authority", "initialize_authority",
                         "claim", "transition", "effect"},
           Record(op, kind, i, k, basis, c)
    PROVE  operations' \in [OpIds -> OperationRow]
  BY DEF TypeOK, Record, OperationRow

\* set_authority keeps every table's shape.
LEMMA SetAuthorityType ==
    ASSUME TypeOK, NEW i \in Installations, NEW k \in Keys, NEW op \in OpIds,
           NEW owner \in Owners, NEW gen \in Generations, NEW basis \in Nat,
           SetAuthority(i, k, owner, gen, basis, op)
    PROVE  TypeOK'
  <1> USE CoordinationAssumption, EmptyRows
  <1>1. auth' \in [Keys -> AuthorityRow]
    <2>1. Reassigned(k, owner, gen) \in AuthorityRow
      BY DEF TypeOK, Reassigned, AuthorityRow
    <2> QED
      BY <2>1 DEF SetAuthority, TypeOK
  <1>2. claims' \in [Keys -> Claim]
    BY DEF SetAuthority, TypeOK
  <1>3. operations' \in [OpIds -> OperationRow]
    BY RecordType DEF SetAuthority
  <1>4. handoffs' \in [Keys -> [Generations -> HandoffRow]]
    <2>1. [from |-> auth[k].gen, version |-> auth[k].version + 1,
           status |-> "reconciling"] \in HandoffRow
      BY DEF TypeOK, AuthorityRow, HandoffRow
    <2> QED
      BY <2>1 DEF SetAuthority, TypeOK
  <1>5. cancellations' \subseteq CancellationRow
    <2>1. [key |-> k, inst |-> claims[k].inst, fence |-> claims[k].fence,
           status |-> "requested"] \in CancellationRow
      BY DEF TypeOK, Claim, CancellationRow
    <2> QED
      BY <2>1 DEF SetAuthority, TypeOK
  <1> QED
    BY <1>1, <1>2, <1>3, <1>4, <1>5 DEF SetAuthority, TypeOK

\* initialize_authority keeps every table's shape.
LEMMA InitializeAuthorityType ==
    ASSUME TypeOK, NEW i \in Installations, NEW op \in OpIds,
           NEW S \in SUBSET Keys, NEW rows \in [S -> Owners],
           InitializeAuthority(i, rows, op)
    PROVE  TypeOK'
  <1> USE CoordinationAssumption, EmptyRows
  <1>1. auth' \in [Keys -> AuthorityRow]
    BY DEF InitializeAuthority, TypeOK, AuthorityRow
  <1>2. operations' \in [OpIds -> OperationRow]
    BY RecordType DEF InitializeAuthority
  <1> QED
    BY <1>1, <1>2 DEF InitializeAuthority, TypeOK

\* A field of a row may be replaced.
LEMMA RowUpdates ==
    /\ \A r \in AuthorityRow : [r EXCEPT !.nextFence = @ + 1] \in AuthorityRow
    /\ \A r \in AuthorityRow : [r EXCEPT !.version = @ + 1] \in AuthorityRow
    /\ \A r \in HandoffRow : [r EXCEPT !.status = "ready"] \in HandoffRow
    /\ \A r \in CancellationRow : [r EXCEPT !.status = "acknowledged"] \in CancellationRow
    /\ \A r \in OutboxRow, v \in {"pending", "done", "superseded"} :
          [r EXCEPT !.status = v] \in OutboxRow
    /\ \A r \in EffectRow, v \in {"unknown", "succeeded", "failed"} :
          [r EXCEPT !.status = v] \in EffectRow
    /\ \A r \in ReservationRow : [r EXCEPT !.status = "released"] \in ReservationRow
  <1>1. \A r \in AuthorityRow : [r EXCEPT !.nextFence = @ + 1] \in AuthorityRow
    BY DEF AuthorityRow
  <1>2. \A r \in AuthorityRow : [r EXCEPT !.version = @ + 1] \in AuthorityRow
    BY DEF AuthorityRow
  <1>3. \A r \in HandoffRow : [r EXCEPT !.status = "ready"] \in HandoffRow
    BY DEF HandoffRow
  <1>4. \A r \in CancellationRow : [r EXCEPT !.status = "acknowledged"] \in CancellationRow
    BY DEF CancellationRow
  <1>5. \A r \in OutboxRow, v \in {"pending", "done", "superseded"} :
          [r EXCEPT !.status = v] \in OutboxRow
    BY DEF OutboxRow
  <1>6. \A r \in EffectRow, v \in {"unknown", "succeeded", "failed"} :
          [r EXCEPT !.status = v] \in EffectRow
    BY DEF EffectRow
  <1>7. \A r \in ReservationRow : [r EXCEPT !.status = "released"] \in ReservationRow
    BY DEF ReservationRow
  <1> QED
    BY <1>1, <1>2, <1>3, <1>4, <1>5, <1>6, <1>7

\* claim keeps every table's shape.
LEMMA ClaimScopeType ==
    ASSUME TypeOK, NEW i \in Installations, NEW k \in Keys, NEW op \in OpIds,
           NEW basis \in Nat, NEW gen \in Generations, NEW lease \in LeaseTimes,
           NEW t \in Nat, ClaimScope(i, k, basis, gen, lease, t, op)
    PROVE  TypeOK'
  <1> DEFINE c == [owner |-> MemberOf[i], gen |-> gen, inst |-> i, op |-> op,
                   fence |-> auth[k].nextFence + 1, expires |-> Expiry(t, lease)]
  <1>1. c \in Claim
    BY CoordinationAssumption DEF TypeOK, Claim, AuthorityRow, Owners, Expiry
  <1>2. auth' \in [Keys -> AuthorityRow]
    BY RowUpdates DEF ClaimScope, TypeOK
  <1>3. claims' \in [Keys -> Claim]
    BY <1>1 DEF ClaimScope, TypeOK
  <1>4. operations' \in [OpIds -> OperationRow]
    BY <1>1, RecordType DEF ClaimScope
  <1>5. handoffs' \in [Keys -> [Generations -> HandoffRow]]
    BY RowUpdates DEF ClaimScope, TypeOK
  <1> QED
    BY <1>2, <1>3, <1>4, <1>5 DEF ClaimScope, TypeOK

\* transition keeps every table's shape.
LEMMA TransitionType ==
    ASSUME TypeOK, NEW i \in Installations, NEW k \in Keys, NEW op \in OpIds,
           NEW c \in Claim, NEW basis \in Nat, NEW ev \in EvidenceIds \cup {NoOne},
           Transition(i, k, c, basis, op, ev)
    PROVE  TypeOK'
  <1>1. auth' \in [Keys -> AuthorityRow]
    BY RowUpdates DEF Transition, TypeOK
  <1>2. operations' \in [OpIds -> OperationRow]
    BY RecordType DEF Transition
  <1>3. outbox' \in [OpIds -> [OutboxKinds -> OutboxRow]]
    <2>1. [key |-> k, version |-> basis + 1, fence |-> c.fence, status |-> "pending"]
             \in OutboxRow
      BY DEF OutboxRow, Claim
    <2> QED
      BY <2>1 DEF Transition, TypeOK
  <1>4. evidence' \in [EvidenceIds -> Installations \cup {NoOne}]
    BY DEF Transition, TypeOK
  <1> QED
    BY <1>1, <1>2, <1>3, <1>4 DEF Transition, TypeOK

\* begin_effect keeps every table's shape.
LEMMA BeginEffectType ==
    ASSUME TypeOK, NEW i \in Installations, NEW k \in Keys, NEW op \in OpIds,
           NEW c \in Claim, NEW e \in EffectKeys, BeginEffect(i, k, c, e, op)
    PROVE  TypeOK'
  <1>1. operations' \in [OpIds -> OperationRow]
    <2>1. auth[k].version \in Nat
      BY DEF TypeOK, AuthorityRow
    <2> QED
      BY <2>1, RecordType DEF BeginEffect
  <1>2. effects' \in [EffectKeys -> EffectRow]
    <2>1. [op |-> op, inst |-> i, key |-> k, gen |-> c.gen,
           fence |-> c.fence, status |-> "pending"] \in EffectRow
      BY DEF EffectRow, Claim
    <2> QED
      BY <2>1 DEF BeginEffect, TypeOK
  <1> QED
    BY <1>1, <1>2 DEF BeginEffect, TypeOK

\* The operations that settle or archive what earlier ones opened,
\* and the reservations keep every table's shape.
LEMMA SettleType ==
    ASSUME TypeOK, NEW i \in Installations
    PROVE  /\ \A x \in cancellations : AcknowledgeCancellation(i, x) => TypeOK'
           /\ \A o \in OpIds, f \in OutboxKinds :
                 /\ \A success \in BOOLEAN : FinishOutbox(i, o, f, success) => TypeOK'
                 /\ SupersedeOutbox(i, o, f) => TypeOK'
           /\ \A e \in EffectKeys, outcome \in {"succeeded", "failed", "unknown"} :
                 FinishEffect(i, e, outcome) => TypeOK'
           /\ \A ev \in EvidenceIds : RetainStaleEvidence(i, ev) => TypeOK'
           /\ \A p \in Pools :
                 /\ \A limit \in Limits : SetReservationPool(i, p, limit) => TypeOK'
                 /\ \A op \in OpIds, amount \in Amounts :
                       ReserveIn(p, i, amount, op) => TypeOK'
                 /\ \A op \in OpIds : ReleaseReservation(i, p, op) => TypeOK'
  <1>1. ASSUME NEW x \in cancellations, AcknowledgeCancellation(i, x) PROVE TypeOK'
    BY <1>1, RowUpdates DEF AcknowledgeCancellation, TypeOK
  <1>2. ASSUME NEW o \in OpIds, NEW f \in OutboxKinds, NEW success \in BOOLEAN,
               FinishOutbox(i, o, f, success)
        PROVE  TypeOK'
    BY <1>2, RowUpdates DEF FinishOutbox, TypeOK
  <1>3. ASSUME NEW o \in OpIds, NEW f \in OutboxKinds, SupersedeOutbox(i, o, f)
        PROVE  TypeOK'
    BY <1>3, RowUpdates DEF SupersedeOutbox, TypeOK
  <1>4. ASSUME NEW e \in EffectKeys, NEW outcome \in {"succeeded", "failed", "unknown"},
               FinishEffect(i, e, outcome)
        PROVE  TypeOK'
    BY <1>4, RowUpdates DEF FinishEffect, TypeOK
  <1>5. ASSUME NEW ev \in EvidenceIds, RetainStaleEvidence(i, ev) PROVE TypeOK'
    BY <1>5 DEF RetainStaleEvidence, TypeOK, tables
  <1>6. ASSUME NEW p \in Pools, NEW limit \in Limits, SetReservationPool(i, p, limit)
        PROVE  TypeOK'
    BY <1>6, CoordinationAssumption DEF SetReservationPool, TypeOK, tables
  <1>7. ASSUME NEW p \in Pools, NEW op \in OpIds, NEW amount \in Amounts,
               ReserveIn(p, i, amount, op)
        PROVE  TypeOK'
    <2>1. [inst |-> i, amount |-> amount, status |-> "active"] \in ReservationRow
      BY CoordinationAssumption DEF ReservationRow
    <2> QED
      BY <1>7, <2>1 DEF ReserveIn, TypeOK, tables
  <1>8. ASSUME NEW p \in Pools, NEW op \in OpIds, ReleaseReservation(i, p, op)
        PROVE  TypeOK'
    BY <1>8, RowUpdates DEF ReleaseReservation, TypeOK, tables
  <1> QED
    BY <1>1, <1>2, <1>3, <1>4, <1>5, <1>6, <1>7, <1>8

\* Every step of the coordinator keeps every table's shape.
LEMMA TypeStep ==
    ASSUME TypeOK, [Next]_vars PROVE TypeOK'
  <1>1. CASE UNCHANGED vars
    BY <1>1 DEF vars, TypeOK
  <1>2. ASSUME NEW i \in Installations, NEW k \in Keys, NEW op \in OpIds,
               NEW owner \in Owners, NEW gen \in Generations, NEW basis \in SeenVersions(k),
               SetAuthority(i, k, owner, gen, basis, op)
        PROVE  TypeOK'
    BY <1>2, SetAuthorityType DEF SeenVersions
  <1>3. ASSUME NEW i \in Installations, NEW k \in Keys, NEW op \in OpIds,
               NEW basis \in SeenVersions(k), NEW gen \in Generations,
               NEW lease \in LeaseTimes, NEW t \in 0..now,
               ClaimScope(i, k, basis, gen, lease, t, op)
        PROVE  TypeOK'
    BY <1>3, ClaimScopeType DEF SeenVersions, TypeOK
  <1>4. ASSUME NEW i \in Installations, NEW k \in Keys, NEW op \in OpIds,
               NEW c \in Issued(k), NEW basis \in SeenVersions(k),
               NEW ev \in EvidenceIds \cup {NoOne}, Transition(i, k, c, basis, op, ev)
        PROVE  TypeOK'
    BY <1>4, IssuedType, TransitionType DEF SeenVersions
  <1>5. ASSUME NEW i \in Installations, NEW k \in Keys, NEW op \in OpIds,
               NEW c \in Issued(k), NEW e \in EffectKeys, BeginEffect(i, k, c, e, op)
        PROVE  TypeOK'
    BY <1>5, IssuedType, BeginEffectType
  <1>6. ASSUME NEW i \in Installations, NEW op \in OpIds, NEW S \in SUBSET Keys,
               NEW rows \in [S -> Owners], InitializeAuthority(i, rows, op)
        PROVE  TypeOK'
    BY <1>6, InitializeAuthorityType
  <1>7. ASSUME Tick PROVE TypeOK'
    BY <1>7 DEF Tick, TypeOK, tables
  <1> QED
    BY <1>1, <1>2, <1>3, <1>4, <1>5, <1>6, <1>7, SettleType DEF Next, Reserve, ReservePhase

\* The initial tables are empty.
LEMMA TypeInit ==
    Init => TypeOK
  BY EmptyRows DEF Init, TypeOK

\* Every table of the coordinator keeps its shape in every behaviour.
THEOREM TypeCorrect == Spec => []TypeOK
  BY TypeInit, TypeStep, PTL DEF Spec

-----------------------------------------------------------------------------
(* Fencing and handoff.                                                      *)

\* The tables the fencing invariant reads.
core == <<auth, claims, operations, effects, handoffs, cancellations>>

\* Two leases of one scope have different fences.
DistinctFences ==
    \A o1, o2 \in OpIds :
      /\ operations[o1].kind = "claim" /\ operations[o2].kind = "claim"
      /\ operations[o1].key = operations[o2].key
      /\ operations[o1].claim.fence = operations[o2].claim.fence
      => o1 = o2

LEMMA FencesDistinct ==
    ASSUME RecordedBehind, FencesUnique PROVE DistinctFences
  BY DEF FencesUnique, DistinctFences, RecordedBehind, BehindRow

\* The other half of FencesUnique follows from the order of the fences.
LEMMA FencesUniqueNext ==
    ASSUME RecordedBehind', HolderIsNewest', DistinctFences' PROVE FencesUnique'
  <1>1. ASSUME NEW k \in Keys, NEW c \in Issued(k)', Held(k)'
        PROVE  c.fence <= claims'[k].fence
    BY <1>1 DEF RecordedBehind, BehindRow, HolderIsNewest, Issued
  <1> QED
    BY <1>1 DEF FencesUnique, DistinctFences

\* A step that leaves the tables of fencing alone keeps the invariant.
LEMMA CoreStutter ==
    ASSUME FencingInv, TypeOK', UNCHANGED core PROVE FencingInv'
  <1>1. RecordedBehind' /\ HolderIsNewest' /\ HandoffsCover'
    BY DEF FencingInv, core, RecordedBehind, BehindRow, HolderIsNewest, HandoffsCover, Established, Held
  <1>2. FencesUnique' /\ AcceptedInFenceOrder'
    BY DEF FencingInv, core, FencesUnique, AcceptedInFenceOrder, Issued, Held, Fenced
  <1>3. EachVersionReplacedOnce'
    BY DEF FencingInv, core, EachVersionReplacedOnce, Changes
  <1>4. UnresolvedEffectPinsClaim' /\ ReconciledBeforeClaim'
    BY DEF FencingInv, core, UnresolvedEffectPinsClaim, ReconciledBeforeClaim, Held
  <1> QED
    BY <1>1, <1>2, <1>3, <1>4 DEF FencingInv

\* set_authority drops the lease and opens a handoff for its installation.
LEMMA SetAuthorityFencing ==
    ASSUME FencingInv, TypeOK', NEW i \in Installations, NEW k \in Keys, NEW op \in OpIds,
           NEW owner \in Owners, NEW gen \in Generations, NEW basis \in Nat,
           SetAuthority(i, k, owner, gen, basis, op)
    PROVE  FencingInv'
  <1> USE DEF FencingInv
  <1>1. /\ auth'[k].version = auth[k].version + 1 /\ auth'[k].gen = gen
        /\ auth'[k].owner = owner /\ auth'[k].nextFence = auth[k].nextFence
        /\ \A j \in Keys \ {k} : auth'[j] = auth[j] /\ claims'[j] = claims[j]
        /\ claims'[k].fence = 0
        /\ auth[k].version \in Nat /\ auth[k].gen \in Nat /\ gen \in Nat
    BY CoordinationAssumption DEF SetAuthority, TypeOK, Reassigned, AuthorityRow, NoClaim
  <1>2. /\ operations'[op].kind = "set_authority" /\ operations'[op].key = k
        /\ operations'[op].basis = auth[k].version
        /\ \A o \in OpIds \ {op} : operations'[o] = operations[o]
        /\ operations[op].kind = "none"
    BY DEF SetAuthority, TypeOK, Record, Fresh, Current
  <1>3. auth[k].version # 0 => gen > auth[k].gen
    BY DEF SetAuthority, Established
  <1>4. RecordedBehind'
    <2> SUFFICES ASSUME NEW o \in OpIds
                 PROVE  BehindRow(o)'
      BY DEF RecordedBehind
    <2>1. CASE o = op
      BY <1>1, <1>2, <2>1 DEF BehindRow
    <2>2. CASE o # op
      <3>1. BehindRow(o)
        BY DEF RecordedBehind
      <3>2. /\ operations[o].claim.fence \in Nat /\ operations[o].claim.gen \in Nat
            /\ operations[o].basis \in Nat
        BY DEF TypeOK, OperationRow, Claim
      <3> QED
        BY <1>1, <1>2, <1>3, <2>2, <3>1, <3>2 DEF BehindRow, Established
    <2> QED
      BY <2>1, <2>2
  <1>5. HolderIsNewest'
    BY <1>1 DEF HolderIsNewest, Held, Established
  <1>6. FencesUnique'
    <2>1. DistinctFences'
      BY <1>2, FencesDistinct DEF DistinctFences
    <2> QED
      BY <1>4, <1>5, <2>1, FencesUniqueNext
  <1>7. AcceptedInFenceOrder'
    BY <1>2 DEF AcceptedInFenceOrder, Fenced
  <1>8. EachVersionReplacedOnce'
    <2> SUFFICES ASSUME NEW j \in Keys, NEW v \in 1..(auth'[j].version - 1)
                 PROVE  /\ \E o \in OpIds : Changes(o, j)' /\ operations'[o].basis = v
                        /\ \A o1, o2 \in OpIds :
                              /\ Changes(o1, j)' /\ operations'[o1].basis = v
                              /\ Changes(o2, j)' /\ operations'[o2].basis = v
                              => o1 = o2
      BY DEF EachVersionReplacedOnce
    <2>1. \A o \in OpIds \ {op} : Changes(o, j)' <=> Changes(o, j)
      BY <1>2 DEF Changes
    <2>2. CASE j = k /\ v = auth[k].version
      <3>1. Changes(op, j)' /\ operations'[op].basis = v
        BY <1>2, <2>2 DEF Changes
      <3>2. \A o \in OpIds \ {op} : Changes(o, j)' => operations'[o].basis < v
        BY <1>2, <2>1, <2>2 DEF RecordedBehind, BehindRow, Changes
      <3> QED
        BY <3>1, <3>2
    <2>3. CASE ~ (j = k /\ v = auth[k].version)
      <3>1. v \in 1..(auth[j].version - 1)
        <4>1. auth[j].version \in Nat
          BY DEF TypeOK, AuthorityRow
        <4>2. CASE j = k
          BY <1>1, <2>3, <4>1, <4>2
        <4>3. CASE j # k
          BY <1>1, <4>3
        <4> QED
          BY <4>2, <4>3
      <3>2. Changes(op, j)' => operations'[op].basis # v
        BY <1>2, <2>3 DEF Changes
      <3>3. ~ Changes(op, j)
        BY <1>2 DEF Changes
      <3> QED
        BY <1>2, <2>1, <3>1, <3>2, <3>3 DEF EachVersionReplacedOnce
    <2> QED
      BY <2>2, <2>3
  <1>9. UnresolvedEffectPinsClaim'
    BY <1>1 DEF SetAuthority, NoUnresolvedEffect, UnresolvedEffectPinsClaim, Held,
       TypeOK, EffectRow
  <1>10. HandoffsCover'
    <2>1. handoffs[k][gen].status = "none"
      BY <1>1, <1>3 DEF HandoffsCover, Established
    <2>2. \A j \in Keys, g \in Generations :
             (j # k \/ g # gen) => handoffs'[j][g] = handoffs[j][g]
      BY DEF SetAuthority, TypeOK
    <2>3. Established(k) => handoffs'[k][gen].status = "reconciling"
      BY <2>1 DEF SetAuthority, TypeOK
    <2>4. ~ Established(k) => handoffs' = handoffs /\ cancellations' = cancellations
      BY DEF SetAuthority
    <2>5. ASSUME NEW j \in Keys, NEW g \in Generations, handoffs'[j][g].status # "none"
          PROVE  Established(j)' /\ g <= auth'[j].gen
      <3>1. CASE j = k /\ g = gen
        BY <1>1, <3>1 DEF Established
      <3>2. CASE j # k \/ g # gen
        BY <1>1, <1>3, <2>2, <2>5, <3>2, CoordinationAssumption DEF HandoffsCover, Established
      <3> QED
        BY <3>1, <3>2
    <2>6. ASSUME NEW x \in cancellations', x.status = "requested"
          PROVE  \E g \in Generations : handoffs'[x.key][g].status = "reconciling"
      <3>1. CASE x.key = k /\ Established(k)
        BY <2>3, <3>1
      <3>2. CASE ~ (x.key = k /\ Established(k))
        <4>1. x \in cancellations
          BY <2>6, <3>2 DEF SetAuthority
        <4>2. x.key \in Keys
          BY <4>1 DEF TypeOK, CancellationRow
        <4> QED
          BY <2>2, <2>4, <2>6, <3>2, <4>1, <4>2 DEF HandoffsCover
      <3> QED
        BY <3>1, <3>2
    <2> QED
      BY <2>5, <2>6 DEF HandoffsCover
  <1>11. ReconciledBeforeClaim'
    <2> SUFFICES ASSUME NEW j \in Keys, Held(j)'
                 PROVE  /\ \A x \in cancellations' : x.key = j => x.status = "acknowledged"
                        /\ \A g \in Generations : handoffs'[j][g].status # "reconciling"
                        /\ auth'[j].gen = claims'[j].gen /\ auth'[j].owner = claims'[j].owner
      BY DEF ReconciledBeforeClaim
    <2>1. j # k /\ Held(j)
      BY <1>1 DEF Held
    <2>2. \A x \in cancellations' : x.key = j => x \in cancellations
      BY <2>1 DEF SetAuthority
    <2>3. handoffs'[j] = handoffs[j]
      BY <2>1 DEF SetAuthority, TypeOK
    <2> QED
      BY <1>1, <2>1, <2>2, <2>3 DEF ReconciledBeforeClaim
  <1> QED
    BY <1>4, <1>5, <1>6, <1>7, <1>8, <1>9, <1>10, <1>11

\* initialize_authority writes only scopes nothing was recorded about.
LEMMA InitializeAuthorityFencing ==
    ASSUME FencingInv, TypeOK', NEW i \in Installations, NEW op \in OpIds,
           NEW S \in SUBSET Keys, NEW rows \in [S -> Owners],
           InitializeAuthority(i, rows, op)
    PROVE  FencingInv'
  <1> USE DEF FencingInv
  <1>1. /\ \A j \in Keys \ S : auth'[j] = auth[j]
        /\ \A j \in S : /\ auth[j].version = 0 /\ auth'[j].version = 1
                       /\ auth'[j].gen = 1 /\ auth'[j].nextFence = 0
        /\ \A j \in Keys : claims[j].fence = 0 /\ claims'[j] = claims[j]
    BY DEF InitializeAuthority, TypeOK, Held, Established
  <1>2. /\ operations'[op].kind = "initialize_authority"
        /\ \A o \in OpIds \ {op} : operations'[o] = operations[o]
        /\ operations[op].kind = "none"
    BY DEF InitializeAuthority, TypeOK, Record, Fresh
  <1>3. effects' = effects /\ handoffs' = handoffs /\ cancellations' = cancellations
    BY DEF InitializeAuthority
  <1>4. RecordedBehind'
    <2> SUFFICES ASSUME NEW o \in OpIds PROVE BehindRow(o)'
      BY DEF RecordedBehind
    <2>1. CASE o = op
      BY <1>2, <2>1 DEF BehindRow
    <2>2. CASE o # op
      <3>1. BehindRow(o) /\ operations[o].basis \in Nat
        BY DEF RecordedBehind, TypeOK, OperationRow
      <3> QED
        BY <1>1, <1>2, <2>2, <3>1 DEF BehindRow, Established
    <2> QED
      BY <2>1, <2>2
  <1>5. HolderIsNewest' /\ ReconciledBeforeClaim'
    BY <1>1 DEF HolderIsNewest, ReconciledBeforeClaim, Held
  <1>6. FencesUnique'
    <2>1. DistinctFences'
      BY <1>2, FencesDistinct DEF DistinctFences
    <2> QED
      BY <1>4, <1>5, <2>1, FencesUniqueNext
  <1>7. AcceptedInFenceOrder'
    BY <1>2 DEF AcceptedInFenceOrder, Fenced
  <1>8. EachVersionReplacedOnce'
    <2>1. \A o \in OpIds, j \in Keys : Changes(o, j)' <=> Changes(o, j)
      BY <1>2 DEF Changes
    <2>2. \A o \in OpIds, j \in Keys :
             Changes(o, j) => operations'[o].basis = operations[o].basis
      BY <1>2 DEF Changes
    <2>3. \A j \in Keys : \A v \in 1..(auth'[j].version - 1) :
             v \in 1..(auth[j].version - 1)
      BY <1>1
    <2> QED
      BY <2>1, <2>2, <2>3 DEF EachVersionReplacedOnce
  <1>9. UnresolvedEffectPinsClaim'
    BY <1>3 DEF InitializeAuthority, UnresolvedEffectPinsClaim
  <1>10. HandoffsCover'
    BY <1>1, <1>3 DEF HandoffsCover, Established
  <1> QED
    BY <1>4, <1>5, <1>6, <1>7, <1>8, <1>9, <1>10

\* claim grants the next fence of a scope whose handoffs are reconciled.
LEMMA ClaimScopeFencing ==
    ASSUME FencingInv, TypeOK', NEW i \in Installations, NEW k \in Keys, NEW op \in OpIds,
           NEW basis \in Nat, NEW gen \in Generations, NEW lease \in LeaseTimes,
           NEW t \in Nat, ClaimScope(i, k, basis, gen, lease, t, op)
    PROVE  FencingInv'
  <1> USE DEF FencingInv
  <1>1. /\ auth'[k].version = auth[k].version /\ auth'[k].gen = auth[k].gen
        /\ auth'[k].owner = auth[k].owner
        /\ auth'[k].nextFence = auth[k].nextFence + 1 /\ auth[k].nextFence \in Nat
        /\ \A j \in Keys \ {k} : auth'[j] = auth[j] /\ claims'[j] = claims[j]
    BY DEF ClaimScope, TypeOK, AuthorityRow
  <1>2. /\ claims'[k].fence = auth[k].nextFence + 1
        /\ claims'[k].gen = gen /\ claims'[k].owner = MemberOf[i]
        /\ auth[k].version # 0 /\ auth[k].gen = gen /\ auth[k].owner = MemberOf[i]
        /\ auth[k].version = basis
    BY DEF ClaimScope, TypeOK, Current, Established
  <1>3. /\ operations'[op].kind = "claim" /\ operations'[op].key = k
        /\ operations'[op].basis = basis /\ operations'[op].claim = claims'[k]
        /\ \A o \in OpIds \ {op} : operations'[o] = operations[o]
        /\ operations[op].kind = "none"
    BY DEF ClaimScope, TypeOK, Record, Fresh
  <1>4. RecordedBehind'
    <2> SUFFICES ASSUME NEW o \in OpIds PROVE BehindRow(o)'
      BY DEF RecordedBehind
    <2>1. CASE o = op
      BY <1>1, <1>2, <1>3, <2>1, CoordinationAssumption DEF BehindRow, Established
    <2>2. CASE o # op
      <3>1. BehindRow(o) /\ operations[o].claim.fence \in Nat
        BY DEF RecordedBehind, TypeOK, OperationRow, Claim
      <3> QED
        BY <1>1, <1>3, <2>2, <3>1 DEF BehindRow, Established
    <2> QED
      BY <2>1, <2>2
  <1>5. HolderIsNewest'
    BY <1>1, <1>2 DEF HolderIsNewest, Held, Established
  <1>6. FencesUnique'
    <2>1. \A o \in OpIds \ {op} : operations[o].kind = "claim" /\ operations[o].key = k
                                  => operations[o].claim.fence # claims'[k].fence
      BY <1>1, <1>2 DEF RecordedBehind, BehindRow, TypeOK, OperationRow, Claim
    <2>2. DistinctFences'
      BY <1>3, <2>1, FencesDistinct DEF DistinctFences
    <2> QED
      BY <1>4, <1>5, <2>2, FencesUniqueNext
  <1>7. AcceptedInFenceOrder'
    BY <1>3 DEF AcceptedInFenceOrder, Fenced
  <1>8. EachVersionReplacedOnce'
    <2>1. \A o \in OpIds, j \in Keys : Changes(o, j)' <=> Changes(o, j)
      BY <1>3 DEF Changes
    <2>2. \A o \in OpIds, j \in Keys :
             Changes(o, j) => operations'[o].basis = operations[o].basis
      BY <1>3 DEF Changes
    <2>3. \A j \in Keys : auth'[j].version = auth[j].version
      BY <1>1
    <2> QED
      BY <2>1, <2>2, <2>3 DEF EachVersionReplacedOnce
  <1>9. UnresolvedEffectPinsClaim'
    <2>1. effects' = effects /\ NoUnresolvedEffect(k)
      BY DEF ClaimScope
    <2>2. \A e \in EffectKeys : effects[e].status \in Unresolved =>
             effects[e].key \in Keys \ {k}
      BY <2>1 DEF NoUnresolvedEffect, UnresolvedEffectPinsClaim
    <2> QED
      BY <1>1, <2>1, <2>2 DEF UnresolvedEffectPinsClaim, Held
  <1>10. \A j \in Keys, g \in Generations :
            /\ j # k => handoffs'[j][g] = handoffs[j][g]
            /\ handoffs'[j][g].status = "none" <=> handoffs[j][g].status = "none"
            /\ handoffs'[k][g].status # "reconciling"
    BY DEF ClaimScope, TypeOK, HandoffRow
  <1>11. \A x \in cancellations : x.key = k => x.status = "acknowledged"
    <2> SUFFICES ASSUME NEW x \in cancellations, x.key = k, x.status = "requested"
                 PROVE  FALSE
      BY DEF TypeOK, CancellationRow
    <2>1. PICK g \in Generations : handoffs[k][g].status = "reconciling"
      BY DEF HandoffsCover
    <2> QED
      BY <2>1 DEF ClaimScope, HandoffBlocked
  <1>12. cancellations' = cancellations
    BY DEF ClaimScope
  <1>13. HandoffsCover'
    <2>1. \A j \in Keys, g \in Generations :
             handoffs'[j][g].status # "none" => Established(j)' /\ g <= auth'[j].gen
      BY <1>1, <1>10 DEF HandoffsCover, Established
    <2>2. \A x \in cancellations : x.key \in Keys
      BY DEF TypeOK, CancellationRow
    <2> QED
      BY <1>10, <1>11, <1>12, <2>1, <2>2 DEF HandoffsCover
  <1>14. ReconciledBeforeClaim'
    BY <1>1, <1>2, <1>10, <1>11, <1>12 DEF ReconciledBeforeClaim, Held
  <1> QED
    BY <1>4, <1>5, <1>6, <1>7, <1>8, <1>9, <1>13, <1>14

\* What a request beneath a valid claim is recorded with: the newest fence,
\* the current generation and the current version.
LEMMA ValidIsNewest ==
    ASSUME FencingInv, NEW i \in Installations, NEW k \in Keys, NEW c, ValidClaim(i, k, c)
    PROVE  /\ c = claims[k] /\ Held(k) /\ Established(k) /\ c.inst = i
           /\ c.fence = auth[k].nextFence /\ c.gen = auth[k].gen
  BY DEF ValidClaim, FencingInv, HolderIsNewest

\* Recording one more operation under the newest fence and version keeps the
\* accepted work in fence order.
LEMMA AcceptNext ==
    ASSUME FencingInv, NEW op \in OpIds, NEW k \in Keys, NEW basis \in Nat,
           operations'[op].key = k, operations'[op].basis = basis, auth[k].version = basis,
           operations'[op].claim.fence = auth[k].nextFence,
           operations'[op].claim.gen = auth[k].gen,
           operations[op].kind = "none",
           \A o \in OpIds \ {op} : operations'[o] = operations[o]
    PROVE  AcceptedInFenceOrder'
  <1> USE DEF FencingInv
  <1>1. \A o \in OpIds : Fenced(o) /\ operations[o].key = k =>
           /\ operations[o].basis <= basis /\ operations[o].basis \in Nat
           /\ operations[o].claim.fence <= auth[k].nextFence
           /\ operations[o].claim.gen <= auth[k].gen
    BY DEF Fenced, RecordedBehind, BehindRow, TypeOK, OperationRow
  <1>2. \A o \in OpIds \ {op} : Fenced(o)' <=> Fenced(o)
    BY DEF Fenced
  <1> SUFFICES ASSUME NEW o1 \in OpIds, NEW o2 \in OpIds, Fenced(o1)', Fenced(o2)',
                      operations'[o1].key = operations'[o2].key,
                      operations'[o1].basis < operations'[o2].basis
               PROVE  /\ operations'[o1].claim.fence <= operations'[o2].claim.fence
                      /\ operations'[o1].claim.gen <= operations'[o2].claim.gen
    BY DEF AcceptedInFenceOrder
  <1>3. CASE o1 = op
    BY <1>1, <1>2, <1>3
  <1>4. CASE o1 # op /\ o2 = op
    BY <1>1, <1>2, <1>4
  <1>5. CASE o1 # op /\ o2 # op
    BY <1>2, <1>5 DEF AcceptedInFenceOrder
  <1> QED
    BY <1>3, <1>4, <1>5

\* transition advances the version beneath the newest lease.
LEMMA TransitionFencing ==
    ASSUME FencingInv, TypeOK', NEW i \in Installations, NEW k \in Keys, NEW op \in OpIds,
           NEW c \in Claim, NEW basis \in Nat, NEW ev \in EvidenceIds \cup {NoOne},
           Transition(i, k, c, basis, op, ev)
    PROVE  FencingInv'
  <1> USE DEF FencingInv
  <1>1. /\ auth'[k].version = auth[k].version + 1 /\ auth'[k].gen = auth[k].gen
        /\ auth'[k].owner = auth[k].owner /\ auth'[k].nextFence = auth[k].nextFence
        /\ auth[k].version \in Nat
        /\ \A j \in Keys \ {k} : auth'[j] = auth[j]
        /\ claims' = claims /\ effects' = effects
        /\ handoffs' = handoffs /\ cancellations' = cancellations
    BY DEF Transition, TypeOK, AuthorityRow
  <1>2. /\ operations'[op].kind = "transition" /\ operations'[op].key = k
        /\ operations'[op].basis = basis /\ operations'[op].claim = c
        /\ auth[k].version = basis
        /\ \A o \in OpIds \ {op} : operations'[o] = operations[o]
        /\ operations[op].kind = "none"
    BY DEF Transition, TypeOK, Record, Fresh, Current
  <1>3. /\ Held(k) /\ Established(k)
        /\ c.fence = auth[k].nextFence /\ c.gen = auth[k].gen
    BY ValidIsNewest DEF Transition
  <1>4. RecordedBehind'
    <2> SUFFICES ASSUME NEW o \in OpIds PROVE BehindRow(o)'
      BY DEF RecordedBehind
    <2>0. c.fence \in Nat /\ c.gen \in Nat
      BY DEF Claim
    <2>1. CASE o = op
      BY <1>1, <1>2, <1>3, <2>0, <2>1 DEF BehindRow, Established
    <2>2. CASE o # op
      <3>1. BehindRow(o) /\ operations[o].basis \in Nat
        BY DEF RecordedBehind, TypeOK, OperationRow
      <3> QED
        BY <1>1, <1>2, <2>2, <3>1 DEF BehindRow, Established
    <2> QED
      BY <2>1, <2>2
  <1>5. HolderIsNewest'
    BY <1>1 DEF HolderIsNewest, Held, Established
  <1>6. FencesUnique'
    <2>1. DistinctFences'
      BY <1>2, FencesDistinct DEF DistinctFences
    <2> QED
      BY <1>4, <1>5, <2>1, FencesUniqueNext
  <1>7. AcceptedInFenceOrder'
    BY <1>2, <1>3, AcceptNext
  <1>8. EachVersionReplacedOnce'
    <2> SUFFICES ASSUME NEW j \in Keys, NEW v \in 1..(auth'[j].version - 1)
                 PROVE  /\ \E o \in OpIds : Changes(o, j)' /\ operations'[o].basis = v
                        /\ \A o1, o2 \in OpIds :
                              /\ Changes(o1, j)' /\ operations'[o1].basis = v
                              /\ Changes(o2, j)' /\ operations'[o2].basis = v
                              => o1 = o2
      BY DEF EachVersionReplacedOnce
    <2>1. \A o \in OpIds \ {op} : Changes(o, j)' <=> Changes(o, j)
      BY <1>2 DEF Changes
    <2>2. CASE j = k /\ v = auth[k].version
      <3>1. Changes(op, j)' /\ operations'[op].basis = v
        BY <1>2, <2>2 DEF Changes
      <3>2. \A o \in OpIds \ {op} : Changes(o, j)' => operations'[o].basis < v
        BY <1>2, <2>1, <2>2 DEF RecordedBehind, BehindRow, Changes
      <3> QED
        BY <3>1, <3>2
    <2>3. CASE ~ (j = k /\ v = auth[k].version)
      <3>1. v \in 1..(auth[j].version - 1)
        <4>1. auth[j].version \in Nat
          BY DEF TypeOK, AuthorityRow
        <4>2. CASE j = k
          BY <1>1, <2>3, <4>1, <4>2
        <4>3. CASE j # k
          BY <1>1, <4>3
        <4> QED
          BY <4>2, <4>3
      <3>2. Changes(op, j)' => operations'[op].basis # v
        BY <1>2, <2>3 DEF Changes
      <3>3. ~ Changes(op, j)
        BY <1>2 DEF Changes
      <3> QED
        BY <1>2, <2>1, <3>1, <3>2, <3>3 DEF EachVersionReplacedOnce
    <2> QED
      BY <2>2, <2>3
  <1>9. UnresolvedEffectPinsClaim'
    BY <1>1 DEF UnresolvedEffectPinsClaim, Held
  <1>10. HandoffsCover' /\ ReconciledBeforeClaim'
    BY <1>1 DEF HandoffsCover, ReconciledBeforeClaim, Established, Held
  <1> QED
    BY <1>4, <1>5, <1>6, <1>7, <1>8, <1>9, <1>10

\* begin_effect opens an effect beneath the newest lease.
LEMMA BeginEffectFencing ==
    ASSUME FencingInv, TypeOK', NEW i \in Installations, NEW k \in Keys, NEW op \in OpIds,
           NEW c \in Claim, NEW e \in EffectKeys, BeginEffect(i, k, c, e, op)
    PROVE  FencingInv'
  <1> USE DEF FencingInv
  <1>1. auth' = auth /\ claims' = claims /\ handoffs' = handoffs
           /\ cancellations' = cancellations
    BY DEF BeginEffect
  <1>2. /\ operations'[op].kind = "effect" /\ operations'[op].key = k
        /\ operations'[op].basis = auth[k].version /\ operations'[op].claim = c
        /\ \A o \in OpIds \ {op} : operations'[o] = operations[o]
        /\ operations[op].kind = "none"
        /\ auth[k].version \in Nat
    BY DEF BeginEffect, TypeOK, Record, Fresh, AuthorityRow
  <1>3. /\ c = claims[k] /\ c.inst = i /\ Held(k) /\ Established(k)
        /\ c.fence = auth[k].nextFence /\ c.gen = auth[k].gen
    BY ValidIsNewest DEF BeginEffect
  <1>4. RecordedBehind'
    <2> SUFFICES ASSUME NEW o \in OpIds PROVE BehindRow(o)'
      BY DEF RecordedBehind
    <2>0. c.fence \in Nat /\ c.gen \in Nat
      BY DEF Claim
    <2>1. CASE o = op
      BY <1>1, <1>2, <1>3, <2>0, <2>1 DEF BehindRow, Established
    <2>2. CASE o # op
      BY <1>1, <1>2, <2>2 DEF RecordedBehind, BehindRow, Established
    <2> QED
      BY <2>1, <2>2
  <1>5. HolderIsNewest'
    BY <1>1 DEF HolderIsNewest, Held, Established
  <1>6. FencesUnique'
    <2>1. DistinctFences'
      BY <1>2, FencesDistinct DEF DistinctFences
    <2> QED
      BY <1>4, <1>5, <2>1, FencesUniqueNext
  <1>7. AcceptedInFenceOrder'
    BY <1>2, <1>3, AcceptNext
  <1>8. EachVersionReplacedOnce'
    <2>1. \A o \in OpIds, j \in Keys : Changes(o, j)' <=> Changes(o, j)
      BY <1>2 DEF Changes
    <2>2. \A o \in OpIds, j \in Keys :
             Changes(o, j) => operations'[o].basis = operations[o].basis
      BY <1>2 DEF Changes
    <2> QED
      BY <1>1, <2>1, <2>2 DEF EachVersionReplacedOnce
  <1>9. UnresolvedEffectPinsClaim'
    <2>1. effects'[e] = [op |-> op, inst |-> i, key |-> k, gen |-> c.gen,
                         fence |-> c.fence, status |-> "pending"]
             /\ \A d \in EffectKeys \ {e} : effects'[d] = effects[d]
      BY DEF BeginEffect, TypeOK
    <2> QED
      BY <1>1, <1>3, <2>1 DEF UnresolvedEffectPinsClaim, Held
  <1>10. HandoffsCover' /\ ReconciledBeforeClaim'
    BY <1>1 DEF HandoffsCover, ReconciledBeforeClaim, Established, Held
  <1> QED
    BY <1>4, <1>5, <1>6, <1>7, <1>8, <1>9, <1>10

\* finish_effect only ever resolves an open effect, and
\* acknowledge_cancellation only ever answers a request.
LEMMA SettleFencing ==
    ASSUME FencingInv, TypeOK', NEW i \in Installations
    PROVE  /\ \A e \in EffectKeys, outcome \in {"succeeded", "failed", "unknown"} :
                 FinishEffect(i, e, outcome) => FencingInv'
           /\ \A x \in cancellations : AcknowledgeCancellation(i, x) => FencingInv'
  <1> USE DEF FencingInv
  <1>1. ASSUME auth' = auth, claims' = claims, operations' = operations, handoffs' = handoffs
        PROVE  /\ RecordedBehind' /\ HolderIsNewest' /\ FencesUnique'
               /\ AcceptedInFenceOrder' /\ EachVersionReplacedOnce'
    <2>1. RecordedBehind' /\ HolderIsNewest' /\ FencesUnique'
      BY <1>1 DEF RecordedBehind, BehindRow, HolderIsNewest, FencesUnique, Issued,
         Held, Established
    <2>2. AcceptedInFenceOrder' /\ EachVersionReplacedOnce'
      BY <1>1 DEF AcceptedInFenceOrder, EachVersionReplacedOnce, Fenced, Changes
    <2> QED
      BY <2>1, <2>2
  <1>2. ASSUME NEW e \in EffectKeys, NEW outcome \in {"succeeded", "failed", "unknown"},
               FinishEffect(i, e, outcome)
        PROVE  FencingInv'
    <2>1. /\ effects[e].status \in Unresolved
          /\ effects'[e].key = effects[e].key /\ effects'[e].gen = effects[e].gen
          /\ effects'[e].fence = effects[e].fence /\ effects'[e].inst = effects[e].inst
          /\ \A d \in EffectKeys \ {e} : effects'[d] = effects[d]
          /\ auth' = auth /\ claims' = claims /\ operations' = operations
          /\ handoffs' = handoffs /\ cancellations' = cancellations
      BY <1>2 DEF FinishEffect, TypeOK, EffectRow
    <2>2. UnresolvedEffectPinsClaim'
      BY <2>1 DEF UnresolvedEffectPinsClaim, Held
    <2>3. HandoffsCover' /\ ReconciledBeforeClaim'
      BY <2>1 DEF HandoffsCover, ReconciledBeforeClaim, Established, Held
    <2> QED
      BY <1>1, <2>1, <2>2, <2>3
  <1>3. ASSUME NEW x \in cancellations, AcknowledgeCancellation(i, x)
        PROVE  FencingInv'
    <2>1. /\ auth' = auth /\ claims' = claims /\ operations' = operations
          /\ handoffs' = handoffs /\ effects' = effects
          /\ cancellations' = (cancellations \ {x}) \cup {[x EXCEPT !.status = "acknowledged"]}
      BY <1>3 DEF AcknowledgeCancellation
    <2>2. [x EXCEPT !.status = "acknowledged"].status = "acknowledged"
      BY DEF TypeOK, CancellationRow
    <2>3. UnresolvedEffectPinsClaim'
      BY <2>1 DEF UnresolvedEffectPinsClaim, Held
    <2>4. HandoffsCover'
      BY <2>1, <2>2 DEF HandoffsCover, Established
    <2>5. ReconciledBeforeClaim'
      BY <2>1, <2>2 DEF ReconciledBeforeClaim, Held
    <2> QED
      BY <1>1, <2>1, <2>3, <2>4, <2>5
  <1> QED
    BY <1>2, <1>3

\* Nothing is open in the initial tables.
LEMMA FencingInit ==
    Init => FencingInv
  <1> SUFFICES ASSUME Init PROVE FencingInv
    OBVIOUS
  <1>1. TypeOK
    BY TypeInit
  <1>2. /\ \A o \in OpIds : operations[o].kind = "none"
        /\ \A k \in Keys : claims[k].fence = 0 /\ auth[k].version = 0
        /\ \A e \in EffectKeys : effects[e].status = "none"
        /\ \A k \in Keys, g \in Generations : handoffs[k][g].status = "none"
        /\ cancellations = {}
    BY DEF Init, NoOperation, NoClaim, NoAuthority, NoEffect, NoHandoff
  <1>3. RecordedBehind /\ HolderIsNewest /\ HandoffsCover
    BY <1>2 DEF RecordedBehind, BehindRow, HolderIsNewest, HandoffsCover, Held
  <1>4. FencesUnique /\ AcceptedInFenceOrder /\ EachVersionReplacedOnce
    BY <1>2 DEF FencesUnique, Issued, AcceptedInFenceOrder, Fenced, EachVersionReplacedOnce
  <1>5. UnresolvedEffectPinsClaim /\ ReconciledBeforeClaim
    BY <1>2 DEF UnresolvedEffectPinsClaim, Unresolved, ReconciledBeforeClaim, Held
  <1> QED
    BY <1>1, <1>3, <1>4, <1>5 DEF FencingInv

\* Every step keeps the fencing invariant.
LEMMA FencingStep ==
    ASSUME FencingInv, [Next]_vars PROVE FencingInv'
  <1>0. TypeOK'
    BY TypeStep DEF FencingInv
  <1>1. CASE UNCHANGED vars
    BY <1>0, <1>1, CoreStutter DEF vars, core
  <1>2. ASSUME NEW i \in Installations, NEW k \in Keys, NEW op \in OpIds,
               NEW owner \in Owners, NEW gen \in Generations, NEW basis \in SeenVersions(k),
               SetAuthority(i, k, owner, gen, basis, op)
        PROVE  FencingInv'
    BY <1>0, <1>2, SetAuthorityFencing DEF SeenVersions
  <1>3. ASSUME NEW i \in Installations, NEW k \in Keys, NEW op \in OpIds,
               NEW basis \in SeenVersions(k), NEW gen \in Generations,
               NEW lease \in LeaseTimes, NEW t \in 0..now,
               ClaimScope(i, k, basis, gen, lease, t, op)
        PROVE  FencingInv'
    BY <1>0, <1>3, ClaimScopeFencing DEF SeenVersions
  <1>4. ASSUME NEW i \in Installations, NEW k \in Keys, NEW op \in OpIds,
               NEW c \in Issued(k), NEW basis \in SeenVersions(k),
               NEW ev \in EvidenceIds \cup {NoOne}, Transition(i, k, c, basis, op, ev)
        PROVE  FencingInv'
    BY <1>0, <1>4, IssuedType, TransitionFencing DEF SeenVersions, FencingInv
  <1>5. ASSUME NEW i \in Installations, NEW k \in Keys, NEW op \in OpIds,
               NEW c \in Issued(k), NEW e \in EffectKeys, BeginEffect(i, k, c, e, op)
        PROVE  FencingInv'
    BY <1>0, <1>5, IssuedType, BeginEffectFencing DEF FencingInv
  <1>6. ASSUME NEW i \in Installations, NEW op \in OpIds, NEW S \in SUBSET Keys,
               NEW rows \in [S -> Owners], InitializeAuthority(i, rows, op)
        PROVE  FencingInv'
    BY <1>0, <1>6, InitializeAuthorityFencing
  <1>7. ASSUME NEW i \in Installations,
               \/ \E o \in OpIds, f \in OutboxKinds :
                     \/ \E success \in BOOLEAN : FinishOutbox(i, o, f, success)
                     \/ SupersedeOutbox(i, o, f)
               \/ \E ev \in EvidenceIds : RetainStaleEvidence(i, ev)
               \/ \E p \in Pools :
                     \/ \E limit \in Limits : SetReservationPool(i, p, limit)
                     \/ \E op \in OpIds, amount \in Amounts : ReserveIn(p, i, amount, op)
                     \/ \E op \in OpIds : ReleaseReservation(i, p, op)
        PROVE  FencingInv'
    <2>1. UNCHANGED core
      BY <1>7 DEF core, tables, FinishOutbox, SupersedeOutbox, RetainStaleEvidence,
         SetReservationPool, ReserveIn, ReleaseReservation
    <2> QED
      BY <1>0, <2>1, CoreStutter
  <1>8. ASSUME Tick PROVE FencingInv'
    BY <1>0, <1>8, CoreStutter DEF Tick, core, tables
  <1> QED
    BY <1>0, <1>1, <1>2, <1>3, <1>4, <1>5, <1>6, <1>7, <1>8, SettleFencing
       DEF Next, Reserve, ReservePhase

\* The fencing invariant holds in every behaviour of the coordinator.
THEOREM FencingHolds == Spec => []FencingInv
  BY FencingInit, FencingStep, PTL DEF Spec

\* No fence is ever granted twice on a scope, across any number of
\* reassignments (claim, set_authority).
THEOREM FencesNeverReused == Spec => []FencesUnique
  BY FencingHolds, PTL DEF FencingInv

\* Work under an older lease or generation is never accepted after work under
\* a newer one (_validate_claim in transition and begin_effect).
THEOREM FencedWorkOrdered == Spec => []AcceptedInFenceOrder
  BY FencingHolds, PTL DEF FencingInv

\* Every version of a scope is replaced by exactly one operation that saw it.
THEOREM VersionsLinear == Spec => []EachVersionReplacedOnce
  BY FencingHolds, PTL DEF FencingInv

\* An effect of unknown outcome pins the lease and the generation of its scope.
THEOREM UnresolvedPins == Spec => []UnresolvedEffectPinsClaim
  BY FencingHolds, PTL DEF FencingInv

\* A scope is leased only when every worker asked to stop has acknowledged.
THEOREM HandoffBarrier == Spec => []ReconciledBeforeClaim
  BY FencingHolds, PTL DEF FencingInv

-----------------------------------------------------------------------------
(* Sums over finite sets.                                                    *)

\* A nonempty family of subsets of a finite set has a member none of whose
\* elements can be taken away: induction over finite sets.
LEMMA MinimalSubset ==
    ASSUME NEW U, IsFiniteSet(U), NEW B \in SUBSET SUBSET U, B # {}
    PROVE  \E T \in B : \A x \in T : T \ {x} \notin B
<1> DEFINE R == OpToRel(<, Nat)
           A == {Cardinality(T) : T \in B}
<1>1. IsWellFoundedOn(R, Nat)
  BY NatLessThanWellFounded
<1>2. \A a, b \in Nat : a < b => <<a, b>> \in R
  BY DEF OpToRel
<1> HIDE DEF R
<1>3. \A T \in B : IsFiniteSet(T) /\ Cardinality(T) \in Nat
  BY FS_Subset, FS_CardinalityType
<1>4. A \subseteq Nat /\ A # {}
  BY <1>3
<1>5. PICK n \in A : \A m \in A : ~ (<<m, n>> \in R)
  <2> HIDE DEF A
  <2> QED
    BY <1>1, <1>4, WFMin
<1>6. PICK T \in B : n = Cardinality(T)
  OBVIOUS
<1>7. ASSUME NEW x \in T, T \ {x} \in B PROVE FALSE
  <2>1. Cardinality(T \ {x}) = n - 1 /\ Cardinality(T \ {x}) \in Nat /\ n \in Nat
    BY <1>3, <1>6, <1>7, FS_RemoveElement
  <2>2. Cardinality(T \ {x}) \in A /\ Cardinality(T \ {x}) < n
    BY <1>7, <2>1
  <2> QED
    BY <1>2, <1>5, <2>1, <2>2
<1> QED
  BY <1>7

\* g gives every subset of U the sum of f over it, in whatever order it is taken.
SumsUp(g, f, U) ==
    /\ g \in [SUBSET U -> Nat] /\ g[{}] = 0
    /\ \A T \in SUBSET U : \A x \in T : g[T] = f[x] + g[T \ {x}]

\* Such sums extend to one more element.
LEMMA SumsExtend ==
    ASSUME NEW T, NEW u \in T, NEW f, \A x \in T : f[x] \in Nat,
           NEW g, SumsUp(g, f, T \ {u})
    PROVE  \E h : SumsUp(h, f, T)
<1> DEFINE h == [s \in SUBSET T |-> IF u \in s THEN f[u] + g[s \ {u}] ELSE g[s]]
<1>0. /\ g \in [SUBSET (T \ {u}) -> Nat] /\ g[{}] = 0
      /\ \A s \in SUBSET (T \ {u}) : \A x \in s : g[s] = f[x] + g[s \ {x}]
  BY DEF SumsUp
<1>1. \A s \in SUBSET T : g[s \ {u}] \in Nat /\ (u \notin s => g[s] \in Nat)
  BY <1>0
<1>2. h \in [SUBSET T -> Nat]
  BY <1>1
<1>3. h[{}] = 0
  BY <1>0
<1>4. ASSUME NEW s \in SUBSET T, NEW x \in s
      PROVE  h[s] = f[x] + h[s \ {x}]
  <2>1. s \ {x} \in SUBSET T /\ f[x] \in Nat /\ f[u] \in Nat
    OBVIOUS
  <2>2. CASE u \notin s
    <3>1. h[s] = g[s] /\ h[s \ {x}] = g[s \ {x}]
      BY <2>1, <2>2
    <3>2. s \in SUBSET (T \ {u})
      BY <2>2
    <3> QED
      BY <1>0, <3>1, <3>2
  <2>3. CASE x = u
    <3>1. h[s] = f[u] + g[s \ {u}] /\ h[s \ {x}] = g[s \ {u}]
      BY <2>1, <2>3
    <3> QED
      BY <2>3, <3>1
  <2>4. CASE u \in s /\ x # u
    <3>1. h[s] = f[u] + g[s \ {u}] /\ h[s \ {x}] = f[u] + g[(s \ {x}) \ {u}]
      BY <2>1, <2>4
    <3>2. s \ {u} \in SUBSET (T \ {u}) /\ x \in s \ {u}
      BY <2>4
    <3>3. g[s \ {u}] = f[x] + g[(s \ {u}) \ {x}]
      BY <1>0, <3>2
    <3>4. (s \ {u}) \ {x} = (s \ {x}) \ {u}
      OBVIOUS
    <3>5. PICK a, b, c \in Nat : a = f[u] /\ b = f[x] /\ c = g[(s \ {x}) \ {u}]
      BY <1>1, <2>1
    <3> HIDE DEF h
    <3> QED
      BY <3>1, <3>3, <3>4, <3>5
  <2> QED
    BY <2>2, <2>3, <2>4
<1> HIDE DEF h
<1> QED
  BY <1>2, <1>3, <1>4 DEF SumsUp

\* Every finite set has sums.
LEMMA SumsExist ==
    ASSUME NEW U, IsFiniteSet(U), NEW f, \A x \in U : f[x] \in Nat
    PROVE  \E g : SumsUp(g, f, U)
<1> DEFINE B == {T \in SUBSET U : ~ \E g : SumsUp(g, f, T)}
<1>1. SUFFICES ASSUME B # {} PROVE FALSE
  OBVIOUS
<1>2. PICK T \in B : \A x \in T : T \ {x} \notin B
  <2>1. B \in SUBSET SUBSET U
    OBVIOUS
  <2> HIDE DEF B
  <2> QED
    BY <1>1, <2>1, MinimalSubset
<1>3. CASE T = {}
  <2>1. [s \in SUBSET {} |-> 0] \in [SUBSET {} -> Nat] /\ [s \in SUBSET {} |-> 0][{}] = 0
    OBVIOUS
  <2>2. SumsUp([s \in SUBSET {} |-> 0], f, {})
    BY <2>1 DEF SumsUp
  <2> QED
    BY <1>3, <2>2
<1>4. CASE T # {}
  <2>1. PICK u \in T : TRUE
    BY <1>4
  <2>2. PICK g : SumsUp(g, f, T \ {u})
    BY <1>2
  <2>3. \E h : SumsUp(h, f, T)
    BY <2>2, SumsExtend
  <2> QED
    BY <2>3
<1> QED
  BY <1>3, <1>4

\* The fold of the library, over a function.
Sum(f, S) == MapThenSumSet(LAMBDA o : f[o], S)

\* The element the library's fold takes next.
NextOf(s) == CHOOSE x \in s : TRUE

\* The recursion of the library's fold.
FoldsUp(h, f, S) ==
    h = [s \in SUBSET S |-> IF s = {} THEN 0 ELSE f[NextOf(s)] + h[s \ {NextOf(s)}]]

\* Sums satisfy the recursion of the library's fold, and are its only solution.
LEMMA SumsStep ==
    ASSUME NEW S, NEW f, NEW g, SumsUp(g, f, S)
    PROVE  FoldsUp(g, f, S)
<1>1. \A s \in SUBSET S : s # {} => NextOf(s) \in s
  BY DEF NextOf
<1>2. \A s \in SUBSET S :
         g[s] = IF s = {} THEN 0 ELSE f[NextOf(s)] + g[s \ {NextOf(s)}]
  BY <1>1 DEF SumsUp
<1> QED
  BY <1>2 DEF SumsUp, FoldsUp

LEMMA SumsOnly ==
    ASSUME NEW S, IsFiniteSet(S), NEW f, NEW g, SumsUp(g, f, S), NEW h, FoldsUp(h, f, S)
    PROVE  h[S] = g[S]
<1> DEFINE B == {T \in SUBSET S : h[T] # g[T]}
<1>1. SUFFICES ASSUME B # {} PROVE FALSE
  OBVIOUS
<1>2. PICK T \in B : \A x \in T : T \ {x} \notin B
  <2>1. B \in SUBSET SUBSET S
    OBVIOUS
  <2> HIDE DEF B
  <2> QED
    BY <1>1, <2>1, MinimalSubset
<1>3. T # {} => NextOf(T) \in T
  BY DEF NextOf
<1>4. T # {} => h[T \ {NextOf(T)}] = g[T \ {NextOf(T)}]
  BY <1>2, <1>3
<1>5. h[T] = IF T = {} THEN 0 ELSE f[NextOf(T)] + h[T \ {NextOf(T)}]
  BY DEF FoldsUp
<1>6. g[T] = IF T = {} THEN 0 ELSE f[NextOf(T)] + g[T \ {NextOf(T)}]
  <2>1. FoldsUp(g, f, S)
    BY SumsStep
  <2> QED
    BY <2>1 DEF FoldsUp
<1> QED
  BY <1>4, <1>5, <1>6

\* The library's fold takes the elements in an order of its own; its value is
\* the sum in any order.
LEMMA SumIs ==
    ASSUME NEW S, IsFiniteSet(S), NEW f, NEW g, SumsUp(g, f, S)
    PROVE  Sum(f, S) = g[S]
<1> DEFINE h == CHOOSE h : FoldsUp(h, f, S)
<1>1. Sum(f, S) = h[S]
  BY DEF Sum, MapThenSumSet, MapThenFoldSet, NextOf, FoldsUp
<1>2. FoldsUp(h, f, S)
  BY SumsStep
<1> HIDE DEF h
<1> QED
  BY <1>1, <1>2, SumsOnly

\* A sum of naturals is a natural.
LEMMA SumType ==
    ASSUME NEW S, IsFiniteSet(S), NEW f, \A x \in S : f[x] \in Nat
    PROVE  Sum(f, S) \in Nat
<1>1. PICK g : SumsUp(g, f, S)
  BY SumsExist
<1>2. Sum(f, S) = g[S]
  BY <1>1, SumIs
<1> QED
  BY <1>1, <1>2 DEF SumsUp

\* T has one element more than S, where f and e agree.
OneMore(T, S, x, f, e) ==
    /\ IsFiniteSet(S) /\ x \notin S /\ T = S \cup {x}
    /\ \A y \in T : f[y] \in Nat
    /\ \A y \in S : e[y] = f[y]

\* One more element adds its value.
LEMMA SumInsert ==
    ASSUME NEW T, NEW S, NEW x, NEW f, NEW e, OneMore(T, S, x, f, e)
    PROVE  Sum(f, T) = f[x] + Sum(e, S)
<1> USE DEF OneMore
<1>1. IsFiniteSet(T)
  BY FS_AddElement
<1>2. PICK g : SumsUp(g, f, T)
  BY <1>1, SumsExist
<1>3. Sum(f, T) = g[T]
  BY <1>1, <1>2, SumIs
<1>4. T \ {x} = S
  OBVIOUS
<1>5. g[T] = f[x] + g[S]
  BY <1>2, <1>4 DEF SumsUp
<1> DEFINE k == [s \in SUBSET S |-> g[s]]
<1>6. SumsUp(k, e, S)
  <2>1. /\ g \in [SUBSET T -> Nat] /\ g[{}] = 0
        /\ \A s \in SUBSET T : \A y \in s : g[s] = f[y] + g[s \ {y}]
    BY <1>2 DEF SumsUp
  <2>2. k \in [SUBSET S -> Nat] /\ k[{}] = 0
    BY <2>1
  <2>3. ASSUME NEW s \in SUBSET S, NEW y \in s PROVE k[s] = e[y] + k[s \ {y}]
    <3>1. s \in SUBSET T /\ s \ {y} \in SUBSET S
      OBVIOUS
    <3>2. k[s] = g[s] /\ k[s \ {y}] = g[s \ {y}]
      BY <3>1
    <3> QED
      BY <2>1, <3>1, <3>2
  <2> HIDE DEF k
  <2> QED
    BY <2>2, <2>3 DEF SumsUp
<1>7. Sum(e, S) = k[S]
  <2> HIDE DEF k
  <2> QED
    BY <1>6, SumIs
<1> QED
  BY <1>3, <1>5, <1>7

\* The same elements with the same values have the same sum.
LEMMA SumSame ==
    ASSUME NEW S, IsFiniteSet(S), NEW f, NEW e,
           \A y \in S : f[y] \in Nat, \A y \in S : e[y] = f[y]
    PROVE  Sum(f, S) = Sum(e, S)
<1>1. PICK g : SumsUp(g, f, S)
  BY SumsExist
<1>2. SumsUp(g, e, S)
  BY <1>1 DEF SumsUp
<1> QED
  BY <1>1, <1>2, SumIs

-----------------------------------------------------------------------------
(* Shared capacity.                                                          *)

\* The reservations a pool counts in a table of reservations, what each takes
\* of a resource, and what they take together.
Reservations == [Pools -> [OpIds -> ReservationRow]]
ActiveIn(table, p) == {o \in OpIds : table[p][o].status = "active"}
Taken(table, p, r) == [o \in OpIds |-> table[p][o].amount[r]]
TakenInAll(table, p, r) ==
    MapThenSumSet(LAMBDA o : table[p][o].amount[r],
                  {o \in OpIds : table[p][o].status = "active"})

\* SUM(...) of the code is the sum of the values over the active reservations.
LEMMA TakenInAllIs ==
    ASSUME NEW table \in Reservations, NEW p \in Pools, NEW r \in Resources,
           IsFiniteSet(ActiveIn(table, p))
    PROVE  /\ TakenInAll(table, p, r) = Sum(Taken(table, p, r), ActiveIn(table, p))
           /\ \A o \in OpIds : /\ Taken(table, p, r)[o] = table[p][o].amount[r]
                               /\ Taken(table, p, r)[o] \in Nat
           /\ TakenInAll(table, p, r) \in Nat
<1>1. \A o \in OpIds : /\ Taken(table, p, r)[o] = table[p][o].amount[r]
                       /\ Taken(table, p, r)[o] \in Nat
  BY DEF Taken, Reservations, ReservationRow
<1> DEFINE S == ActiveIn(table, p)
           f == Taken(table, p, r)
           h == CHOOSE h : h = [s \in SUBSET S |->
                   IF s = {} THEN 0
                   ELSE table[p][NextOf(s)].amount[r] + h[s \ {NextOf(s)}]]
<1>2. TakenInAll(table, p, r) = h[S]
  BY DEF TakenInAll, MapThenSumSet, MapThenFoldSet, ActiveIn, NextOf
<1>3. \A s \in SUBSET S : s # {} => NextOf(s) \in OpIds
  BY DEF ActiveIn, NextOf
<1>4. \A k : [s \in SUBSET S |-> IF s = {} THEN 0
                    ELSE table[p][NextOf(s)].amount[r] + k[s \ {NextOf(s)}]]
             = [s \in SUBSET S |-> IF s = {} THEN 0
                    ELSE f[NextOf(s)] + k[s \ {NextOf(s)}]]
  <2>1. \A s \in SUBSET S : s # {} => f[NextOf(s)] = table[p][NextOf(s)].amount[r]
    BY <1>1, <1>3
  <2> HIDE DEF f, S
  <2> QED
    BY <2>1
<1>5. PICK g : SumsUp(g, f, S)
  BY <1>1, SumsExist DEF ActiveIn
<1>6. FoldsUp(g, f, S)
  BY <1>5, SumsStep
<1> HIDE DEF f, S
<1>7. h = [s \in SUBSET S |-> IF s = {} THEN 0
             ELSE table[p][NextOf(s)].amount[r] + h[s \ {NextOf(s)}]]
  BY <1>4, <1>6 DEF FoldsUp
<1> HIDE DEF h
<1>8. h[S] = g[S]
  <2>1. FoldsUp(h, f, S)
    BY <1>4, <1>7 DEF FoldsUp
  <2>2. IsFiniteSet(S)
    BY DEF S
  <2> QED
    BY <1>5, <2>1, <2>2, SumsOnly
<1>9. Sum(f, S) = g[S]
  <2>1. IsFiniteSet(S)
    BY DEF S
  <2> QED
    BY <1>5, <2>1, SumIs
<1>10. g[S] \in Nat
  BY <1>5 DEF SumsUp
<1> QED
  BY <1>1, <1>2, <1>8, <1>9, <1>10 DEF f, S

\* A new reservation adds its amount.
LEMMA TakenAdds ==
    ASSUME NEW table \in Reservations, NEW new \in Reservations,
           NEW p \in Pools, NEW r \in Resources, NEW op \in OpIds,
           IsFiniteSet(ActiveIn(table, p)),
           table[p][op].status # "active", new[p][op].status = "active",
           \A o \in OpIds \ {op} : new[p][o] = table[p][o]
    PROVE  /\ IsFiniteSet(ActiveIn(new, p))
           /\ TakenInAll(new, p, r) = TakenInAll(table, p, r) + new[p][op].amount[r]
<1>1. PICK A, B, f, e : /\ A = ActiveIn(table, p) /\ B = ActiveIn(new, p)
                        /\ f = Taken(new, p, r) /\ e = Taken(table, p, r)
  OBVIOUS
<1>2. B = A \cup {op} /\ op \notin A /\ A \subseteq OpIds /\ IsFiniteSet(A)
  BY <1>1 DEF ActiveIn
<1>3. IsFiniteSet(B)
  BY <1>2, FS_AddElement
<1>4. /\ TakenInAll(new, p, r) = Sum(f, B)
      /\ \A o \in OpIds : f[o] = new[p][o].amount[r] /\ f[o] \in Nat
  BY <1>1, <1>3, TakenInAllIs
<1>5. /\ TakenInAll(table, p, r) = Sum(e, A) /\ TakenInAll(table, p, r) \in Nat
      /\ \A o \in OpIds : e[o] = table[p][o].amount[r]
  BY <1>1, TakenInAllIs
<1>6. OneMore(B, A, op, f, e)
  BY <1>2, <1>4, <1>5 DEF OneMore
<1>7. Sum(f, B) = f[op] + Sum(e, A)
  BY <1>6, SumInsert
<1>8. f[op] = new[p][op].amount[r] /\ f[op] \in Nat
  BY <1>4
<1> QED
  BY <1>1, <1>2, <1>3, <1>4, <1>5, <1>7, <1>8

\* A released reservation gives its amount back, once.
LEMMA TakenDrops ==
    ASSUME NEW table \in Reservations, NEW new \in Reservations,
           NEW p \in Pools, NEW r \in Resources, NEW op \in OpIds,
           IsFiniteSet(ActiveIn(table, p)),
           new[p][op].status # "active", new[p][op].amount = table[p][op].amount,
           \A o \in OpIds \ {op} : new[p][o] = table[p][o]
    PROVE  /\ IsFiniteSet(ActiveIn(new, p))
           /\ TakenInAll(new, p, r) \in Nat
           /\ TakenInAll(new, p, r) <= TakenInAll(table, p, r)
<1>1. PICK A, B, f, e : /\ A = ActiveIn(table, p) /\ B = ActiveIn(new, p)
                        /\ f = Taken(new, p, r) /\ e = Taken(table, p, r)
  OBVIOUS
<1>2. B = A \ {op} /\ A \subseteq OpIds /\ IsFiniteSet(A)
  BY <1>1 DEF ActiveIn
<1>3. IsFiniteSet(B)
  BY <1>2, FS_Subset
<1>4. /\ TakenInAll(new, p, r) = Sum(f, B) /\ TakenInAll(new, p, r) \in Nat
      /\ \A o \in OpIds : f[o] = new[p][o].amount[r]
  BY <1>1, <1>3, TakenInAllIs
<1>5. /\ TakenInAll(table, p, r) = Sum(e, A) /\ TakenInAll(table, p, r) \in Nat
      /\ \A o \in OpIds : e[o] = table[p][o].amount[r] /\ e[o] \in Nat
  BY <1>1, TakenInAllIs
<1>6. \A o \in OpIds : f[o] = e[o]
  BY <1>4, <1>5
<1>7. CASE op \in A
  <2>1. A = B \cup {op} /\ op \notin B
    BY <1>2, <1>7
  <2>2. OneMore(A, B, op, e, f)
    BY <1>2, <1>3, <1>5, <1>6, <2>1 DEF OneMore
  <2>3. Sum(e, A) = e[op] + Sum(f, B)
    BY <2>2, SumInsert
  <2>4. TakenInAll(table, p, r) = e[op] + TakenInAll(new, p, r) /\ e[op] \in Nat
    BY <1>4, <1>5, <2>1, <2>3
  <2> QED
    BY <1>1, <1>3, <1>4, <1>5, <2>4
<1>8. CASE op \notin A
  <2>1. A = B
    BY <1>2, <1>8
  <2>2. (\A y \in A : e[y] \in Nat) /\ (\A y \in A : f[y] = e[y])
    BY <1>2, <1>5, <1>6
  <2>3. Sum(e, A) = Sum(f, A)
    BY <1>2, <2>2, SumSame
  <2>4. TakenInAll(table, p, r) = TakenInAll(new, p, r)
    BY <1>4, <1>5, <2>1, <2>3
  <2> QED
    BY <1>1, <1>3, <1>4, <1>5, <2>4
<1> QED
  BY <1>7, <1>8

\* What a pool counts depends on its own rows alone.
LEMMA TakenElsewhere ==
    ASSUME NEW table, NEW new, NEW p, NEW r, new[p] = table[p]
    PROVE  /\ ActiveIn(new, p) = ActiveIn(table, p)
           /\ TakenInAll(new, p, r) = TakenInAll(table, p, r)
  BY DEF ActiveIn, TakenInAll

\* The inductive invariant of the pools: a pool has only finitely many active
\* reservations, since each was made by one step, and never more than fit.
PoolFits(p) ==
    /\ IsFiniteSet(ActiveIn(reservations, p))
    /\ \A r \in Resources :
          TakenInAll(reservations, p, r) > 0 =>
             pools[p] # <<>> /\ TakenInAll(reservations, p, r) <= pools[p][r]
PoolInv == \A p \in Pools : PoolFits(p)

\* reserved() is this sum, before and after a step.
LEMMA ReservedIs ==
    ASSUME NEW p \in Pools, NEW r \in Resources
    PROVE  /\ Reserved(p, r) = TakenInAll(reservations, p, r)
           /\ Reserved(p, r)' = TakenInAll(reservations', p, r)
  BY DEF Reserved, TakenInAll, MapThenSumSet, MapThenFoldSet

\* A step that leaves a pool's limit and reservations alone.
LEMMA PoolStutter ==
    ASSUME NEW p \in Pools, PoolFits(p),
           pools'[p] = pools[p], reservations'[p] = reservations[p]
    PROVE  PoolFits(p)'
  BY TakenElsewhere DEF PoolFits

\* set_reservation_pool refuses a limit below what is reserved.
LEMMA SetReservationPoolFits ==
    ASSUME TypeOK, PoolInv, NEW i \in Installations, NEW p \in Pools, NEW limit \in Limits,
           SetReservationPool(i, p, limit)
    PROVE  PoolInv'
<1>1. /\ reservations' = reservations /\ pools'[p] = limit
      /\ \A q \in Pools \ {p} : pools'[q] = pools[q]
  BY DEF SetReservationPool, TypeOK
<1>2. \A r \in Resources : TakenInAll(reservations, p, r) <= limit[r]
  BY ReservedIs DEF SetReservationPool
<1>3. limit # <<>>
  <2>1. DOMAIN limit = Resources /\ "units" \in Resources
    BY CoordinationAssumption DEF Resources
  <2> QED
    BY <2>1
<1>4. PoolFits(p)'
  BY <1>1, <1>2, <1>3 DEF PoolInv, PoolFits
<1>5. \A q \in Pools \ {p} : PoolFits(q)'
  BY <1>1, PoolStutter DEF PoolInv
<1> QED
  BY <1>4, <1>5 DEF PoolInv

\* _reserve adds a reservation only where it fits.
LEMMA ReserveInFits ==
    ASSUME TypeOK, PoolInv, NEW i \in Installations, NEW p \in Pools, NEW op \in OpIds,
           NEW amount \in Amounts, ReserveIn(p, i, amount, op)
    PROVE  PoolInv'
<1>1. PICK row : row = [inst |-> i, amount |-> amount, status |-> "active"]
  OBVIOUS
<1>2. /\ row \in ReservationRow /\ row.status = "active" /\ row.amount = amount
  BY <1>1, CoordinationAssumption DEF ReservationRow
<1>3. /\ reservations \in Reservations /\ pools' = pools
      /\ reservations' = [reservations EXCEPT ![p][op] = row]
      /\ reservations[p][op].status # "active" /\ pools[p] # <<>>
      /\ \A r \in Resources : Reserved(p, r) + amount[r] <= pools[p][r]
  BY <1>1 DEF ReserveIn, TypeOK, Reservations, Fits
<1>4. /\ reservations' \in Reservations /\ reservations'[p][op] = row
      /\ \A o \in OpIds \ {op} : reservations'[p][o] = reservations[p][o]
      /\ \A q \in Pools \ {p} : reservations'[q] = reservations[q]
  BY <1>2, <1>3 DEF Reservations
<1>5. ASSUME NEW r \in Resources
      PROVE  /\ IsFiniteSet(ActiveIn(reservations', p))
             /\ TakenInAll(reservations', p, r) <= pools'[p][r]
  <2>1. IsFiniteSet(ActiveIn(reservations, p))
    BY DEF PoolInv, PoolFits
  <2>2. PICK new \in Reservations : new = reservations'
    BY <1>4
  <2>3. new[p][op].status = "active" /\ new[p][op].amount = amount
    BY <1>4, <1>2, <2>2
  <2>4. \A o \in OpIds \ {op} : new[p][o] = reservations[p][o]
    BY <1>4, <2>2
  <2>5. /\ IsFiniteSet(ActiveIn(new, p))
        /\ TakenInAll(new, p, r) = TakenInAll(reservations, p, r) + new[p][op].amount[r]
    BY <1>3, <2>1, <2>3, <2>4, TakenAdds
  <2> QED
    BY <1>3, <2>2, <2>3, <2>5, ReservedIs
<1>6. PoolFits(p)'
  <2>1. "units" \in Resources
    BY DEF Resources
  <2> QED
    BY <1>3, <1>5, <2>1 DEF PoolFits
<1>7. \A q \in Pools \ {p} : PoolFits(q)'
  BY <1>4, <1>3, PoolStutter DEF PoolInv
<1> QED
  BY <1>6, <1>7 DEF PoolInv

\* release_reservation only gives back.
LEMMA ReleaseReservationFits ==
    ASSUME TypeOK, PoolInv, NEW i \in Installations, NEW p \in Pools, NEW op \in OpIds,
           ReleaseReservation(i, p, op)
    PROVE  PoolInv'
<1>1. /\ reservations \in Reservations /\ pools' = pools
      /\ reservations' = [reservations EXCEPT ![p][op].status = "released"]
  BY DEF ReleaseReservation, TypeOK, Reservations
<1>2. PICK row : row = [reservations[p][op] EXCEPT !.status = "released"]
  OBVIOUS
<1>3. /\ row \in ReservationRow /\ row.status = "released"
      /\ row.amount = reservations[p][op].amount
  <2>1. reservations[p][op] \in ReservationRow
    BY <1>1 DEF Reservations
  <2> QED
    BY <1>2, <2>1 DEF ReservationRow
<1>4. /\ reservations' \in Reservations /\ reservations'[p][op] = row
      /\ \A o \in OpIds \ {op} : reservations'[p][o] = reservations[p][o]
      /\ \A q \in Pools \ {p} : reservations'[q] = reservations[q]
  <2>1. reservations' = [reservations EXCEPT ![p][op] = row]
    BY <1>1, <1>2 DEF Reservations
  <2> QED
    BY <1>1, <1>3, <2>1 DEF Reservations
<1>5. ASSUME NEW r \in Resources
      PROVE  /\ IsFiniteSet(ActiveIn(reservations', p))
             /\ TakenInAll(reservations', p, r) > 0 =>
                  pools'[p] # <<>> /\ TakenInAll(reservations', p, r) <= pools'[p][r]
  <2>1. IsFiniteSet(ActiveIn(reservations, p))
    BY DEF PoolInv, PoolFits
  <2>2. /\ IsFiniteSet(ActiveIn(reservations', p))
        /\ TakenInAll(reservations', p, r) \in Nat
        /\ TakenInAll(reservations', p, r) <= TakenInAll(reservations, p, r)
    BY <1>1, <1>4, <1>3, <2>1, TakenDrops
  <2>3. TakenInAll(reservations, p, r) \in Nat
    BY <1>1, <2>1, TakenInAllIs
  <2>4. pools[p] # <<>> => pools[p][r] \in Nat
    BY DEF TypeOK
  <2>5. TakenInAll(reservations, p, r) > 0 =>
          pools[p] # <<>> /\ TakenInAll(reservations, p, r) <= pools[p][r]
    BY DEF PoolInv, PoolFits
  <2> QED
    BY <1>1, <2>2, <2>3, <2>4, <2>5
<1>6. PoolFits(p)'
  <2>1. "units" \in Resources
    BY DEF Resources
  <2> QED
    BY <1>5, <2>1 DEF PoolFits
<1>7. \A q \in Pools \ {p} : PoolFits(q)'
  BY <1>1, <1>4, PoolStutter DEF PoolInv
<1> QED
  BY <1>6, <1>7 DEF PoolInv

\* The pools start empty.
LEMMA PoolInit ==
    Init => PoolInv
<1> SUFFICES ASSUME Init, NEW p \in Pools PROVE PoolFits(p)
  BY DEF PoolInv
<1>1. ActiveIn(reservations, p) = {}
  BY DEF Init, ActiveIn, NoReservation
<1>2. reservations \in Reservations
  BY EmptyRows DEF Init, Reservations
<1>3. IsFiniteSet(ActiveIn(reservations, p))
  BY <1>1, FS_EmptySet
<1>4. ASSUME NEW r \in Resources PROVE TakenInAll(reservations, p, r) = 0
  <2>1. TakenInAll(reservations, p, r) = Sum(Taken(reservations, p, r), {})
    BY <1>1, <1>2, <1>3, TakenInAllIs
  <2>2. PICK g : SumsUp(g, Taken(reservations, p, r), {})
    BY FS_EmptySet, SumsExist
  <2>3. Sum(Taken(reservations, p, r), {}) = g[{}]
    BY <2>2, FS_EmptySet, SumIs
  <2> QED
    BY <2>1, <2>2, <2>3 DEF SumsUp
<1> QED
  BY <1>3, <1>4 DEF PoolFits

\* Every step keeps every pool within its limits.
LEMMA PoolStep ==
    ASSUME TypeOK, PoolInv, [Next]_vars PROVE PoolInv'
<1>1. ASSUME UNCHANGED <<pools, reservations>> PROVE PoolInv'
  BY <1>1, PoolStutter DEF PoolInv
<1>2. CASE UNCHANGED vars
  BY <1>1, <1>2 DEF vars
<1>3. ASSUME NEW i \in Installations, NEW k \in Keys, NEW op \in OpIds,
             \/ \E owner \in Owners, gen \in Generations, basis \in SeenVersions(k) :
                   SetAuthority(i, k, owner, gen, basis, op)
             \/ \E basis \in SeenVersions(k), gen \in Generations,
                   lease \in LeaseTimes, t \in 0..now :
                   ClaimScope(i, k, basis, gen, lease, t, op)
             \/ \E c \in Issued(k), basis \in SeenVersions(k),
                   ev \in EvidenceIds \cup {NoOne} : Transition(i, k, c, basis, op, ev)
             \/ \E c \in Issued(k), e \in EffectKeys : BeginEffect(i, k, c, e, op)
      PROVE  PoolInv'
  BY <1>1, <1>3 DEF SetAuthority, ClaimScope, Transition, BeginEffect
<1>4. ASSUME NEW i \in Installations,
             \/ \E op \in OpIds, S \in SUBSET Keys : \E rows \in [S -> Owners] :
                   InitializeAuthority(i, rows, op)
             \/ \E x \in cancellations : AcknowledgeCancellation(i, x)
             \/ \E o \in OpIds, f \in OutboxKinds :
                   \/ \E success \in BOOLEAN : FinishOutbox(i, o, f, success)
                   \/ SupersedeOutbox(i, o, f)
             \/ \E e \in EffectKeys, outcome \in {"succeeded", "failed", "unknown"} :
                   FinishEffect(i, e, outcome)
             \/ \E ev \in EvidenceIds : RetainStaleEvidence(i, ev)
      PROVE  PoolInv'
  BY <1>1, <1>4 DEF InitializeAuthority, AcknowledgeCancellation, FinishOutbox,
     SupersedeOutbox, FinishEffect, RetainStaleEvidence
<1>5. CASE Tick
  BY <1>1, <1>5 DEF Tick
<1> QED
  BY <1>2, <1>3, <1>4, <1>5, SetReservationPoolFits, ReserveInFits, ReleaseReservationFits
     DEF Next, Reserve, ReservePhase

\* A pool is never overcommitted, for any number of pools, operations and
\* amounts (_reserve, set_reservation_pool, release_reservation).
THEOREM PoolNeverOvercommitted == Spec => []WithinLimits
<1>1. PoolInv => WithinLimits
  BY ReservedIs DEF PoolInv, PoolFits, WithinLimits
<1> QED
  BY <1>1, PoolInit, PoolStep, TypeCorrect, PTL DEF Spec

-----------------------------------------------------------------------------
(* Projections.                                                              *)

\* No outbox row is of a version its scope has not reached.
OutboxBehind ==
    \A o \in OpIds, f \in OutboxKinds :
      outbox[o][f].key \in Keys => outbox[o][f].version <= auth[outbox[o][f].key].version

\* A step that adds no row and takes no version back.
LEMMA OutboxBehindKept ==
    ASSUME TypeOK, TypeOK', OutboxBehind,
           \A o \in OpIds, f \in OutboxKinds :
              /\ outbox'[o][f].key = outbox[o][f].key
              /\ outbox'[o][f].version = outbox[o][f].version,
           \A k \in Keys : auth[k].version <= auth'[k].version
    PROVE  OutboxBehind'
<1> SUFFICES ASSUME NEW o \in OpIds, NEW f \in OutboxKinds, outbox[o][f].key \in Keys
             PROVE  outbox[o][f].version <= auth'[outbox[o][f].key].version
  BY DEF OutboxBehind
<1>1. PICK k \in Keys, v \in Nat, a \in Nat, b \in Nat :
        /\ k = outbox[o][f].key /\ v = outbox[o][f].version
        /\ a = auth[k].version /\ b = auth'[k].version
  BY DEF TypeOK, AuthorityRow, OutboxRow
<1>2. v <= a /\ a <= b
  BY <1>1 DEF OutboxBehind
<1> QED
  BY <1>1, <1>2

\* Every step keeps the outbox behind its scopes.
LEMMA OutboxStep ==
    ASSUME TypeOK, TypeOK', OutboxBehind, [Next]_vars PROVE OutboxBehind'
<1>0. \A k \in Keys : auth[k].version \in Nat /\ auth'[k].version \in Nat
  BY DEF TypeOK, AuthorityRow
<1>1. ASSUME UNCHANGED <<auth, outbox>> PROVE OutboxBehind'
  BY <1>0, <1>1, OutboxBehindKept
<1>2. CASE UNCHANGED vars
  BY <1>1, <1>2 DEF vars
<1>3. ASSUME NEW i \in Installations, NEW k \in Keys, NEW op \in OpIds, NEW owner \in Owners,
             NEW gen \in Generations, NEW basis \in SeenVersions(k),
             SetAuthority(i, k, owner, gen, basis, op)
      PROVE  OutboxBehind'
  <2>1. /\ outbox' = outbox /\ auth'[k].version = auth[k].version + 1
        /\ \A j \in Keys \ {k} : auth'[j] = auth[j]
    BY <1>3 DEF SetAuthority, Reassigned, TypeOK, AuthorityRow
  <2> QED
    BY <1>0, <2>1, OutboxBehindKept
<1>4. ASSUME NEW i \in Installations, NEW k \in Keys, NEW op \in OpIds,
             NEW basis \in SeenVersions(k), NEW gen \in Generations,
             NEW lease \in LeaseTimes, NEW t \in 0..now,
             ClaimScope(i, k, basis, gen, lease, t, op)
      PROVE  OutboxBehind'
  <2>1. /\ outbox' = outbox
        /\ \A j \in Keys : auth'[j].version = auth[j].version
    BY <1>4 DEF ClaimScope, TypeOK, AuthorityRow
  <2> QED
    BY <1>0, <2>1, OutboxBehindKept
<1>5. ASSUME NEW i \in Installations, NEW k \in Keys, NEW op \in OpIds,
             NEW c \in Issued(k), NEW basis \in SeenVersions(k),
             NEW ev \in EvidenceIds \cup {NoOne}, Transition(i, k, c, basis, op, ev)
      PROVE  OutboxBehind'
  <2>1. /\ basis = auth[k].version /\ auth'[k].version = auth[k].version + 1
        /\ \A j \in Keys \ {k} : auth'[j] = auth[j]
    BY <1>5 DEF Transition, Current, TypeOK, AuthorityRow
  <2>2. /\ \A f \in OutboxKinds : outbox'[op][f].key = k /\ outbox'[op][f].version = basis + 1
        /\ \A o \in OpIds \ {op} : outbox'[o] = outbox[o]
    BY <1>5 DEF Transition, TypeOK
  <2>3. ASSUME NEW o \in OpIds \ {op}, NEW f \in OutboxKinds, outbox[o][f].key \in Keys
        PROVE  outbox[o][f].version <= auth'[outbox[o][f].key].version
    <3>0. outbox[o][f].version \in Nat
      BY DEF TypeOK, OutboxRow
    <3>1. PICK j \in Keys, v \in Nat, a \in Nat, b \in Nat :
            /\ j = outbox[o][f].key /\ v = outbox[o][f].version
            /\ a = auth[j].version /\ b = auth'[j].version
      BY <1>0, <2>3, <3>0
    <3>2. v <= a /\ a <= b
      BY <2>1, <3>1 DEF OutboxBehind
    <3> QED
      BY <3>1, <3>2
  <2> QED
    BY <1>0, <2>1, <2>2, <2>3 DEF OutboxBehind
<1>6. ASSUME NEW i \in Installations, NEW op \in OpIds, NEW S \in SUBSET Keys,
             NEW rows \in [S -> Owners], InitializeAuthority(i, rows, op)
      PROVE  OutboxBehind'
  <2>1. outbox' = outbox /\ \A k \in Keys : auth'[k].version \in {auth[k].version, 1}
                            /\ (auth'[k] # auth[k] => auth[k].version = 0)
    BY <1>6 DEF InitializeAuthority, Established
  <2>2. \A k \in Keys : auth[k].version <= auth'[k].version
    BY <1>0, <2>1
  <2> QED
    BY <2>1, <2>2, OutboxBehindKept
<1>7. ASSUME NEW i \in Installations, NEW o \in OpIds, NEW f \in OutboxKinds,
             \/ \E success \in BOOLEAN : FinishOutbox(i, o, f, success)
             \/ SupersedeOutbox(i, o, f)
      PROVE  OutboxBehind'
  <2>1. PICK s : /\ outbox' = [outbox EXCEPT ![o][f].status = s]
                 /\ auth' = auth
    BY <1>7 DEF FinishOutbox, SupersedeOutbox
  <2>2. \A p \in OpIds, g \in OutboxKinds : /\ outbox'[p][g].key = outbox[p][g].key
                                            /\ outbox'[p][g].version = outbox[p][g].version
    BY <2>1 DEF TypeOK, OutboxRow
  <2> QED
    BY <1>0, <2>1, <2>2, OutboxBehindKept
<1>8. ASSUME NEW i \in Installations,
             \/ \E k \in Keys, op \in OpIds : \E c \in Issued(k), e \in EffectKeys :
                   BeginEffect(i, k, c, e, op)
             \/ \E x \in cancellations : AcknowledgeCancellation(i, x)
             \/ \E e \in EffectKeys, outcome \in {"succeeded", "failed", "unknown"} :
                   FinishEffect(i, e, outcome)
             \/ \E ev \in EvidenceIds : RetainStaleEvidence(i, ev)
             \/ \E p \in Pools :
                   \/ \E limit \in Limits : SetReservationPool(i, p, limit)
                   \/ \E op \in OpIds, amount \in Amounts : ReserveIn(p, i, amount, op)
                   \/ \E op \in OpIds : ReleaseReservation(i, p, op)
      PROVE  OutboxBehind'
  BY <1>1, <1>8 DEF BeginEffect, AcknowledgeCancellation, FinishEffect, RetainStaleEvidence,
     SetReservationPool, ReserveIn, ReleaseReservation, tables
<1>9. CASE Tick
  BY <1>1, <1>9 DEF Tick, tables
<1> QED
  BY <1>2, <1>3, <1>4, <1>5, <1>6, <1>7, <1>8, <1>9 DEF Next, Reserve, ReservePhase

\* The rows a step may newly record as done are those finish_outbox was asked for.
LEMMA DoneByFinish ==
    ASSUME TypeOK, [Next]_vars, NEW o \in OpIds, NEW g \in OutboxKinds,
           outbox[o][g].status # "done", outbox'[o][g].status = "done"
    PROVE  NotStale(o, g)
<1>1. outbox' # outbox
  OBVIOUS
<1>2. ASSUME NEW i \in Installations, NEW k \in Keys, NEW op \in OpIds,
             NEW c \in Issued(k), NEW basis \in SeenVersions(k),
             NEW ev \in EvidenceIds \cup {NoOne}, Transition(i, k, c, basis, op, ev)
      PROVE  FALSE
  BY <1>2 DEF Transition, TypeOK
<1>3. ASSUME NEW i \in Installations, NEW p \in OpIds, NEW f \in OutboxKinds,
             SupersedeOutbox(i, p, f)
      PROVE  FALSE
  BY <1>3 DEF SupersedeOutbox, TypeOK, OutboxRow
<1>4. ASSUME NEW i \in Installations, NEW p \in OpIds, NEW f \in OutboxKinds,
             NEW success \in BOOLEAN, FinishOutbox(i, p, f, success)
      PROVE  NotStale(o, g)
  <2>1. p = o /\ f = g
    BY <1>4 DEF FinishOutbox, TypeOK, OutboxRow
  <2> QED
    BY <1>4, <2>1 DEF FinishOutbox
<1>5. ~ UNCHANGED vars /\ ~ Tick
  BY <1>1 DEF vars, Tick, tables
<1>6. ASSUME NEW i \in Installations, NEW k \in Keys, NEW op \in OpIds,
             \/ \E owner \in Owners, gen \in Generations, basis \in SeenVersions(k) :
                   SetAuthority(i, k, owner, gen, basis, op)
             \/ \E basis \in SeenVersions(k), gen \in Generations,
                   lease \in LeaseTimes, t \in 0..now :
                   ClaimScope(i, k, basis, gen, lease, t, op)
             \/ \E c \in Issued(k), e \in EffectKeys : BeginEffect(i, k, c, e, op)
      PROVE  FALSE
  <2>1. outbox' = outbox
    BY <1>6 DEF SetAuthority, ClaimScope, BeginEffect
  <2> QED
    BY <1>1, <2>1
<1>7. ASSUME NEW i \in Installations, NEW op \in OpIds,
             \/ \E S \in SUBSET Keys : \E rows \in [S -> Owners] :
                   InitializeAuthority(i, rows, op)
             \/ \E p \in Pools :
                   \/ \E amount \in Amounts : ReserveIn(p, i, amount, op)
                   \/ ReleaseReservation(i, p, op)
      PROVE  FALSE
  <2>1. outbox' = outbox
    BY <1>7 DEF InitializeAuthority, ReserveIn, ReleaseReservation, tables
  <2> QED
    BY <1>1, <2>1
<1>8. ASSUME NEW i \in Installations,
             \/ \E x \in cancellations : AcknowledgeCancellation(i, x)
             \/ \E e \in EffectKeys, outcome \in {"succeeded", "failed", "unknown"} :
                   FinishEffect(i, e, outcome)
             \/ \E ev \in EvidenceIds : RetainStaleEvidence(i, ev)
             \/ \E p \in Pools, limit \in Limits : SetReservationPool(i, p, limit)
      PROVE  FALSE
  <2>1. outbox' = outbox
    BY <1>8 DEF AcknowledgeCancellation, FinishEffect, RetainStaleEvidence,
       SetReservationPool, tables
  <2> QED
    BY <1>1, <2>1
<1> QED
  BY <1>2, <1>3, <1>4, <1>5, <1>6, <1>7, <1>8 DEF Next, Reserve, ReservePhase

\* A task's Markdown is projected in version order, for any number of tasks,
\* operations and late acknowledgements (finish_outbox).
THEOREM ProjectedInOrder == Spec => ProjectionsInOrder
<1>1. Init => OutboxBehind
  BY CoordinationAssumption DEF Init, OutboxBehind, NoOutbox
<1>2. ASSUME TypeOK, TypeOK', OutboxBehind, [Next]_vars
      PROVE  [\A o1, o2 \in OpIds :
               /\ outbox[o1]["git_projection"].status # "done"
               /\ outbox'[o1]["git_projection"].status = "done"
               /\ outbox[o1]["git_projection"].key \in Tasks
               /\ outbox[o2]["git_projection"].key = outbox[o1]["git_projection"].key
               => outbox[o2]["git_projection"].version
                    <= outbox[o1]["git_projection"].version]_vars
  <2> SUFFICES ASSUME NEW o1 \in OpIds, NEW o2 \in OpIds,
                      outbox[o1]["git_projection"].status # "done",
                      outbox'[o1]["git_projection"].status = "done",
                      outbox[o1]["git_projection"].key \in Tasks,
                      outbox[o2]["git_projection"].key = outbox[o1]["git_projection"].key
               PROVE  outbox[o2]["git_projection"].version
                        <= outbox[o1]["git_projection"].version
    OBVIOUS
  <2>1. "git_projection" \in OutboxKinds
    BY DEF OutboxKinds
  <2>2. NotStale(o1, "git_projection")
    BY <1>2, <2>1, DoneByFinish
  <2>3. auth[outbox[o1]["git_projection"].key].version = outbox[o1]["git_projection"].version
    BY <2>2 DEF NotStale
  <2>4. outbox[o2]["git_projection"].version <= auth[outbox[o2]["git_projection"].key].version
    BY <1>2, <2>1 DEF OutboxBehind, Keys
  <2> QED
    BY <2>3, <2>4
<1> QED
  BY <1>1, <1>2, OutboxStep, TypeCorrect, PTL DEF Spec, ProjectionsInOrder
===============================================================================
