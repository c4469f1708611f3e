------------------------- MODULE GitAuthorityProofs -------------------------
(***************************************************************************)
(* For any members, installations and effect keys and any number of        *)
(* generations, administrative changes and kills: authority over an entity *)
(* does not move from under work that is still running.  The executor is   *)
(* an installation's pass alone (Beside = FALSE).                          *)
(***************************************************************************)
EXTENDS GitAuthority, TLAPS

\* A claim is of the generation in force, for the owner, by an installation
\* that may act.
ClaimInForce ==
    claim # NoClaim =>
        /\ claim.inst \in Installations
        /\ claim.gen = ent.gen /\ ent.owner = Of[claim.inst]
        /\ Enrolled(claim.inst)

\* A change that found nothing of its own to fence is not about the claim.
ChangesApart ==
    \A c \in changes : ~c.mine /\ claim # NoClaim =>
        IF c.kind = "member" THEN c.member # Of[claim.inst] ELSE c.inst # claim.inst

\* A body runs under an effect of its own that nobody has settled.
RunsOpenEffect ==
    \A i \in Installations : doing[i].stage = "run" =>
        \E e \in effects : e.id = EffectId(i) /\ e.inst = i /\ e.gen = doing[i].gen /\ e.outcome \in Open

\* Worker processes live where the claim is, for the generation in force.
WorkersClaimed ==
    \A i \in Installations : works[i] # {} => claim.inst = i /\ works[i] \subseteq {ent.gen}

\* A pending handoff is of the claim and the generation in force, and drains.
Draining ==
    handoff # NoHandoff =>
        /\ ent.drain /\ handoff.inst = claim.inst
        /\ handoff.gen = ent.gen /\ ent.gen < MaxGen

\* Who acknowledged, or was vouched for, has stopped and starts nothing.
StoppedIdle ==
    handoff # NoHandoff /\ Stopped =>
        \A i \in Installations : works[i] = {} /\ doing[i].stage # "run"

\* Between the kill of its workers and the acknowledgement an installation
\* begins nothing.
StopsIdle ==
    \A i \in Installations : acking[i].stage = "stop" => works[i] = {} /\ doing[i] = Idle

\* Whatever was admitted or executed has its id in the log, and only once.
Recorded ==
    /\ \A e \in effects : Used(e.id)
    /\ \A e, f \in effects : e.id = f.id => e = f
    /\ \A x \in ran : Used(x)

Fencing ==
    /\ UnresolvedPins /\ ClaimInForce /\ ChangesApart /\ RunsOpenEffect
    /\ WorkersClaimed /\ Draining /\ StoppedIdle /\ StopsIdle /\ Recorded

IInv == TypeOK /\ Fencing

-----------------------------------------------------------------------------
(* Types.                                                                  *)

\* A field of a record may be replaced, and the others stay.
LEMMA RecordUpdates ==
  /\ \A d \in Doings : LET n == [d EXCEPT !.stage = "run"] IN
       n \in Doings /\ n.stage = "run" /\ n.key = d.key /\ n.gen = d.gen /\ n.ver = d.ver
  /\ \A e \in Effects, o \in Open \cup {"settled"} : LET n == [e EXCEPT !.outcome = o] IN
       n \in Effects /\ n.outcome = o /\ n.id = e.id /\ n.inst = e.inst /\ n.gen = e.gen /\ n.ver = e.ver
  /\ \A h \in Handoffs : LET n == [h EXCEPT !.ack = TRUE] IN
       n \in Handoffs /\ n.ack /\ n.inst = h.inst /\ n.gen = h.gen
  /\ \A h \in Handoffs : LET n == [h EXCEPT !.fence = TRUE] IN
       n \in Handoffs /\ n.fence /\ n.inst = h.inst /\ n.gen = h.gen
<1>1. \A d \in Doings : LET n == [d EXCEPT !.stage = "run"] IN
        n \in Doings /\ n.stage = "run" /\ n.key = d.key /\ n.gen = d.gen /\ n.ver = d.ver
  BY DEF Doings
<1>2. \A e \in Effects, o \in Open \cup {"settled"} : LET n == [e EXCEPT !.outcome = o] IN
        n \in Effects /\ n.outcome = o /\ n.id = e.id /\ n.inst = e.inst /\ n.gen = e.gen /\ n.ver = e.ver
  BY DEF Effects
<1>3. \A h \in Handoffs : LET n == [h EXCEPT !.ack = TRUE] IN
       n \in Handoffs /\ n.ack /\ n.inst = h.inst /\ n.gen = h.gen
  BY DEF Handoffs
<1>4. \A h \in Handoffs : LET n == [h EXCEPT !.fence = TRUE] IN
       n \in Handoffs /\ n.fence /\ n.inst = h.inst /\ n.gen = h.gen
  BY DEF Handoffs
<1> QED
  BY <1>1, <1>2, <1>3, <1>4

\* The entity while a handoff is staged.
LEMMA DrainingEntity ==
  ASSUME NEW e \in Entities, NEW v \in Nat
  PROVE  LET n == [e EXCEPT !.drain = TRUE, !.ver = v] IN
           n \in Entities /\ n.drain /\ n.owner = e.owner /\ n.gen = e.gen
  BY DEF Entities

\* Staging a handoff: owner and generation stay, and the claim is what it names.
LEMMA Staged ==
  ASSUME TypeOK, NEW to \in Members \cup {NoOne}, NEW ready \in BOOLEAN, Stage(to, ready)
  PROVE  /\ ent' \in Entities /\ handoff' \in Handoffs
         /\ ent'.drain /\ ent'.owner = ent.owner /\ ent'.gen = ent.gen
         /\ handoff'.gen = ent.gen /\ handoff'.inst = claim.inst
         /\ handoff'.ack = ready /\ handoff'.fence = FALSE
<1>1. ent \in Entities /\ ent.gen \in Gens /\ ent.ver + 1 \in Nat
  BY DEF TypeOK, Entities
<1>2. ent' \in Entities /\ ent'.drain /\ ent'.owner = ent.owner /\ ent'.gen = ent.gen
  BY <1>1, DrainingEntity DEF Stage
<1> QED
  BY <1>1, <1>2 DEF TypeOK, Stage, Entities, Handoffs, Claims, Gens

\* Completing it: the next generation, for the new owner.
LEMMA Completed ==
  ASSUME TypeOK, Draining, handoff # NoHandoff, NEW to \in Members \cup {NoOne}
  PROVE  Handed(to) \in Entities /\ Handed(to).owner = to /\ Handed(to).gen = ent.gen + 1
<1>1. ent \in Entities /\ ent.ver + 1 \in Nat
  BY DEF TypeOK, Entities
<1>2. ent.gen + 1 \in Gens /\ handoff.gen = ent.gen
  BY GitAuthorityAssumption DEF TypeOK, Draining, Entities, Gens
<1>3. PICK g \in Gens, v \in Nat : g = handoff.gen + 1 /\ v = ent.ver + 1
  BY <1>1, <1>2
<1>4. Handed(to) = [ent EXCEPT !.owner = to, !.gen = g, !.drain = FALSE, !.ver = v]
  BY <1>3 DEF Handed
<1> QED
  BY <1>1, <1>2, <1>3, <1>4 DEF Entities

\* Inheriting without a claim: the next generation at once.
LEMMA Inherited ==
  ASSUME TypeOK, NEW i \in Installations, NEW to \in Members \cup {NoOne},
         InheritOwner(i, to), claim = NoClaim
  PROVE  ent' \in Entities /\ ent'.owner = to /\ ent'.gen = ent.gen + 1
<1>1. ent \in Entities /\ ent.ver + 2 \in Nat
  BY DEF TypeOK, Entities
<1>2. ent.gen + 1 \in Gens
  BY GitAuthorityAssumption DEF InheritOwner, TypeOK, Entities, Gens
<1>3. PICK g \in Gens, v \in Nat : g = ent.gen + 1 /\ v = ent.ver + 2
  BY <1>1, <1>2
<1>4. ent' = [ent EXCEPT !.owner = to, !.gen = g, !.ver = v]
  BY <1>3 DEF InheritOwner
<1> QED
  BY <1>1, <1>3, <1>4 DEF Entities

LEMMA NullTypes ==
  /\ NoHandoff \in Handoffs
  /\ NoClaim \in Claims
  BY GitAuthorityAssumption DEF NoHandoff, NoClaim, Handoffs, Claims

\* Recording an outcome keeps the effects well-typed (finish, reconcile).
LEMMA SettledTypes ==
  ASSUME TypeOK, NEW id, NEW outcome \in Open \cup {"settled"}
  PROVE  Settled(id, outcome) \subseteq Effects
<1>1. effects \subseteq Effects
  BY DEF TypeOK
<1> QED
  BY <1>1, RecordUpdates DEF Settled

\* An installation goes on with a handoff or is through with it.
LEMMA AckingTypes ==
  ASSUME TypeOK, NEW i \in Installations
  PROVE  /\ [acking EXCEPT ![i] = Quiet] \in [Installations -> Ackings]
         /\ [acking EXCEPT ![i] = [stage |-> "complete", id |-> acking[i].id]]
              \in [Installations -> Ackings]
  BY DEF TypeOK, Quiet, Ackings

\* One administrative change less.
LEMMA Spent ==
  ASSUME TypeOK, Spend
  PROVE  left' \in [changes : Nat, crashes : Nat]
  BY DEF TypeOK, Spend

\* The steps of an effect keep the types.
LEMMA EffectTypes ==
  ASSUME TypeOK, NEW i \in Installations, Effect(i) \/ WorkerEnds(i)
  PROVE  TypeOK'
<1>1. ASSUME NEW k \in Keys, Claim(i, k) PROVE TypeOK'
  BY <1>1 DEF TypeOK, Claim, Entities, Claims, Doings, Gens
<1>2. CASE Admit(i)
  <2>1. doing' \in [Installations -> Doings]
    BY <1>2, RecordUpdates DEF TypeOK, Admit
  <2>2. effects' \subseteq Effects
    BY <1>2 DEF TypeOK, Admit, EffectId, EffectIds, Open, Effects, Doings
  <2> QED
    BY <1>2, <2>1, <2>2 DEF TypeOK, Admit
<1>3. CASE Refuse(i)
  BY <1>3, GitAuthorityAssumption DEF TypeOK, Refuse, Idle, Doings, shared
<1>4. CASE Launch(i)
  BY <1>4 DEF TypeOK, Launch, Doings, shared
<1>5. ASSUME NEW o \in {"settled", "unknown"}, Finish(i, o) PROVE TypeOK'
  <2>1. effects' \subseteq Effects
    <3>1. CASE effects' = Settled(EffectId(i), o)
      BY <3>1, SettledTypes DEF Open
    <3>2. CASE UNCHANGED effects
      BY <3>2 DEF TypeOK
    <3> QED
      BY <1>5, <3>1, <3>2 DEF Finish
  <2>2. doing' = [doing EXCEPT ![i] = Idle]
    BY <1>5 DEF Finish
  <2>3. UNCHANGED <<ent, claim, handoff, members, enrolled, changes, view, acking, works, left>>
    BY <1>5 DEF Finish
  <2> QED
    BY <2>1, <2>2, <2>3, GitAuthorityAssumption DEF TypeOK, Idle, Doings
<1>6. CASE Crash(i)
  <2>1. left' \in [changes : Nat, crashes : Nat]
    BY <1>6 DEF TypeOK, Crash
  <2> QED
    BY <1>6, <2>1, GitAuthorityAssumption DEF TypeOK, Crash, Idle, Quiet, Doings, Ackings, shared
<1>7. CASE WorkerEnds(i)
  BY <1>7 DEF TypeOK, WorkerEnds, shared
<1> QED
  BY <1>1, <1>2, <1>3, <1>4, <1>5, <1>6, <1>7 DEF Effect

\* The steps of a handoff keep the types.
LEMMA HandOverTypes ==
  ASSUME TypeOK, Draining, NEW i \in Installations, HandOver(i) \/ CompleteForOther(i)
  PROVE  TypeOK'
<1>1. CASE Refresh(i)
  BY <1>1 DEF TypeOK, Refresh, shared
<1>2. CASE Cancel(i)
  BY <1>2 DEF TypeOK, Cancel, shared, Handoffs, Ackings
<1>3. CASE AcknowledgeStop(i)
  <2>1. handoff' \in Handoffs
    BY <1>3, RecordUpdates DEF TypeOK, AcknowledgeStop
  <2>2. acking' \in [Installations -> Ackings]
    BY <1>3, AckingTypes DEF AcknowledgeStop
  <2>3. UNCHANGED <<ent, claim, effects, members, enrolled, changes, view, doing, works, ran, left>>
    BY <1>3 DEF AcknowledgeStop
  <2> QED
    BY <2>1, <2>2, <2>3 DEF TypeOK
<1>4. CASE CompleteHandoff(i)
  <2>1. ent' \in Entities /\ handoff' \in Handoffs
        /\ claim' \in Claims
    <3>1. handoff.to \in Members \cup {NoOne}
      BY DEF TypeOK, Handoffs
    <3> QED
      BY <1>4, <3>1, Completed, NullTypes DEF CompleteHandoff, Complete, MayComplete, TypeOK
  <2> QED
    BY <1>4, <2>1 DEF TypeOK, CompleteHandoff, Quiet, Ackings
<1>5. ASSUME NEW to \in Members \cup {NoOne}, BeginHandoff(i, to) PROVE TypeOK'
  <2>1. ent' \in Entities /\ handoff' \in Handoffs
    BY <1>5, Staged DEF BeginHandoff
  <2> QED
    BY <1>5, <2>1 DEF TypeOK, BeginHandoff, Quiet, Entities, Ackings
<1>6. ASSUME NEW to \in Members \cup {NoOne}, InheritOwner(i, to) PROVE TypeOK'
  <2>1. ent' \in Entities /\ handoff' \in Handoffs
    <3>1. CASE claim = NoClaim
      BY <1>6, <3>1, Inherited DEF InheritOwner, TypeOK
    <3>2. CASE claim # NoClaim
      BY <1>6, <3>2, Staged DEF InheritOwner
    <3> QED
      BY <3>1, <3>2
  <2> QED
    BY <1>6, <2>1 DEF TypeOK, InheritOwner, local
<1>7. CASE CompleteForOther(i)
  <2>1. handoff.to \in Members \cup {NoOne}
    BY DEF TypeOK, Handoffs
  <2> QED
    BY <1>7, <2>1, Completed, NullTypes
    DEF CompleteForOther, Complete, MayComplete, TypeOK, local
<1> QED
  BY <1>1, <1>2, <1>3, <1>4, <1>5, <1>6, <1>7 DEF HandOver

\* The steps of an administrator keep the types.
LEMMA AdministerTypes ==
  ASSUME TypeOK, Draining, NEW i \in Installations, Administer(i)
  PROVE  TypeOK'
<1>1. ASSUME NEW m \in Members, NEW what \in {"disable", "narrow"}, BeginMemberChange(i, m, what)
      PROVE  TypeOK'
  <2>1. ent' \in Entities /\ handoff' \in Handoffs
    BY <1>1, Staged DEF BeginMemberChange, TypeOK
  <2>2. changes' \subseteq Changes
    <3>1. [kind |-> "member", member |-> m, inst |-> NoOne, what |-> what, mine |-> ent.owner = m] \in Changes
      BY DEF Changes
    <3> QED
      BY <1>1, <3>1 DEF BeginMemberChange, TypeOK
  <2> QED
    BY <1>1, <2>1, <2>2, Spent DEF TypeOK, BeginMemberChange, local
<1>2. ASSUME NEW j \in Installations, BeginRevocation(i, j) PROVE TypeOK'
  <2>1. ent' \in Entities /\ handoff' \in Handoffs
    BY <1>2, Staged DEF BeginRevocation, TypeOK
  <2>2. changes' \subseteq Changes
    <3>1. enrolled[j] \in Members
      BY <1>2 DEF BeginRevocation, TypeOK
    <3>2. [kind |-> "inst", member |-> enrolled[j], inst |-> j, what |-> "revoke", mine |-> claim.inst = j] \in Changes
      BY <3>1 DEF Changes
    <3> QED
      BY <1>2, <3>2 DEF BeginRevocation, TypeOK
  <2> QED
    BY <1>2, <2>1, <2>2, Spent DEF TypeOK, BeginRevocation, local
<1>3. ASSUME NEW j \in Installations, Enroll(i, j) PROVE TypeOK'
  BY <1>3, GitAuthorityAssumption DEF TypeOK, Enroll, local
<1>4. ASSUME NEW c \in changes, CompleteChange(i, c) PROVE TypeOK'
  <2>1. ent' \in Entities /\ handoff' \in Handoffs
        /\ claim' \in Claims
    BY <1>4, Completed, NullTypes DEF CompleteChange, Ready, TypeOK
  <2>2. members' \in [Members -> MemberRows]
    <3>1. \A r \in MemberRows :
             /\ [r EXCEPT !.active = FALSE] \in MemberRows
             /\ [r EXCEPT !.sees = FALSE] \in MemberRows
      BY DEF MemberRows
    <3> QED
      BY <1>4, <3>1 DEF CompleteChange, TypeOK
  <2> QED
    BY <1>4, <2>1, <2>2 DEF TypeOK, CompleteChange, local
<1>5. CASE ExternalFence(i)
  BY <1>5 DEF TypeOK, ExternalFence, Handoffs, local
<1>6. CASE CompleteForOther(i)
  BY <1>6, HandOverTypes
<1>7. ASSUME NEW e \in effects, Reconcile(i, e) PROVE TypeOK'
  BY <1>7, SettledTypes DEF TypeOK, Reconcile, local
<1> QED
  BY <1>1, <1>2, <1>3, <1>4, <1>5, <1>6, <1>7 DEF Administer

-----------------------------------------------------------------------------
(* Fencing: what follows from the invariant in a state.                    *)

\* Whoever executes holds the claim.
LEMMA BusyClaims ==
  ASSUME IInv, NEW i \in Installations, Busy(i)
  PROVE  /\ claim # NoClaim /\ claim.inst = i /\ claim.gen = ent.gen
         /\ ent.owner = Of[i] /\ works[i] \subseteq {ent.gen}
<1>1. claim.inst = i /\ works[i] \subseteq {ent.gen}
  <2>1. CASE doing[i].stage = "run"
    <3>1. claim.inst = i
      BY <2>1 DEF IInv, Fencing, RunsOpenEffect, UnresolvedPins
    <3> QED
      BY <3>1 DEF IInv, Fencing, WorkersClaimed
  <2>2. CASE works[i] # {}
    BY <2>2 DEF IInv, Fencing, WorkersClaimed
  <2> QED
    BY <2>1, <2>2 DEF Busy
<1>2. claim # NoClaim
  BY <1>1, GitAuthorityAssumption DEF NoClaim
<1> QED
  BY <1>1, <1>2 DEF IInv, Fencing, ClaimInForce

\* Without a claim nothing runs and nothing is unresolved.
LEMMA UnclaimedIdle ==
  ASSUME IInv, claim = NoClaim
  PROVE  /\ Blockers = {}
         /\ \A i \in Installations : works[i] = {} /\ doing[i].stage # "run"
<1>1. Blockers = {}
  <2>1. SUFFICES ASSUME NEW e \in effects, e.outcome \in Open PROVE FALSE
    BY DEF Blockers
  <2>2. e.inst \in Installations
    BY DEF IInv, TypeOK, Effects
  <2>3. claim.inst = e.inst
    BY <2>1 DEF IInv, Fencing, UnresolvedPins
  <2> QED
    BY <2>2, <2>3, GitAuthorityAssumption DEF NoClaim
<1>2. ASSUME NEW i \in Installations PROVE ~Busy(i)
  BY BusyClaims
<1> QED
  BY <1>1, <1>2 DEF Busy

-----------------------------------------------------------------------------
(* Fencing: the steps of an effect.                                        *)

\* claim: made for the owner and the generation in force, or taken as it is.
LEMMA ClaimStep ==
  ASSUME IInv, ~Beside, NEW i \in Installations, NEW k \in Keys, Claim(i, k)
  PROVE  Fencing'
<1>1. UNCHANGED <<ent, effects, handoff, members, enrolled, changes, works, acking, ran>>
  BY DEF Claim
<1>2. doing[i] = Idle /\ acking[i] = Quiet /\ doing'[i].stage = "claimed"
      /\ \A j \in Installations \ {i} : doing'[j] = doing[j]
  BY DEF Claim, IInv, TypeOK
<1>3. \/ UNCHANGED <<claim, ops>>
      \/ /\ ClaimAllowed(i, view[i].ent.gen, view[i].ent.ver)
         /\ claim' = [inst |-> i, gen |-> view[i].ent.gen, ver |-> view[i].ent.ver]
         /\ ops \subseteq ops'
  BY DEF Claim, Accept
<1>13. \/ UNCHANGED claim
       \/ claim = NoClaim /\ Blockers = {} /\ \A j \in Installations : works[j] = {}
  BY <1>3, UnclaimedIdle DEF ClaimAllowed
<1>4. UnresolvedPins'
  BY <1>1, <1>13 DEF IInv, Fencing, UnresolvedPins, Blockers
<1>5. ClaimInForce'
  BY <1>1, <1>3 DEF IInv, Fencing, ClaimInForce, ClaimAllowed, MayApply, Enrolled
<1>6. ChangesApart'
  BY <1>1, <1>3 DEF IInv, Fencing, ChangesApart, ClaimAllowed, MayApply
<1>7. RunsOpenEffect'
  BY <1>1, <1>2 DEF IInv, Fencing, RunsOpenEffect, EffectId
<1>8. WorkersClaimed'
  BY <1>1, <1>13 DEF IInv, Fencing, WorkersClaimed
<1>9. Draining'
  BY <1>1, <1>3 DEF IInv, Fencing, Draining, ClaimAllowed
<1>10. StoppedIdle'
  BY <1>1, <1>2 DEF IInv, Fencing, StoppedIdle, Stopped
<1>11. StopsIdle'
  BY <1>1, <1>2 DEF IInv, Fencing, StopsIdle, Quiet
<1>12. Recorded'
  BY <1>1, <1>3 DEF IInv, Fencing, Recorded, Used
<1> QED
  BY <1>4, <1>5, <1>6, <1>7, <1>8, <1>9, <1>10, <1>11, <1>12 DEF Fencing

\* permit and effect: the claim is active, nothing drains, and the id is new.
LEMMA AdmitStep ==
  ASSUME IInv, NEW i \in Installations, Admit(i)
  PROVE  Fencing'
<1> DEFINE new == [id |-> EffectId(i), inst |-> i, gen |-> doing[i].gen,
                   ver |-> doing[i].ver, outcome |-> "pending"]
<1>1. UNCHANGED <<ent, claim, handoff, members, enrolled, changes, works, acking>>
  BY DEF Admit
<1>2. /\ doing[i].stage = "claimed" /\ doing'[i].stage = "run"
      /\ doing'[i].key = doing[i].key /\ doing'[i].gen = doing[i].gen
      /\ \A j \in Installations \ {i} : doing'[j] = doing[j]
  BY RecordUpdates DEF Admit, IInv, TypeOK
<1>3. /\ ~ent.drain /\ claim = [inst |-> i, gen |-> doing[i].gen, ver |-> doing[i].ver]
      /\ claim # NoClaim /\ handoff = NoHandoff
  BY GitAuthorityAssumption DEF Admit, AdmitAllowed, NoClaim, IInv, Fencing, Draining
<1>4. effects' = effects \cup {new} /\ ran' = ran \cup {EffectId(i)}
      /\ ~Used(EffectId(i)) /\ ops' = ops \cup {[id |-> EffectId(i), by |-> i]}
  BY DEF Admit, Accept
<1>5. UnresolvedPins'
  BY <1>1, <1>3, <1>4 DEF IInv, Fencing, UnresolvedPins, ClaimInForce
<1>6. ClaimInForce' /\ ChangesApart' /\ WorkersClaimed' /\ Draining'
  BY <1>1 DEF IInv, Fencing, ClaimInForce, Enrolled, ChangesApart, WorkersClaimed, Draining
<1>7. RunsOpenEffect'
  <2>1. EffectId(i)' = EffectId(i) /\ \A j \in Installations \ {i} : EffectId(j)' = EffectId(j)
    BY <1>2 DEF EffectId
  <2> QED
    <3>1. SUFFICES ASSUME NEW j \in Installations, doing'[j].stage = "run"
                   PROVE  \E e \in effects' : e.id = EffectId(j)' /\ e.inst = j /\ e.gen = doing'[j].gen /\ e.outcome \in Open
      BY DEF RunsOpenEffect, Open
    <3>2. CASE j = i
      <4>1. new \in effects' /\ new.id = EffectId(i) /\ new.inst = i /\ new.gen = doing'[i].gen /\ new.outcome \in Open
        BY <1>2, <1>4 DEF Open
      <4> QED
        BY <2>1, <3>2, <4>1
    <3>3. CASE j # i
      <4>1. \E e \in effects : e.id = EffectId(j) /\ e.inst = j /\ e.gen = doing[j].gen /\ e.outcome \in Open
        BY <1>2, <3>1, <3>3 DEF IInv, Fencing, RunsOpenEffect
      <4> QED
        BY <1>2, <1>4, <2>1, <3>3, <4>1
    <3> QED
      BY <3>2, <3>3
<1>8. StoppedIdle'
  BY <1>1, <1>3 DEF StoppedIdle
<1>9. StopsIdle'
  BY <1>1, <1>2 DEF IInv, Fencing, StopsIdle, Idle
<1>10. Recorded'
  <2>1. \A x : Used(x) \/ x = EffectId(i) => Used(x)'
    <3>1. [id |-> EffectId(i), by |-> i] \in ops' /\ ops \subseteq ops'
          /\ [id |-> EffectId(i), by |-> i].id = EffectId(i)
      BY <1>4
    <3> QED
      BY <3>1 DEF Used
  <2> QED
    BY <1>4, <2>1 DEF IInv, Fencing, Recorded
<1> QED
  BY <1>5, <1>6, <1>7, <1>8, <1>9, <1>10 DEF Fencing

\* A step that leaves the shared tables alone disturbs only what relates them
\* to an installation.
LEMMA LocalStep ==
  ASSUME IInv, UNCHANGED shared, UNCHANGED ran
  PROVE  UnresolvedPins' /\ ClaimInForce' /\ ChangesApart' /\ Draining' /\ Recorded'
<1>1. UNCHANGED <<ent, claim, effects, handoff, members, enrolled, changes, ops, ran>>
  BY DEF shared
<1> QED
  BY <1>1 DEF IInv, Fencing, UnresolvedPins, ClaimInForce, Enrolled, ChangesApart, Draining,
     Recorded, Used

\* An installation leaves its effect, or goes on with it as before.
LEMMA LeavesEffect ==
  ASSUME IInv, UNCHANGED effects,
         \A j \in Installations : doing'[j] = doing[j] \/ doing'[j] = Idle
  PROVE  RunsOpenEffect'
<1>1. SUFFICES ASSUME NEW j \in Installations, doing'[j].stage = "run"
               PROVE  \E e \in effects' : e.id = EffectId(j)' /\ e.inst = j /\ e.gen = doing'[j].gen /\ e.outcome \in Open
  BY DEF RunsOpenEffect, Open
<1>2. doing'[j] = doing[j]
  BY <1>1 DEF Idle
<1>3. EffectId(j)' = EffectId(j)
  BY <1>2 DEF EffectId
<1> QED
  BY <1>1, <1>2, <1>3 DEF IInv, Fencing, RunsOpenEffect

\* A refused or killed installation is out of its effect; workers live on.
LEMMA RefuseCrashStep ==
  ASSUME IInv, NEW i \in Installations, Refuse(i) \/ Crash(i)
  PROVE  Fencing'
<1>1. /\ UNCHANGED <<shared, works, ran>>
      /\ doing' = [doing EXCEPT ![i] = Idle]
      /\ acking' = acking \/ acking' = [acking EXCEPT ![i] = Quiet]
  BY DEF Refuse, Crash
<1>2. \A j \in Installations : doing'[j] = doing[j] \/ doing'[j] = Idle
  BY <1>1 DEF IInv, TypeOK
<1>3. UnresolvedPins' /\ ClaimInForce' /\ ChangesApart' /\ Draining' /\ Recorded'
  BY <1>1, LocalStep
<1>4. UNCHANGED <<effects, claim, ent, handoff, works>>
  BY <1>1 DEF shared
<1>5. RunsOpenEffect'
  BY <1>2, <1>4, LeavesEffect
<1>6. WorkersClaimed'
  BY <1>4 DEF IInv, Fencing, WorkersClaimed
<1>7. StoppedIdle'
  BY <1>2, <1>4 DEF IInv, Fencing, StoppedIdle, Stopped, Idle
<1>8. StopsIdle'
  BY <1>1, <1>2, <1>4 DEF IInv, TypeOK, Fencing, StopsIdle, Quiet
<1> QED
  BY <1>3, <1>5, <1>6, <1>7, <1>8 DEF Fencing

\* A worker is started by the installation that runs an effect.
LEMMA LaunchStep ==
  ASSUME IInv, NEW i \in Installations, Launch(i)
  PROVE  Fencing'
<1>1. /\ doing[i].stage = "run" /\ UNCHANGED <<shared, doing, acking, ran>>
      /\ works' = [works EXCEPT ![i] = @ \cup {doing[i].gen}]
  BY DEF Launch
<1>2. UNCHANGED <<claim, ent, handoff, effects>>
  BY <1>1 DEF shared
<1>3. claim.inst = i /\ works[i] \subseteq {ent.gen}
  BY <1>1, BusyClaims DEF Busy
<1>4. doing[i].gen = ent.gen
  <2>1. PICK e \in effects : e.id = EffectId(i) /\ e.inst = i /\ e.gen = doing[i].gen /\ e.outcome \in Open
    BY <1>1 DEF IInv, Fencing, RunsOpenEffect
  <2> QED
    BY <2>1 DEF IInv, Fencing, UnresolvedPins
<1>5. UnresolvedPins' /\ ClaimInForce' /\ ChangesApart' /\ Draining' /\ Recorded'
  BY <1>1, LocalStep
<1>6. RunsOpenEffect'
  BY <1>1, <1>2, LeavesEffect
<1>7. WorkersClaimed'
  BY <1>1, <1>2, <1>3, <1>4 DEF IInv, TypeOK, Fencing, WorkersClaimed
<1>8. StoppedIdle'
  BY <1>1, <1>2 DEF IInv, Fencing, StoppedIdle, Stopped
<1>9. StopsIdle'
  BY <1>1, <1>2 DEF IInv, TypeOK, Fencing, StopsIdle, Idle
<1> QED
  BY <1>5, <1>6, <1>7, <1>8, <1>9 DEF Fencing

\* Workers end by themselves.
LEMMA WorkerEndsStep ==
  ASSUME IInv, NEW i \in Installations, WorkerEnds(i)
  PROVE  Fencing'
<1>1. UNCHANGED <<shared, doing, acking, ran>> /\ works' = [works EXCEPT ![i] = {}]
  BY DEF WorkerEnds
<1>2. UNCHANGED <<claim, ent, handoff, effects>>
  BY <1>1 DEF shared
<1>3. \A j \in Installations : works'[j] = works[j] \/ works'[j] = {}
  BY <1>1 DEF IInv, TypeOK
<1>4. UnresolvedPins' /\ ClaimInForce' /\ ChangesApart' /\ Draining' /\ Recorded'
  BY <1>1, LocalStep
<1>5. RunsOpenEffect'
  BY <1>1, <1>2, LeavesEffect
<1>6. WorkersClaimed' /\ StoppedIdle' /\ StopsIdle'
  BY <1>1, <1>2, <1>3 DEF IInv, Fencing, WorkersClaimed, StoppedIdle, Stopped, StopsIdle
<1> QED
  BY <1>4, <1>5, <1>6 DEF Fencing

\* Recording an outcome settles one effect and touches no other; an effect that
\* is open afterwards was open before, if the one recorded was.
LEMMA SettledEffects ==
  ASSUME IInv, NEW id, NEW o \in Open \cup {"settled"},
         \A e \in effects : e.id = id => e.outcome \in Open \/ o = "settled"
  PROVE  /\ \A e \in effects : \E n \in Settled(id, o) :
              /\ n.id = e.id /\ n.inst = e.inst /\ n.gen = e.gen
              /\ e.id # id => n.outcome = e.outcome
         /\ \A n \in Settled(id, o) : \E e \in effects :
              /\ n.id = e.id /\ n.inst = e.inst /\ n.gen = e.gen /\ n.ver = e.ver
              /\ n.outcome \in Open => e.outcome \in Open
         /\ \A m, n \in Settled(id, o) : m.id = n.id => m = n
<1> DEFINE f(e) == IF e.id = id THEN [e EXCEPT !.outcome = o] ELSE e
<1>1. \A e \in effects : /\ f(e).id = e.id /\ f(e).inst = e.inst /\ f(e).gen = e.gen /\ f(e).ver = e.ver
                         /\ e.id # id => f(e).outcome = e.outcome
                         /\ f(e).outcome \in Open => e.outcome \in Open
  <2>1. \A e \in effects : e \in Effects
    BY DEF IInv, TypeOK
  <2> QED
    BY <2>1, RecordUpdates DEF Open
<1>2. Settled(id, o) = {f(e) : e \in effects}
  BY DEF Settled
<1> HIDE DEF f
<1>3. \A e, g \in effects : e.id = g.id => e = g
  BY DEF IInv, Fencing, Recorded
<1> QED
  BY <1>1, <1>2, <1>3

\* What recording an outcome leaves of the invariant, when no other
\* installation runs that effect.
LEMMA SettledKeeps ==
  ASSUME IInv, NEW id, NEW o \in Open \cup {"settled"},
         \A e \in effects : e.id = id => e.outcome \in Open \/ o = "settled",
         effects' = Settled(id, o), ops \subseteq ops',
         UNCHANGED <<claim, ent, ran>>,
         \A j \in Installations : doing'[j].stage = "run" => doing'[j] = doing[j] /\ EffectId(j) # id
  PROVE  UnresolvedPins' /\ RunsOpenEffect' /\ Recorded'
<1>1. /\ \A e \in effects : \E n \in effects' :
           /\ n.id = e.id /\ n.inst = e.inst /\ n.gen = e.gen
           /\ e.id # id => n.outcome = e.outcome
      /\ \A n \in effects' : \E e \in effects :
           /\ n.id = e.id /\ n.inst = e.inst /\ n.gen = e.gen /\ n.ver = e.ver
           /\ n.outcome \in Open => e.outcome \in Open
      /\ \A m, n \in effects' : m.id = n.id => m = n
  BY SettledEffects
<1>2. UnresolvedPins'
  BY <1>1 DEF IInv, Fencing, UnresolvedPins, Open
<1>3. RunsOpenEffect'
  <2>1. SUFFICES ASSUME NEW j \in Installations, doing'[j].stage = "run"
                 PROVE  \E e \in effects' : e.id = EffectId(j)' /\ e.inst = j /\ e.gen = doing'[j].gen /\ e.outcome \in Open
    BY DEF RunsOpenEffect, Open
  <2>2. EffectId(j)' = EffectId(j) /\ EffectId(j) # id /\ doing'[j] = doing[j]
    BY <2>1 DEF EffectId
  <2>3. PICK e \in effects : e.id = EffectId(j) /\ e.inst = j /\ e.gen = doing[j].gen /\ e.outcome \in Open
    BY <2>1, <2>2 DEF IInv, Fencing, RunsOpenEffect
  <2> QED
    BY <1>1, <2>2, <2>3
<1>4. Recorded'
  <2>1. \A x : Used(x) => Used(x)'
    BY DEF Used
  <2> QED
    BY <1>1, <2>1 DEF IInv, Fencing, Recorded
<1> QED
  BY <1>2, <1>3, <1>4

\* The end of an effect's body, with its outcome recorded or lost.
LEMMA FinishStep ==
  ASSUME IInv, NEW i \in Installations, NEW o \in {"settled", "unknown"}, Finish(i, o)
  PROVE  Fencing'
<1>1. /\ UNCHANGED <<ent, claim, handoff, members, enrolled, changes, works, acking, ran>>
      /\ doing[i].stage = "run" /\ ops \subseteq ops'
  BY DEF Finish, Accept
<1>2. /\ doing'[i] = Idle
      /\ \A j \in Installations \ {i} : doing'[j] = doing[j]
  BY DEF Finish, IInv, TypeOK
<1>3. UnresolvedPins' /\ RunsOpenEffect' /\ Recorded'
  <2>1. CASE effects' = Settled(EffectId(i), o)
    <3>1. \A e \in effects : e.id = EffectId(i) => e.outcome \in Open
      BY <1>1 DEF IInv, Fencing, RunsOpenEffect, Recorded
    <3>2. \A j \in Installations \ {i} : EffectId(j) # EffectId(i)
      BY DEF EffectId
    <3>3. \A j \in Installations : doing'[j].stage = "run" => doing'[j] = doing[j] /\ EffectId(j) # EffectId(i)
      BY <1>2, <3>2 DEF Idle
    <3> QED
      BY <1>1, <2>1, <3>1, <3>3, SettledKeeps DEF Open
  <2>2. CASE UNCHANGED <<effects, ops>>
    <3>1. RunsOpenEffect'
      BY <1>2, <2>2, LeavesEffect
    <3> QED
      BY <1>1, <2>2, <3>1 DEF IInv, Fencing, UnresolvedPins, Recorded, Used
  <2> QED
    BY <2>1, <2>2 DEF Finish
<1>4. ClaimInForce' /\ ChangesApart' /\ WorkersClaimed' /\ Draining'
  BY <1>1 DEF IInv, Fencing, ClaimInForce, Enrolled, ChangesApart, WorkersClaimed, Draining
<1>5. StoppedIdle' /\ StopsIdle'
  BY <1>1, <1>2 DEF IInv, Fencing, StoppedIdle, Stopped, StopsIdle, Idle
<1> QED
  BY <1>3, <1>4, <1>5 DEF Fencing

-----------------------------------------------------------------------------
(* Fencing: handing over.                                                  *)

\* refresh changes a view, which the invariant does not mention.
LEMMA RefreshStep ==
  ASSUME IInv, NEW i \in Installations, Refresh(i)
  PROVE  Fencing'
<1>1. UNCHANGED <<shared, doing, acking, works, ran>>
  BY DEF Refresh
<1>2. UNCHANGED <<claim, ent, handoff, effects>>
  BY <1>1 DEF shared
<1>3. UnresolvedPins' /\ ClaimInForce' /\ ChangesApart' /\ Draining' /\ Recorded'
  BY <1>1, LocalStep
<1>4. RunsOpenEffect'
  BY <1>1, <1>2, LeavesEffect
<1>5. WorkersClaimed' /\ StoppedIdle' /\ StopsIdle'
  BY <1>1, <1>2 DEF IInv, Fencing, WorkersClaimed, StoppedIdle, Stopped, StopsIdle
<1> QED
  BY <1>3, <1>4, <1>5 DEF Fencing

\* acknowledge_cancellations: between passes, so the installation is idle once
\* its workers are gone.
LEMMA CancelStep ==
  ASSUME IInv, ~Beside, NEW i \in Installations, Cancel(i)
  PROVE  Fencing'
<1>1. /\ UNCHANGED <<shared, doing, ran>> /\ doing[i] = Idle
      /\ works' = [works EXCEPT ![i] = {}]
      /\ acking' = [acking EXCEPT ![i] = [stage |-> "stop", id |-> view[i].handoff.gen]]
  BY DEF Cancel
<1>2. UNCHANGED <<claim, ent, handoff, effects>>
  BY <1>1 DEF shared
<1>3. /\ works'[i] = {}
      /\ \A j \in Installations \ {i} : works'[j] = works[j] /\ acking'[j] = acking[j]
  BY <1>1 DEF IInv, TypeOK
<1>4. UnresolvedPins' /\ ClaimInForce' /\ ChangesApart' /\ Draining' /\ Recorded'
  BY <1>1, LocalStep
<1>5. RunsOpenEffect'
  BY <1>1, <1>2, LeavesEffect
<1>6. WorkersClaimed' /\ StoppedIdle' /\ StopsIdle'
  BY <1>1, <1>2, <1>3 DEF IInv, Fencing, WorkersClaimed, StoppedIdle, Stopped, StopsIdle
<1> QED
  BY <1>4, <1>5, <1>6 DEF Fencing

\* acknowledge_stop: the claim's installation has stopped, and no other executes.
LEMMA AcknowledgeStopStep ==
  ASSUME IInv, NEW i \in Installations, AcknowledgeStop(i)
  PROVE  Fencing'
<1>1. /\ UNCHANGED <<ent, claim, effects, members, enrolled, changes, doing, works, ran>>
      /\ acking[i].stage = "stop" /\ ops \subseteq ops'
      /\ acking'[i].stage # "stop" /\ \A j \in Installations \ {i} : acking'[j] = acking[j]
  BY DEF AcknowledgeStop, Accept, IInv, TypeOK, Quiet
<1>2. \/ UNCHANGED handoff
      \/ handoff.inst = i /\ handoff' = [handoff EXCEPT !.ack = TRUE]
  BY DEF AcknowledgeStop
<1>3. handoff \in Handoffs
  BY DEF IInv, TypeOK
<1>4. UnresolvedPins' /\ ClaimInForce' /\ ChangesApart' /\ WorkersClaimed'
  BY <1>1 DEF IInv, Fencing, UnresolvedPins, ClaimInForce, Enrolled, ChangesApart, WorkersClaimed
<1>5. RunsOpenEffect'
  BY <1>1, LeavesEffect
<1>6. StopsIdle'
  BY <1>1 DEF IInv, Fencing, StopsIdle
<1>7. Recorded'
  BY <1>1 DEF IInv, Fencing, Recorded, Used
<1>8. handoff # NoHandoff \/ UNCHANGED handoff
  BY <1>2, GitAuthorityAssumption DEF NoHandoff
<1>9. Draining'
  <2>1. handoff'.inst = handoff.inst /\ handoff'.gen = handoff.gen
    BY <1>2, <1>3, RecordUpdates
  <2> QED
    BY <1>1, <1>8, <2>1 DEF IInv, Fencing, Draining
<1>10. StoppedIdle'
  <2>1. CASE UNCHANGED handoff
    BY <1>1, <2>1 DEF IInv, Fencing, StoppedIdle, Stopped
  <2>2. CASE handoff # NoHandoff /\ handoff.inst = i
    <3>1. claim.inst = i /\ works[i] = {} /\ doing[i].stage # "run"
      BY <1>1, <2>2 DEF IInv, Fencing, Draining, StopsIdle, Idle
    <3>2. \A j \in Installations \ {i} : ~Busy(j)
      BY <3>1, BusyClaims
    <3> QED
      BY <1>1, <3>1, <3>2 DEF StoppedIdle, Busy
  <2> QED
    BY <1>2, <1>8, <2>1, <2>2
<1> QED
  BY <1>4, <1>5, <1>6, <1>7, <1>9, <1>10 DEF Fencing

\* Completing a handoff: whoever held the claim has stopped, and nothing is
\* unresolved, so nothing loses its claim.
LEMMA CompleteStep ==
  ASSUME IInv, handoff # NoHandoff, Blockers = {}, Stopped,
         NEW to \in Members \cup {NoOne},
         ent' = Handed(to), claim' = NoClaim, handoff' = NoHandoff,
         UNCHANGED <<effects, doing, works, ran>>, ops \subseteq ops',
         \A j \in Installations : acking'[j] = acking[j] \/ acking'[j] = Quiet
  PROVE  Fencing'
<1>1. \A j \in Installations : works[j] = {} /\ doing[j].stage # "run"
  BY DEF IInv, Fencing, StoppedIdle
<1>2. UnresolvedPins'
  BY DEF UnresolvedPins, Blockers, Open
<1>3. ClaimInForce' /\ ChangesApart' /\ Draining' /\ StoppedIdle'
  BY DEF ClaimInForce, ChangesApart, Draining, StoppedIdle, NoClaim, NoHandoff
<1>4. RunsOpenEffect' /\ WorkersClaimed'
  BY <1>1 DEF RunsOpenEffect, WorkersClaimed
<1>5. StopsIdle'
  BY DEF IInv, Fencing, StopsIdle, Quiet
<1>6. Recorded'
  BY DEF IInv, Fencing, Recorded, Used
<1> QED
  BY <1>2, <1>3, <1>4, <1>5, <1>6 DEF Fencing

\* complete_handoff by the client that began or acknowledged it, or by another.
LEMMA CompleteHandoffStep ==
  ASSUME IInv, NEW i \in Installations, CompleteHandoff(i) \/ CompleteForOther(i)
  PROVE  Fencing'
<1>1. /\ UNCHANGED <<effects, members, enrolled, changes, doing, works, ran>> /\ ops \subseteq ops'
      /\ \A j \in Installations : acking'[j] = acking[j] \/ acking'[j] = Quiet
  BY DEF CompleteHandoff, CompleteForOther, Accept, local, IInv, TypeOK
<1>2. CASE MayComplete(i) /\ Complete
  <2>1. handoff.to \in Members \cup {NoOne}
    BY DEF IInv, TypeOK, Handoffs
  <2> QED
    BY <1>1, <1>2, <2>1, CompleteStep DEF MayComplete, Complete
<1>3. CASE UNCHANGED <<ent, claim, handoff, ops>>
  <2>1. UnresolvedPins' /\ ClaimInForce' /\ ChangesApart' /\ Draining' /\ Recorded'
    BY <1>1, <1>3, LocalStep DEF shared
  <2>2. RunsOpenEffect'
    BY <1>1, LeavesEffect
  <2>3. WorkersClaimed' /\ StoppedIdle' /\ StopsIdle'
    BY <1>1, <1>3 DEF IInv, Fencing, WorkersClaimed, StoppedIdle, Stopped, StopsIdle, Quiet
  <2> QED
    BY <2>1, <2>2, <2>3 DEF Fencing
<1> QED
  BY <1>2, <1>3 DEF CompleteHandoff, CompleteForOther

\* Staging a handoff: claim, owner and generation stay; it is ready at once only
\* where nothing was claimed.
LEMMA StageStep ==
  ASSUME IInv, NEW to \in Members \cup {NoOne}, NEW ready \in BOOLEAN, Stage(to, ready),
         ready => claim = NoClaim, ent.gen < MaxGen,
         UNCHANGED <<claim, effects, members, enrolled, doing, works, ran>>, ops \subseteq ops',
         \A j \in Installations : acking'[j] = acking[j] \/ acking'[j].stage # "stop"
  PROVE  /\ UnresolvedPins' /\ ClaimInForce' /\ RunsOpenEffect' /\ WorkersClaimed' /\ Draining'
         /\ StoppedIdle' /\ StopsIdle' /\ Recorded'
<1>1. /\ ent'.drain /\ ent'.owner = ent.owner /\ ent'.gen = ent.gen
      /\ handoff'.gen = ent.gen /\ handoff'.inst = claim.inst
      /\ handoff'.ack = ready /\ handoff'.fence = FALSE
  BY Staged DEF IInv
<1>2. UnresolvedPins' /\ ClaimInForce' /\ WorkersClaimed' /\ Draining'
  BY <1>1 DEF IInv, Fencing, UnresolvedPins, ClaimInForce, Enrolled, WorkersClaimed, Draining
<1>3. RunsOpenEffect'
  BY LeavesEffect
<1>4. StoppedIdle'
  BY <1>1, UnclaimedIdle DEF StoppedIdle, Stopped
<1>5. StopsIdle'
  BY DEF IInv, Fencing, StopsIdle
<1>6. Recorded'
  BY DEF IInv, Fencing, Recorded, Used
<1> QED
  BY <1>2, <1>3, <1>4, <1>5, <1>6

\* begin_handoff
LEMMA BeginHandoffStep ==
  ASSUME IInv, NEW i \in Installations, NEW to \in Members \cup {NoOne}, BeginHandoff(i, to)
  PROVE  Fencing'
<1>1. /\ UNCHANGED <<claim, effects, members, enrolled, changes, doing, works, ran>>
      /\ Stage(to, claim = NoClaim /\ Blockers = {}) /\ ent.gen < MaxGen /\ ops \subseteq ops'
      /\ \A j \in Installations : acking'[j] = acking[j] \/ acking'[j].stage # "stop"
  BY DEF BeginHandoff, Accept, IInv, TypeOK, Quiet
<1>2. ChangesApart'
  BY <1>1 DEF IInv, Fencing, ChangesApart
<1> QED
  BY <1>1, <1>2, StageStep DEF Fencing

\* reconcile_inherited_task_owners: at once without a claim, else like a handoff.
LEMMA InheritOwnerStep ==
  ASSUME IInv, NEW i \in Installations, NEW to \in Members \cup {NoOne}, InheritOwner(i, to)
  PROVE  Fencing'
<1>1. UNCHANGED <<claim, effects, members, enrolled, changes, doing, works, ran, ops, acking>>
      /\ ent.gen < MaxGen /\ handoff = NoHandoff
  BY DEF InheritOwner, local
<1>2. ChangesApart'
  BY <1>1 DEF IInv, Fencing, ChangesApart
<1>3. CASE claim = NoClaim
  <2>1. UNCHANGED handoff
    BY <1>3 DEF InheritOwner
  <2>2. Blockers = {} /\ \A j \in Installations : works[j] = {} /\ doing[j].stage # "run"
    BY <1>3, UnclaimedIdle
  <2>3. UnresolvedPins' /\ WorkersClaimed' /\ RunsOpenEffect'
    BY <1>1, <2>2 DEF UnresolvedPins, Blockers, WorkersClaimed, RunsOpenEffect
  <2>4. ClaimInForce' /\ Draining' /\ StoppedIdle'
    BY <1>1, <1>3, <2>1 DEF ClaimInForce, Draining, StoppedIdle, NoClaim, NoHandoff
  <2>5. StopsIdle' /\ Recorded'
    BY <1>1 DEF IInv, Fencing, StopsIdle, Recorded, Used
  <2> QED
    BY <1>2, <2>3, <2>4, <2>5 DEF Fencing
<1>4. CASE claim # NoClaim
  <2>1. Stage(to, FALSE)
    BY <1>4 DEF InheritOwner
  <2> QED
    BY <1>1, <1>2, <2>1, StageStep DEF Fencing
<1> QED
  BY <1>3, <1>4

-----------------------------------------------------------------------------
(* Fencing: administration.                                                *)

\* A step that only adds a change, or enrols, keeps all but what is about
\* changes and enrolment.
LEMMA RestStep ==
  ASSUME IInv, UNCHANGED <<ent, claim, effects, handoff, ops, doing, acking, works, ran>>
  PROVE  /\ UnresolvedPins' /\ RunsOpenEffect' /\ WorkersClaimed' /\ Draining' /\ StoppedIdle'
         /\ StopsIdle' /\ Recorded'
<1>1. RunsOpenEffect'
  BY LeavesEffect
<1> QED
  BY <1>1 DEF IInv, Fencing, UnresolvedPins, WorkersClaimed, Draining, StoppedIdle, Stopped,
     StopsIdle, Recorded, Used

\* begin_member_authority_change: the member's claim is fenced, or not theirs.
LEMMA BeginMemberChangeStep ==
  ASSUME IInv, NEW i \in Installations, NEW m \in Members, NEW what, BeginMemberChange(i, m, what)
  PROVE  Fencing'
<1>1. /\ UNCHANGED <<claim, effects, members, enrolled, ops, doing, acking, works, ran>>
      /\ ent.gen < MaxGen
      /\ changes' = changes \cup {[kind |-> "member", member |-> m, inst |-> NoOne, what |-> what,
                                   mine |-> ent.owner = m]}
  BY DEF BeginMemberChange, local
<1>2. ChangesApart'
  <2>1. SUFFICES ASSUME NEW c \in changes', ~c.mine, claim # NoClaim
                 PROVE  IF c.kind = "member" THEN c.member # Of[claim.inst] ELSE c.inst # claim.inst
    BY <1>1 DEF ChangesApart
  <2>2. CASE c \in changes
    BY <2>1, <2>2 DEF IInv, Fencing, ChangesApart
  <2>3. CASE c \notin changes
    <3> DEFINE new == [kind |-> "member", member |-> m, inst |-> NoOne, what |-> what,
                       mine |-> ent.owner = m]
    <3>0. c = new
      BY <1>1, <2>1, <2>3
    <3>1. c.kind = "member" /\ c.member = m /\ ent.owner # m
      <4>1. new.kind = "member" /\ new.member = m
        OBVIOUS
      <4>2. new.mine = (ent.owner = m)
        BY Zenon
      <4> HIDE DEF new
      <4> QED
        BY <2>1, <3>0, <4>1, <4>2, Zenon
    <3> QED
      BY <2>1, <3>1 DEF IInv, Fencing, ClaimInForce
  <2> QED
    BY <2>2, <2>3
<1>3. CASE ent.owner = m
  <2>1. Stage(NoOne, claim = NoClaim)
    BY <1>3 DEF BeginMemberChange
  <2> QED
    BY <1>1, <1>2, <2>1, StageStep DEF Fencing
<1>4. CASE ent.owner # m
  <2>1. UNCHANGED <<ent, handoff>>
    BY <1>4 DEF BeginMemberChange
  <2>2. ClaimInForce'
    BY <1>1, <2>1 DEF IInv, Fencing, ClaimInForce, Enrolled
  <2> QED
    BY <1>1, <1>2, <2>1, <2>2, RestStep DEF Fencing
<1> QED
  BY <1>3, <1>4

\* begin_installation_revocation: the claim is fenced, or another's.
LEMMA BeginRevocationStep ==
  ASSUME IInv, NEW i \in Installations, NEW j \in Installations, BeginRevocation(i, j)
  PROVE  Fencing'
<1>1. /\ UNCHANGED <<claim, effects, members, enrolled, ops, doing, acking, works, ran>>
      /\ ent.gen < MaxGen
      /\ changes' = changes \cup {[kind |-> "inst", member |-> enrolled[j], inst |-> j, what |-> "revoke",
                                   mine |-> claim.inst = j]}
  BY DEF BeginRevocation, local
<1>2. ChangesApart'
  <2>1. SUFFICES ASSUME NEW c \in changes', ~c.mine, claim # NoClaim
                 PROVE  IF c.kind = "member" THEN c.member # Of[claim.inst] ELSE c.inst # claim.inst
    BY <1>1 DEF ChangesApart
  <2>2. CASE c \in changes
    BY <2>1, <2>2 DEF IInv, Fencing, ChangesApart
  <2>3. CASE c \notin changes
    <3> DEFINE new == [kind |-> "inst", member |-> enrolled[j], inst |-> j, what |-> "revoke",
                       mine |-> claim.inst = j]
    <3>0. c = new
      BY <1>1, <2>1, <2>3
    <3>1. c.kind = "inst" /\ c.inst = j /\ claim.inst # j
      <4>1. new.kind = "inst" /\ new.inst = j
        OBVIOUS
      <4>2. new.mine = (claim.inst = j)
        BY Zenon
      <4> HIDE DEF new
      <4> QED
        BY <2>1, <3>0, <4>1, <4>2, Zenon
    <3> QED
      BY <3>1
  <2> QED
    BY <2>2, <2>3
<1>3. CASE claim.inst = j
  <2>1. Stage(NoOne, FALSE)
    BY <1>3 DEF BeginRevocation
  <2> QED
    BY <1>1, <1>2, <2>1, StageStep DEF Fencing
<1>4. CASE claim.inst # j
  <2>1. UNCHANGED <<ent, handoff>>
    BY <1>4 DEF BeginRevocation
  <2>2. ClaimInForce'
    BY <1>1, <2>1 DEF IInv, Fencing, ClaimInForce, Enrolled
  <2> QED
    BY <1>1, <1>2, <2>1, <2>2, RestStep DEF Fencing
<1> QED
  BY <1>3, <1>4

\* enroll_installation takes nothing away.
LEMMA EnrollStep ==
  ASSUME IInv, NEW i \in Installations, NEW j \in Installations, Enroll(i, j)
  PROVE  Fencing'
<1>1. /\ UNCHANGED <<ent, claim, effects, handoff, members, changes, ops, doing, acking, works, ran>>
      /\ enrolled' = [enrolled EXCEPT ![j] = Of[j]]
  BY DEF Enroll, local
<1>2. ClaimInForce' /\ ChangesApart'
  BY <1>1 DEF IInv, TypeOK, Fencing, ClaimInForce, Enrolled, ChangesApart
<1> QED
  BY <1>1, <1>2, RestStep DEF Fencing

\* complete_authority_change: what it fenced has stopped; and one that fenced
\* nothing is about neither the claim's member nor its installation.
LEMMA CompleteChangeStep ==
  ASSUME IInv, NEW i \in Installations, NEW c \in changes, CompleteChange(i, c)
  PROVE  Fencing'
<1>1. UNCHANGED <<effects, ops, doing, acking, works, ran>> /\ changes' = changes \ {c}
  BY DEF CompleteChange, local
<1>2. CASE c.mine
  <2>1. /\ handoff # NoHandoff /\ Blockers = {} /\ Stopped
        /\ ent' = Handed(NoOne) /\ claim' = NoClaim /\ handoff' = NoHandoff
    BY <1>2 DEF CompleteChange, Ready
  <2> QED
    BY <1>1, <2>1, CompleteStep
<1>3. CASE ~c.mine
  <2>1. UNCHANGED <<ent, claim, handoff>>
    BY <1>3 DEF CompleteChange
  <2>2. ChangesApart'
    BY <1>1, <2>1 DEF IInv, Fencing, ChangesApart
  <2>3. ClaimInForce'
    <3>1. SUFFICES ASSUME claim # NoClaim
                   PROVE  enrolled'[claim.inst] = Of[claim.inst] /\ members'[Of[claim.inst]].active
      BY <2>1 DEF IInv, Fencing, ClaimInForce, Enrolled
    <3>2. /\ claim.inst \in Installations /\ Of[claim.inst] \in Members
          /\ enrolled[claim.inst] = Of[claim.inst] /\ members[Of[claim.inst]].active
          /\ IF c.kind = "member" THEN c.member # Of[claim.inst] ELSE c.inst # claim.inst
          /\ c.kind \in {"member", "inst"}
      BY <1>3, <3>1, GitAuthorityAssumption
      DEF IInv, TypeOK, Changes, Fencing, ClaimInForce, Enrolled, ChangesApart
    <3>3. enrolled'[claim.inst] = enrolled[claim.inst]
      BY <3>2 DEF CompleteChange, IInv, TypeOK
    <3>4. members'[Of[claim.inst]] = members[Of[claim.inst]]
      BY <3>2 DEF CompleteChange, IInv, TypeOK
    <3> QED
      BY <3>2, <3>3, <3>4
  <2> QED
    BY <1>1, <2>1, <2>2, <2>3, RestStep DEF Fencing
<1> QED
  BY <1>2, <1>3

\* record_external_fence: nothing runs on the fenced installation, and no other
\* executes.
LEMMA ExternalFenceStep ==
  ASSUME IInv, NEW i \in Installations, ExternalFence(i)
  PROVE  Fencing'
<1>1. /\ UNCHANGED <<ent, claim, effects, members, enrolled, changes, ops, doing, acking, works, ran>>
      /\ handoff # NoHandoff /\ handoff' = [handoff EXCEPT !.fence = TRUE]
      /\ handoff.inst # NoOne => (works[handoff.inst] = {} /\ doing[handoff.inst] = Idle)
  BY DEF ExternalFence, local
<1>2. handoff'.inst = handoff.inst /\ handoff'.gen = handoff.gen
  BY <1>1, RecordUpdates DEF IInv, TypeOK
<1>3. UnresolvedPins' /\ ClaimInForce' /\ ChangesApart' /\ WorkersClaimed' /\ StopsIdle' /\ Recorded'
  BY <1>1 DEF IInv, Fencing, UnresolvedPins, ClaimInForce, Enrolled, ChangesApart, WorkersClaimed,
     StopsIdle, Recorded, Used
<1>4. RunsOpenEffect'
  BY <1>1, LeavesEffect
<1>5. Draining'
  BY <1>1, <1>2 DEF IInv, Fencing, Draining
<1>6. StoppedIdle'
  <2>1. \A j \in Installations : ~Busy(j)
    BY <1>1, BusyClaims, GitAuthorityAssumption DEF IInv, Fencing, Draining, Busy, Idle
  <2> QED
    BY <1>1, <2>1 DEF StoppedIdle, Busy
<1> QED
  BY <1>3, <1>4, <1>5, <1>6 DEF Fencing

\* reconcile_effect settles an effect that nobody is inside of.
LEMMA ReconcileStep ==
  ASSUME IInv, NEW i \in Installations, NEW e \in effects, Reconcile(i, e)
  PROVE  Fencing'
<1>1. /\ UNCHANGED <<ent, claim, handoff, members, enrolled, changes, ops, doing, acking, works, ran>>
      /\ effects' = Settled(e.id, "settled")
      /\ \A j \in Installations : ~(doing[j].stage = "run" /\ EffectId(j) = e.id)
  BY DEF Reconcile, local
<1>2. UnresolvedPins' /\ RunsOpenEffect' /\ Recorded'
  BY <1>1, SettledKeeps
<1>3. ClaimInForce' /\ ChangesApart' /\ WorkersClaimed' /\ Draining' /\ StoppedIdle' /\ StopsIdle'
  BY <1>1 DEF IInv, Fencing, ClaimInForce, Enrolled, ChangesApart, WorkersClaimed, Draining,
     StoppedIdle, Stopped, StopsIdle
<1> QED
  BY <1>2, <1>3 DEF Fencing

-----------------------------------------------------------------------------
(* The theorems.                                                           *)

LEMMA InitInvariant ==
  ASSUME Init
  PROVE  IInv
<1>1. TypeOK
  <2>1. ent \in Entities
    <3>1. PICK m \in Members : ent = [owner |-> m, gen |-> 1, ver |-> 0, drain |-> FALSE]
      BY DEF Init
    <3>2. 1 \in Gens
      BY GitAuthorityAssumption DEF Gens
    <3> QED
      BY <3>1, <3>2 DEF Entities
  <2>2. members \in [Members -> MemberRows]
    BY DEF Init, MemberRows
  <2>3. /\ doing \in [Installations -> Doings] /\ acking \in [Installations -> Ackings]
        /\ left \in [changes : Nat, crashes : Nat]
    BY GitAuthorityAssumption DEF Init, Doings, Ackings, Idle, Quiet
  <2>4. view \in [Installations -> [ent : Entities, handoff : Handoffs]]
    BY <2>1, NullTypes DEF Init
  <2> QED
    BY <2>1, <2>2, <2>3, <2>4, NullTypes, GitAuthorityAssumption DEF Init, TypeOK
<1>2. Fencing
  BY DEF Init, Fencing, UnresolvedPins, ClaimInForce, ChangesApart, RunsOpenEffect, WorkersClaimed,
     Draining, StoppedIdle, StopsIdle, Recorded, Idle, Quiet
<1> QED
  BY <1>1, <1>2 DEF IInv

LEMMA StepInvariant ==
  ASSUME ~Beside, IInv, [Next]_vars
  PROVE  IInv'
<1>1. CASE UNCHANGED vars
  <2>1. UNCHANGED <<shared, view, doing, acking, works, ran, left>>
        /\ UNCHANGED <<ent, claim, effects, handoff, members, enrolled, changes, ops>>
    BY <1>1 DEF vars, local, shared
  <2>2. TypeOK'
    BY <2>1 DEF IInv, TypeOK
  <2>3. ClaimInForce' /\ ChangesApart'
    BY <2>1, LocalStep
  <2> QED
    BY <2>1, <2>2, <2>3, RestStep DEF IInv, Fencing
<1>2. ASSUME NEW i \in Installations, Effect(i) \/ WorkerEnds(i) PROVE IInv'
  <2>1. TypeOK'
    BY <1>2, EffectTypes DEF IInv
  <2>2. Fencing'
    BY <1>2, ClaimStep, AdmitStep, RefuseCrashStep, LaunchStep, WorkerEndsStep, FinishStep DEF Effect
  <2> QED
    BY <2>1, <2>2 DEF IInv
<1>3. ASSUME NEW i \in Installations, HandOver(i) PROVE IInv'
  <2>1. TypeOK'
    BY <1>3, HandOverTypes DEF IInv, Fencing
  <2>2. Fencing'
    BY <1>3, RefreshStep, CancelStep, AcknowledgeStopStep, CompleteHandoffStep, BeginHandoffStep,
       InheritOwnerStep DEF HandOver
  <2> QED
    BY <2>1, <2>2 DEF IInv
<1>4. ASSUME NEW i \in Installations, Administer(i) PROVE IInv'
  <2>1. TypeOK'
    BY <1>4, AdministerTypes DEF IInv, Fencing
  <2>2. Fencing'
    BY <1>4, BeginMemberChangeStep, BeginRevocationStep, EnrollStep, CompleteChangeStep,
       ExternalFenceStep, CompleteHandoffStep, ReconcileStep DEF Administer
  <2> QED
    BY <2>1, <2>2 DEF IInv
<1> QED
  BY <1>1, <1>2, <1>3, <1>4 DEF Next

\* The invariant holds in every reachable state: claim, effects, handoff and what
\* the installations run stay in step through any interleaving of transactions,
\* stale views, kills and administrative changes.
THEOREM FencingHolds == ~Beside => (Spec => []IInv)
<1> SUFFICES ASSUME ~Beside PROVE Spec => []IInv
  OBVIOUS
<1>1. Init => IInv
  BY InitInvariant
<1>2. IInv /\ [Next]_vars => IInv'
  BY StepInvariant
<1> QED
  BY <1>1, <1>2, PTL DEF Spec

\* Work never outlives the authority it was started under: whoever executes holds
\* the claim of the generation in force, for the entity's owner (git_coordination's
\* claim, handoff and revocation).
THEOREM AuthorityStays == ~Beside => (Spec => []WorkUnderAuthority)
<1>1. IInv => WorkUnderAuthority
  BY BusyClaims DEF WorkUnderAuthority
<1> QED
  BY <1>1, FencingHolds, PTL

\* At most one installation executes for the entity at any time.
THEOREM ExecutorUnique == ~Beside => (Spec => []OneExecutor)
<1>1. IInv => OneExecutor
  BY BusyClaims DEF OneExecutor
<1> QED
  BY <1>1, FencingHolds, PTL

\* An effect with an unknown outcome keeps its claim and its generation in place.
THEOREM EffectsPin == ~Beside => (Spec => []UnresolvedPins)
<1>1. IInv => UnresolvedPins
  BY DEF IInv, Fencing
<1> QED
  BY <1>1, FencingHolds, PTL

\* A disabled member and a revoked installation execute nothing.
THEOREM NoOutsider == ~Beside => (Spec => []OutsidersIdle)
<1>1. IInv => OutsidersIdle
  BY BusyClaims DEF OutsidersIdle, IInv, Fencing, ClaimInForce, Enrolled
<1> QED
  BY <1>1, FencingHolds, PTL

\* No effect operation is executed twice: neither a second pass, nor a restart,
\* nor a replayed claim starts its body again (effect, "reconcile it instead of
\* executing again").
THEOREM NoSecondExecution == ~Beside => (Spec => ExecutedOnce)
<1> DEFINE Once == \A i \in Installations :
                     doing[i].stage # "run" /\ doing'[i].stage = "run" => EffectId(i) \notin ran
<1>1. IInv /\ [Next]_vars => [Once]_vars
  <2>1. SUFFICES ASSUME IInv, Next PROVE Once
    OBVIOUS
  <2>2. ASSUME NEW i \in Installations, doing[i].stage # "run", doing'[i].stage = "run"
        PROVE  Admit(i)
    <3>1. ASSUME NEW j \in Installations, Effect(j) PROVE Admit(i)
      <4>1. ASSUME NEW k \in Keys, Claim(j, k) PROVE FALSE
        BY <2>2, <4>1 DEF Claim, IInv, TypeOK
      <4>2. ASSUME NEW o, Refuse(j) \/ Crash(j) \/ Finish(j, o) PROVE FALSE
        <5>1. doing' = [doing EXCEPT ![j] = Idle]
          BY <4>2 DEF Refuse, Crash, Finish
        <5> QED
          BY <2>2, <5>1 DEF IInv, TypeOK, Idle
      <4>3. ASSUME Admit(j) PROVE i = j
        BY <2>2, <4>3 DEF Admit, IInv, TypeOK
      <4>4. ASSUME Launch(j) PROVE FALSE
        BY <2>2, <4>4 DEF Launch
      <4> QED
        BY <3>1, <4>1, <4>2, <4>3, <4>4 DEF Effect
    <3>2. ASSUME NEW j \in Installations, HandOver(j) \/ Administer(j) \/ WorkerEnds(j)
          PROVE  UNCHANGED doing
      BY <3>2 DEF HandOver, Refresh, Cancel, AcknowledgeStop, CompleteHandoff, BeginHandoff,
         InheritOwner, Administer, BeginMemberChange, BeginRevocation, Enroll, CompleteChange,
         ExternalFence, CompleteForOther, Reconcile, WorkerEnds, local
    <3> QED
      BY <2>1, <2>2, <3>1, <3>2 DEF Next
  <2> QED
    BY <2>1, <2>2 DEF Admit, Accept, IInv, Fencing, Recorded
<1> QED
  BY <1>1, FencingHolds, PTL DEF ExecutedOnce, Spec

=============================================================================
