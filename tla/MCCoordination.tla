---------------------------- MODULE MCCoordination ----------------------------
(* Small instances of the coordinator for TLC.                               *)
EXTENDS Coordination, TLC

CONSTANTS alice, bob,        \* members
          a1, a2, b1         \* installations: two of alice's (a1 administers), one of bob's

MCMemberOf == (a1 :> alice) @@ (a2 :> alice) @@ (b1 :> bob)
MCNoPhase == [p \in Pools |-> NoOne]
MCPhase == [p \in Pools |-> IF p \in GlobalPools THEN NoOne ELSE CHOOSE k \in Phases : TRUE]
MCAmounts == {[r \in Resources |-> 1], [r \in Resources |-> IF r = "units" THEN 0 ELSE 2]}
MCLimits == {[r \in Resources |-> 1], [r \in Resources |-> 2]}

\* Operation ids (numbers here) are only compared for equality, so behaviours
\* that use them in another order are renamings of the ones explored.
OpsInOrder == \A o \in OpIds \ {1} : ~ Fresh(o) => ~ Fresh(o - 1)
===============================================================================
