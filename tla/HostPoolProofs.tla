---------------------------- MODULE HostPoolProofs ----------------------------
(***************************************************************************)
(* What a pass may terminate and what a cleanup leaves closed, for any      *)
(* number of hosts, generations, commands and faults.                       *)
(***************************************************************************)
EXTENDS HostPool, FiniteSetTheorems, SequenceTheorems, WellFoundedInduction, TLAPS

-----------------------------------------------------------------------------
(* The inductive invariant.                                                *)

\* Nothing a drain has to wait for runs on the host.
Released(h) ==
    \/ run[Slot(h)] # [host |-> h, raced |-> FALSE]
    \/ late \/ cloud[h].notice = "over" \/ cloud[h].st # "up"

\* Between the answer of the drain store and the termination the fence stays up.
TargetOK ==
    /\ pass.pc \in {"destroy", "retired", "reclaim", "rotate"} => pass.at \in Hosts
    /\ pass.pc \in {"destroy", "reclaim"} /\ pass.why # "force"
       => fence[pass.at] # "none" /\ Released(pass.at)

\* What is terminated without a drain was superseded.
StaleOK ==
    /\ pass.pc = "sort" => \A h \in pass.todo : h[2] # gens[Slot(h)]
    /\ pass.pc \in {"reclaim", "rotate"} => pass.todo = {}

\* A pass meets a closing operation before it converges, and then only drains.
ClosedOK ==
    op.phase \in Closing /\ pass.pc \notin {"idle", "start"}
    => /\ pass.pc \in {"drain", "destroy", "retired"}
       /\ pass.why \in {"cleanup", "force", "excess"}

\* The controller starts no pass with an open breaker.
BreakerOK == /\ pass.fleet => ~ fleet.breaker
             /\ ~ fleet.breaker => fleet.attempts < Threshold

IInv == TypeOK /\ TargetOK /\ StaleOK /\ ClosedOK /\ BreakerOK

\* The bodies of WorkDrained and NoRevival.
DrainedStep ==
    \A h \in Hosts :
        /\ pass' # pass /\ cloud[h].st = "up" /\ cloud'[h].st # "up"
        /\ run[Slot(h)] = [host |-> h, raced |-> FALSE]
        => late \/ cloud[h].notice = "over" \/ pass.why = "force" \/ pass.pc = "launch" \/ h[2] # gens[Slot(h)]
ClosedStep ==
    op.phase \in Closing /\ pass.why # "excess"
    => /\ op'.phase \in Closing
       /\ \A h \in Hosts : cloud'[h].st = "up" => cloud[h].st = "up"
Steady == DrainedStep /\ ClosedStep

-----------------------------------------------------------------------------
(* Hosts and the operators over them.                                      *)

LEMMA HostParts ==
    ASSUME NEW h \in Hosts
    PROVE  /\ h = <<h[1], h[2]>> /\ Slot(h) = h[1] /\ h # <<>>
           /\ h[1] \in Nat /\ h[1] \in Slots /\ h[2] \in Nat /\ h[2] \in 0..MaxGen
  BY PoolAssumption DEF Hosts, Slots, Slot

\* Work waits in the order of its hosts: there is a first one.
LEMMA FirstIn ==
    ASSUME NEW S, S \subseteq Hosts, S # {}
    PROVE  First(S) \in S /\ First(S) \in Hosts
<1> DEFINE A == {h[1] : h \in S}
<1> DEFINE R == OpToRel(<, Nat)
<1>a. IsWellFoundedOn(R, Nat)
  BY NatLessThanWellFounded
<1>b. \A a, b \in Nat : a < b => <<a, b>> \in R
  BY DEF OpToRel
<1> HIDE DEF R
<1>0. \A a, b \in Nat : <<a, b>> \notin R => b <= a
  BY <1>b
<1>1. PICK x \in A : \A y \in A : ~ (<<y, x>> \in R)
  <2>1. A \subseteq Nat /\ A # {}
    BY HostParts
  <2> HIDE DEF A
  <2> QED
    BY <2>1, <1>a, WFMin
<1> DEFINE B == {h[2] : h \in {k \in S : k[1] = x}}
<1>2. PICK y \in B : \A z \in B : ~ (<<z, y>> \in R)
  <2>1. B \subseteq Nat /\ B # {}
    BY HostParts
  <2> HIDE DEF B
  <2> QED
    BY <2>1, <1>a, WFMin
<1>3. PICK h \in S : h[1] = x /\ h[2] = y
  OBVIOUS
<1>4. ASSUME NEW k \in S PROVE h[1] < k[1] \/ (h[1] = k[1] /\ h[2] <= k[2])
  <2>1. h[1] \in Nat /\ h[2] \in Nat /\ k[1] \in Nat /\ k[2] \in Nat
    BY HostParts
  <2>2. h[1] <= k[1]
    BY <1>0, <1>1, <1>3, <2>1
  <2>3. k[1] = h[1] => h[2] <= k[2]
    BY <1>0, <1>2, <1>3, <2>1
  <2> QED
    BY <2>1, <2>2, <2>3
<1> QED
  BY <1>3, <1>4 DEF First

LEMMA FiniteHosts == \A S \in SUBSET Hosts : IsFiniteSet(S) /\ Cardinality(S) \in Nat
<1>1. IsFiniteSet(Slots) /\ IsFiniteSet(0..MaxGen)
  BY PoolAssumption, FS_Interval DEF Slots
<1>2. IsFiniteSet(Hosts)
  BY <1>1, FS_Product DEF Hosts
<1> QED
  BY <1>2, FS_Subset, FS_CardinalityType

LEMMA InOrderType ==
    ASSUME NEW S \in SUBSET Hosts, NEW a \in InOrder(S)
    PROVE  a \in Seq(Hosts)
<1>1. PICK n \in Nat : a \in [1..n -> S]
  BY FiniteHosts DEF InOrder
<1> QED
  BY <1>1

-----------------------------------------------------------------------------
(* Machines, workers and the deadline: steps between the steps of a pass.   *)

\* A step that leaves the pass and its files alone and starts no machine keeps
\* everything, if a fenced host that is released stays so.
LEMMA Outside ==
    ASSUME IInv, TypeOK', UNCHANGED <<fence, gens, op, fleet, pass>>,
           \A h \in Hosts : fence[h] # "none" /\ Released(h) => Released(h)',
           \A h \in Hosts : cloud'[h].st = "up" => cloud[h].st = "up"
    PROVE  IInv' /\ Steady
<1>1. TargetOK'
  BY DEF IInv, TargetOK
<1>2. StaleOK' /\ ClosedOK' /\ BreakerOK'
  BY DEF IInv, StaleOK, ClosedOK, BreakerOK
<1>3. Steady
  BY DEF Steady, DrainedStep, ClosedStep
<1> QED
  BY <1>1, <1>2, <1>3 DEF IInv

\* One machine changes: it does not come up, and its notice stays over.
LEMMA MachineStep ==
    ASSUME IInv, NEW h \in Hosts, NEW m \in Machines,
           cloud' = [cloud EXCEPT ![h] = m], OnlyCloud,
           left' = left \/ Faulty,
           m.st = "up" => cloud[h].st = "up" /\ (cloud[h].notice = "over" => m.notice = "over")
    PROVE  IInv' /\ Steady
<1>1. TypeOK'
  BY DEF IInv, TypeOK, OnlyCloud, world, Faulty
<1>2. \A k \in Hosts : cloud'[k] = IF k = h THEN m ELSE cloud[k]
  BY DEF IInv, TypeOK
<1>3. \A k \in Hosts : Released(k) => Released(k)'
  BY <1>2 DEF Released, OnlyCloud, world
<1> QED
  BY <1>1, <1>2, <1>3, Outside DEF OnlyCloud

LEMMA MachineSteps ==
    ASSUME IInv, NEW h \in Hosts,
           Appears(h) \/ Boots(h) \/ Ends(h) \/ Breaks(h) \/ Warned(h) \/ NoticeExpires(h)
             \/ Dies(h) \/ DeadlineFires(h)
    PROVE  IInv' /\ Steady
<1> DEFINE m == cloud[h]
<1>0. m \in Machines /\ cloud \in [Hosts -> Machines]
  BY DEF IInv, TypeOK
<1>1. CASE Appears(h)
  <2>1. cloud' = [cloud EXCEPT ![h] = [m EXCEPT !.vis = "listed"]]
    BY <1>1 DEF Appears
  <2>2. [m EXCEPT !.vis = "listed"] \in Machines
    BY <1>0 DEF Machines
  <2> QED
    BY <1>0, <1>1, <2>1, <2>2, MachineStep DEF Appears, Machines
<1>2. CASE Boots(h)
  <2>1. cloud' = [cloud EXCEPT ![h] = [m EXCEPT !.vis = "booted"]]
    BY <1>2 DEF Boots
  <2>2. [m EXCEPT !.vis = "booted"] \in Machines
    BY <1>0 DEF Machines
  <2> QED
    BY <1>0, <1>2, <2>1, <2>2, MachineStep DEF Boots, Machines
<1>3. CASE Ends(h) \/ Dies(h)
  <2>1. Absent \in Machines /\ Absent.st # "up"
    BY DEF Machines, Absent
  <2> QED
    BY <1>3, <2>1, MachineStep DEF Ends, Dies
<1>4. CASE Breaks(h)
  <2>1. cloud' = [cloud EXCEPT ![h] = [m EXCEPT !.broken = TRUE]]
    BY <1>4 DEF Breaks
  <2>2. [m EXCEPT !.broken = TRUE] \in Machines
    BY <1>0 DEF Machines
  <2> QED
    BY <1>0, <1>4, <2>1, <2>2, MachineStep DEF Breaks, Machines
<1>5. CASE Warned(h)
  <2>1. cloud' = [cloud EXCEPT ![h] = [m EXCEPT !.notice = "warned"]] /\ m.notice = "no"
    BY <1>5 DEF Warned
  <2>2. [m EXCEPT !.notice = "warned"] \in Machines
    BY <1>0 DEF Machines
  <2> QED
    BY <1>0, <1>5, <2>1, <2>2, MachineStep DEF Warned, Machines
<1>6. CASE NoticeExpires(h)
  <2>1. cloud' = [cloud EXCEPT ![h] = [m EXCEPT !.notice = "over"]]
    BY <1>6 DEF NoticeExpires
  <2>2. [m EXCEPT !.notice = "over"] \in Machines
    BY <1>0 DEF Machines
  <2> QED
    BY <1>0, <1>6, <2>1, <2>2, MachineStep DEF NoticeExpires, Machines
<1>7. CASE DeadlineFires(h)
  <2>1. cloud' = [cloud EXCEPT ![h] = [m EXCEPT !.st = "ending"]]
    BY <1>7 DEF DeadlineFires
  <2>2. [m EXCEPT !.st = "ending"] \in Machines /\ [m EXCEPT !.st = "ending"].st # "up"
    BY <1>0 DEF Machines
  <2> QED
    BY <1>7, <2>1, <2>2, MachineStep DEF DeadlineFires
<1> QED
  BY <1>1, <1>2, <1>3, <1>4, <1>5, <1>6, <1>7

LEMMA DeadlineStep ==
    ASSUME IInv, Deadline PROVE IInv' /\ Steady
<1>1. TypeOK'
  BY DEF IInv, TypeOK, Deadline
<1> QED
  BY <1>1, Outside DEF Deadline, Released

\* A lease granted past the drain check of a fenced host is marked: the drain
\* did not know of it.
LEMMA WorkerSteps ==
    ASSUME IInv, NEW h \in Hosts, Claim(h) \/ Lease(h) \/ Finish(h)
    PROVE  IInv' /\ Steady
<1>0. h \in Hosts /\ Slot(h) \in Slots /\ cloud \in [Hosts -> Machines] /\ run \in [Slots -> Leases]
  BY HostParts DEF IInv, TypeOK
<1>1. CASE Claim(h)
  <2>1. TypeOK'
    BY <1>1 DEF IInv, TypeOK, Claim, OnlyWork
  <2> QED
    BY <1>1, <2>1, Outside DEF Claim, OnlyWork, Released
<1>2. CASE Lease(h)
  <2> DEFINE l == [host |-> h, raced |-> fence[h] # "none" \/ cloud[h].st # "up"]
  <2>1. l \in Leases
    BY DEF Leases
  <2>2. run' = run \/ run' = [run EXCEPT ![Slot(h)] = l]
    BY <1>2 DEF Lease
  <2>3. run' \in [Slots -> Leases] /\ \A s \in Slots : run'[s] = run[s] \/ run'[s] = l
    BY <1>0, <2>1, <2>2
  <2>4. TypeOK'
    BY <1>2, <2>3 DEF IInv, TypeOK, Lease, OnlyWork
  <2>5. ASSUME NEW k \in Hosts, fence[k] # "none", Released(k) PROVE Released(k)'
    <3>1. Slot(k) \in Slots
      BY HostParts
    <3>2. l = [host |-> k, raced |-> FALSE] => FALSE
      BY <2>5
    <3> QED
      BY <1>2, <2>3, <2>5, <3>1, <3>2 DEF Released, Lease, OnlyWork
  <2> QED
    BY <1>2, <2>4, <2>5, Outside DEF Lease, OnlyWork
<1>3. CASE Finish(h)
  <2> DEFINE m == [cloud[h] EXCEPT !.worked = TRUE]
  <2>1. m \in Machines /\ m.st = cloud[h].st /\ m.notice = cloud[h].notice
    BY <1>0 DEF Machines
  <2>2. cloud' = [cloud EXCEPT ![h] = m]
    BY <1>3 DEF Finish
  <2>3. \A k \in Hosts : cloud'[k].st = cloud[k].st /\ cloud'[k].notice = cloud[k].notice
    BY <1>0, <2>1, <2>2
  <2>4. NoRun \in Leases /\ \A k \in Hosts : NoRun # [host |-> k, raced |-> FALSE]
    BY HostParts DEF NoRun, Leases
  <2>5. cloud' \in [Hosts -> Machines] /\ run' \in [Slots -> Leases]
        /\ \A s \in Slots : run'[s] = run[s] \/ run'[s] = NoRun
    BY <1>0, <1>3, <2>1, <2>2, <2>4 DEF Finish
  <2>6. TypeOK'
    BY <1>3, <2>5 DEF IInv, TypeOK, Finish
  <2>7. \A k \in Hosts : Released(k) => Released(k)'
    BY <1>3, <2>3, <2>4, <2>5, HostParts DEF Released, Finish
  <2> QED
    BY <1>3, <2>3, <2>6, <2>7, Outside DEF Finish
<1> QED
  BY <1>1, <1>2, <1>3

LEMMA LeaseExpiresStep ==
    ASSUME IInv, NEW s \in Slots, LeaseExpires(s) PROVE IInv' /\ Steady
<1>1. NoRun \in Leases /\ \A k \in Hosts : NoRun # [host |-> k, raced |-> FALSE]
  BY HostParts DEF NoRun, Leases
<1>2. run' \in [Slots -> Leases] /\ \A r \in Slots : run'[r] = run[r] \/ run'[r] = NoRun
  BY <1>1 DEF LeaseExpires, IInv, TypeOK
<1>3. TypeOK'
  BY <1>2 DEF IInv, TypeOK, LeaseExpires, OnlyWork
<1>4. \A k \in Hosts : Released(k) => Released(k)'
  BY <1>1, <1>2, HostParts DEF Released, LeaseExpires, OnlyWork
<1> QED
  BY <1>3, <1>4, Outside DEF LeaseExpires, OnlyWork

-----------------------------------------------------------------------------
(* Beginnings and ends of a pass.                                          *)

LEMMA IdleType ==
    /\ IdlePass \in Passes /\ IdlePass.pc = "idle" /\ IdlePass.why = "none" /\ ~ IdlePass.fleet
  BY DEF IdlePass, Passes

LEMMA DrainingType ==
    ASSUME NEW why \in {"excess", "cleanup", "force", "failed"}, NEW slots, NEW byFleet \in BOOLEAN
    PROVE  /\ Draining(why, slots, byFleet) \in Passes
           /\ Draining(why, slots, byFleet).pc = "drain"
           /\ Draining(why, slots, byFleet).why = why
           /\ Draining(why, slots, byFleet).fleet = byFleet
<1>1. {h \in Discovered : Slot(h) \in slots} \in SUBSET Hosts
      /\ {h \in Discovered : Slot(h) \notin slots} \in SUBSET Hosts
  BY DEF Discovered
<1> QED
  BY <1>1, IdleType DEF Draining, Passes, IdlePass

\* A step of a pass that leaves the machines alone.
LEMMA FilesStep ==
    ASSUME IInv, TypeOK', TargetOK', StaleOK', ClosedOK', BreakerOK', UNCHANGED cloud,
           op.phase \in Closing /\ pass.why # "excess" => op'.phase \in Closing
    PROVE  IInv' /\ Steady
  BY DEF IInv, Steady, DrainedStep, ClosedStep

\* ... and is not between two steps of a termination.
LEMMA PlainStep ==
    ASSUME IInv, TypeOK', ClosedOK', BreakerOK', UNCHANGED cloud,
           pass'.pc \notin {"destroy", "retired", "reclaim", "rotate", "sort"},
           op.phase \in Closing /\ pass.why # "excess" => op'.phase \in Closing
    PROVE  IInv' /\ Steady
<1>1. TargetOK' /\ StaleOK'
  BY DEF TargetOK, StaleOK
<1> QED
  BY <1>1, FilesStep

LEMMA BeginCleanupStep ==
    ASSUME IInv, NEW safe \in BOOLEAN, NEW byFleet \in BOOLEAN, BeginCleanup(safe, byFleet),
           byFleet => ~ fleet.breaker,
           UNCHANGED <<cloud, fence, rec, gens, cred, fleet, world>>, left' = left \/ Commanded
    PROVE  IInv' /\ Steady
<1>1. PICK why \in {"cleanup", "force"} : pass' = Draining(why, Slots, byFleet)
  BY DEF BeginCleanup
<1>2. pass' \in Passes /\ pass'.pc = "drain" /\ pass'.why = why /\ pass'.fleet = byFleet
  BY <1>1, DrainingType
<1>3. op' = [desired |-> 0, phase |-> "cleaning"]
  BY DEF BeginCleanup
<1>4. TypeOK'
  BY <1>2, <1>3, PoolAssumption DEF IInv, TypeOK, world, Commanded, Closing
<1>5. ClosedOK' /\ BreakerOK'
  BY <1>2 DEF IInv, ClosedOK, BreakerOK
<1> QED
  BY <1>2, <1>3, <1>4, <1>5, PlainStep DEF Closing

LEMMA FleetPassStep ==
    ASSUME IInv, FleetPass PROVE IInv' /\ Steady
<1>1. CASE BoundedDesired = 0
  BY <1>1, BeginCleanupStep DEF FleetPass
<1>2. CASE BoundedDesired # 0
  <2>1. op' = [op EXCEPT !.desired = BoundedDesired] /\ BoundedDesired \in 0..N
    BY <1>2, PoolAssumption DEF FleetPass, BoundedDesired, IInv, TypeOK
  <2>2. /\ pass' \in Passes /\ pass'.fleet = TRUE
        /\ pass'.pc = "start" \/ (pass'.pc = "drain" /\ pass'.why = "excess")
    <3>1. pass' = Draining("excess", BoundedDesired..(N - 1), TRUE)
          \/ pass' = [IdlePass EXCEPT !.pc = "start", !.fleet = TRUE]
      BY <1>2 DEF FleetPass
    <3>2. CASE pass' = Draining("excess", BoundedDesired..(N - 1), TRUE)
      BY <3>2, DrainingType
    <3>3. CASE pass' = [IdlePass EXCEPT !.pc = "start", !.fleet = TRUE]
      BY <3>3, IdleType DEF Passes
    <3> QED
      BY <3>1, <3>2, <3>3
  <2>3. TypeOK'
    BY <2>1, <2>2 DEF FleetPass, world, IInv, TypeOK
  <2>4. op'.phase = op.phase
    BY <2>1 DEF IInv, TypeOK
  <2>5. ClosedOK' /\ BreakerOK'
    BY <2>2 DEF FleetPass, IInv, ClosedOK, BreakerOK
  <2> QED
    BY <2>2, <2>3, <2>4, <2>5, PlainStep DEF FleetPass
<1> QED
  BY <1>1, <1>2

LEMMA CommandSteps ==
    ASSUME IInv, ContinueCommand \/ Resume \/ (\E safe \in BOOLEAN : CleanupCommand(safe))
                 \/ (\E t \in left.targets : Configure(t))
    PROVE  IInv' /\ Steady
<1>1. CASE ContinueCommand
  <2>1. pass' \in Passes /\ pass'.pc = "start" /\ ~ pass'.fleet
    BY <1>1, IdleType DEF ContinueCommand, Passes
  <2>2. TypeOK' /\ ClosedOK' /\ BreakerOK'
    BY <1>1, <2>1 DEF ContinueCommand, Commanded, world, IInv, TypeOK, ClosedOK, BreakerOK
  <2> QED
    BY <1>1, <2>1, <2>2, PlainStep DEF ContinueCommand
<1>2. CASE \E safe \in BOOLEAN : CleanupCommand(safe)
  BY <1>2, BeginCleanupStep DEF CleanupCommand
<1>3. CASE Resume
  <2>0. Threshold \in Nat /\ 0 \in 0..Threshold /\ 0 < Threshold
    BY PoolAssumption
  <2>a. fleet' \in [target : Nat, attempts : 0..Threshold, breaker : BOOLEAN]
    BY <1>3, <2>0 DEF Resume, IInv, TypeOK
  <2>b. pass' = pass /\ ~ fleet'.breaker /\ fleet'.attempts = 0
    BY <1>3 DEF Resume, IInv, TypeOK
  <2>c. BreakerOK'
    BY <2>0, <2>b DEF BreakerOK
  <2>1. TypeOK' /\ BreakerOK'
    BY <1>3, <2>a, <2>c DEF Resume, Commanded, world, IInv, TypeOK
  <2> QED
    BY <1>3, <2>1, FilesStep DEF Resume, world, IInv, TargetOK, Released, StaleOK, ClosedOK
<1>4. CASE \E t \in left.targets : Configure(t)
  <2>1. PICK t \in left.targets : Configure(t)
    BY <1>4
  <2>2. t \in Nat
    BY DEF IInv, TypeOK
  <2>3. TypeOK' /\ BreakerOK'
    BY <2>1, <2>2 DEF Configure, Commanded, world, IInv, TypeOK, BreakerOK
  <2> QED
    BY <2>1, <2>3, FilesStep DEF Configure, world, IInv, TargetOK, Released, StaleOK, ClosedOK
<1> QED
  BY <1>1, <1>2, <1>3, <1>4

\* What the breaker counts stays below its threshold until it trips.
LEMMA SetbackType ==
    ASSUME IInv, ~ fleet.breaker
    PROVE  /\ Setback(fleet) \in [target : Nat, attempts : 0..Threshold, breaker : BOOLEAN]
           /\ ~ Setback(fleet).breaker => Setback(fleet).attempts < Threshold
<1>1. Threshold \in Nat /\ fleet.attempts \in Nat /\ fleet.attempts < Threshold
  BY PoolAssumption DEF IInv, TypeOK, BreakerOK
<1>2. PICK n \in 0..Threshold : n = fleet.attempts + 1
  BY <1>1
<1>3. CASE n >= Threshold
  <2>1. Setback(fleet) = [fleet EXCEPT !.attempts = n, !.breaker = TRUE]
    BY <1>2, <1>3 DEF Setback
  <2> QED
    BY <2>1 DEF IInv, TypeOK
<1>4. CASE ~ (n >= Threshold)
  <2>0. (fleet.attempts + 1 >= Threshold) = FALSE
    BY <1>1, <1>2, <1>4
  <2>1. Setback(fleet) = [fleet EXCEPT !.attempts = n, !.breaker = FALSE]
    BY <1>2, <2>0, Zenon DEF Setback
  <2>2. n < Threshold
    BY <1>1, <1>4
  <2> QED
    BY <2>1, <2>2 DEF IInv, TypeOK
<1> QED
  BY <1>3, <1>4

FleetKept ==
    /\ fleet' \in [target : Nat, attempts : 0..Threshold, breaker : BOOLEAN]
    /\ ~ fleet'.breaker => fleet'.attempts < Threshold

LEMMA ReportStep ==
    ASSUME IInv, NEW d, NEW phase, NEW kept, NEW wait, NEW ended, NEW lost, NEW failed,
           Report(d, phase, kept, wait, ended, lost, failed)
    PROVE  FleetKept /\ fence' \in [Hosts -> {"none", "op", "notice"}]
<1>1. CASE pass.fleet
  <2>1. ~ fleet.breaker
    BY <1>1 DEF IInv, BreakerOK
  <2>2. fleet' = Setback(fleet) \/ fleet' = [fleet EXCEPT !.attempts = 0]
    BY <1>1 DEF Report
  <2>3. FleetKept
    BY <2>1, <2>2, SetbackType, PoolAssumption DEF FleetKept, IInv, TypeOK
  <2>4. fence' = FenceAll(kept \ lost, wait, ended, phase \in Closing)
    BY <1>1 DEF Report
  <2>5. \A h \in Hosts : Fenced(fence, h, "op")[h] \in {"none", "op", "notice"}
    BY DEF Fenced, IInv, TypeOK
  <2> QED
    BY <2>3, <2>4, <2>5 DEF FenceAll, IInv, TypeOK
<1>2. CASE ~ pass.fleet
  BY <1>2 DEF Report, FleetKept, IInv, TypeOK, BreakerOK
<1> QED
  BY <1>1, <1>2

\* The pass is over: nothing of it is left.
LEMMA Over ==
    ASSUME IInv, TypeOK', FleetKept, pass' = IdlePass, UNCHANGED cloud,
           op.phase \in Closing /\ pass.why # "excess" => op'.phase \in Closing
    PROVE  IInv' /\ Steady
<1>1. ClosedOK' /\ BreakerOK'
  BY IdleType DEF ClosedOK, BreakerOK, FleetKept
<1> QED
  BY <1>1, IdleType, PlainStep

LEMMA AbortStep ==
    ASSUME IInv, Abort, UNCHANGED <<cloud, fence, rec, gens, op, cred, world>>
    PROVE  IInv' /\ Steady
<1>1. FleetKept
  BY SetbackType DEF Abort, FleetKept, IInv, TypeOK, BreakerOK
<1>2. TypeOK'
  BY <1>1, IdleType DEF Abort, Faulty, FleetKept, world, IInv, TypeOK
<1> QED
  BY <1>1, <1>2, Over DEF Abort

LEMMA KillStep ==
    ASSUME IInv, Kill PROVE IInv' /\ Steady
<1>1. FleetKept
  BY DEF Kill, FleetKept, IInv, TypeOK, BreakerOK
<1>2. TypeOK'
  BY IdleType DEF Kill, Faulty, world, IInv, TypeOK
<1> QED
  BY <1>1, <1>2, Over DEF Kill

-----------------------------------------------------------------------------
(* Draining.                                                               *)

\* One machine is told to end; the pass goes on as planned.
LEMMA RetireStep ==
    ASSUME IInv, NEW h \in Hosts, NEW p \in Passes, Retire(h, p)
    PROVE  /\ cloud' \in [Hosts -> Machines] /\ cloud'[h].st # "up"
           /\ \A k \in Hosts : k # h => cloud'[k] = cloud[k]
           /\ pass' \in Passes /\ pass'.pc = p.pc /\ pass'.why = p.why /\ pass'.fleet = p.fleet
           /\ pass'.todo = p.todo /\ pass'.at = p.at
<1>0. cloud \in [Hosts -> Machines]
  BY DEF IInv, TypeOK
<1>1. PICK confirmed \in BOOLEAN :
        /\ cloud' = [cloud EXCEPT ![h] = IF confirmed THEN Absent ELSE [cloud[h] EXCEPT !.st = "ending"]]
        /\ pass' = IF confirmed THEN [p EXCEPT !.ended = @ \cup {h}] ELSE [p EXCEPT !.wait = @ \cup {h}]
  BY DEF Retire
<1>2. Absent \in Machines /\ Absent.st # "up"
  BY DEF Absent, Machines
<1>3. [cloud[h] EXCEPT !.st = "ending"] \in Machines /\ [cloud[h] EXCEPT !.st = "ending"].st # "up"
  BY <1>0 DEF Machines
<1>4. PICK m \in Machines : m.st # "up" /\ cloud' = [cloud EXCEPT ![h] = m]
  BY <1>1, <1>2, <1>3
<1>5. PICK E \in SUBSET Hosts, W \in SUBSET Hosts : E = p.ended \cup {h} /\ W = p.wait \cup {h}
  BY DEF Passes
<1>6. /\ cloud' \in [Hosts -> Machines] /\ cloud'[h].st # "up"
      /\ \A k \in Hosts : k # h => cloud'[k] = cloud[k]
  BY <1>0, <1>4
<1>7. CASE pass' = [p EXCEPT !.ended = E]
  <2>1. /\ pass' \in Passes /\ pass'.pc = p.pc /\ pass'.why = p.why /\ pass'.fleet = p.fleet
        /\ pass'.todo = p.todo /\ pass'.at = p.at
    BY <1>7 DEF Passes
  <2> QED
    BY <1>6, <2>1
<1>8. CASE pass' = [p EXCEPT !.wait = W]
  <2>1. /\ pass' \in Passes /\ pass'.pc = p.pc /\ pass'.why = p.why /\ pass'.fleet = p.fleet
        /\ pass'.todo = p.todo /\ pass'.at = p.at
    BY <1>8 DEF Passes
  <2> QED
    BY <1>6, <2>1
<1> QED
  BY <1>1, <1>5, <1>7, <1>8

\* A step of a pass that retires a host nothing runs on, or that was superseded.
LEMMA EndMachine ==
    ASSUME IInv, NEW h \in Hosts, NEW p \in Passes, Retire(h, p), p.fleet = pass.fleet,
           UNCHANGED <<fence, rec, gens, op, cred, fleet, world, left>>,
           pass.why = "force" \/ pass.pc = "launch" \/ Released(h) \/ h[2] # gens[Slot(h)],
           op.phase \in Closing => pass.pc \in {"destroy"} /\ p.pc = "retired" /\ p.why = pass.why,
           p.pc \notin {"destroy", "reclaim"},
           p.pc \in {"retired", "rotate"} => p.at \in Hosts,
           p.pc = "sort" => \A k \in p.todo : k[2] # gens[Slot(k)],
           p.pc = "rotate" => p.todo = {}
    PROVE  IInv' /\ Steady
<1>1. /\ cloud' \in [Hosts -> Machines] /\ cloud'[h].st # "up"
      /\ \A k \in Hosts : k # h => cloud'[k] = cloud[k]
      /\ pass' \in Passes /\ pass'.pc = p.pc /\ pass'.why = p.why /\ pass'.fleet = p.fleet
      /\ pass'.todo = p.todo /\ pass'.at = p.at
  BY RetireStep
<1>2. TypeOK'
  BY <1>1 DEF IInv, TypeOK, world
<1>3. TargetOK' /\ StaleOK' /\ ClosedOK' /\ BreakerOK'
  BY <1>1 DEF IInv, TargetOK, StaleOK, ClosedOK, BreakerOK
<1>4. DrainedStep
  BY <1>1 DEF DrainedStep, Released
<1>5. ClosedStep
  BY <1>1 DEF ClosedStep
<1> QED
  BY <1>2, <1>3, <1>4, <1>5 DEF IInv, Steady

LEMMA DrainCheckStep ==
    ASSUME IInv, DrainCheck PROVE IInv' /\ Steady
<1>0. pass \in Passes /\ pass.pc = "drain" /\ pass.todo \subseteq Hosts
  BY DEF DrainCheck, IInv, TypeOK, Passes
<1>1. PICK h \in Hosts : h = First(pass.todo)
  BY <1>0, FirstIn DEF DrainCheck
<1>2. CASE pass.why = "force"
  <2>1. pass' = [pass EXCEPT !.pc = "destroy", !.at = h] /\ fence' = fence
    BY <1>1, <1>2 DEF DrainCheck
  <2>2. pass' \in Passes /\ pass'.pc = "destroy" /\ pass'.at = h /\ pass'.why = pass.why
        /\ pass'.fleet = pass.fleet
    BY <1>0, <2>1 DEF Passes
  <2>3. TypeOK'
    BY <2>1, <2>2 DEF IInv, TypeOK, DrainCheck, world
  <2>4. TargetOK' /\ StaleOK' /\ ClosedOK' /\ BreakerOK'
    BY <1>0, <1>2, <2>2 DEF TargetOK, StaleOK, ClosedOK, BreakerOK, IInv, DrainCheck
  <2> QED
    BY <2>3, <2>4, FilesStep DEF DrainCheck
<1>3. CASE pass.why # "force"
  <2>1. PICK f : f = Fenced(fence, h, "op")
    OBVIOUS
  <2>2. f \in [Hosts -> {"none", "op", "notice"}] /\ f[h] # "none"
    BY <2>1 DEF Fenced, IInv, TypeOK
  <2>3. fence' = f
    BY <1>1, <1>3, <2>1 DEF DrainCheck
  <2>4. CASE Drained(f, h)
    <3>1. pass' = [pass EXCEPT !.pc = "destroy", !.at = h]
      BY <1>1, <1>3, <2>1, <2>4 DEF DrainCheck
    <3>2. pass' \in Passes /\ pass'.pc = "destroy" /\ pass'.at = h /\ pass'.why = pass.why
          /\ pass'.fleet = pass.fleet
      BY <1>0, <3>1 DEF Passes
    <3>3. Released(h)'
      <4>1. NoRun # [host |-> h, raced |-> FALSE]
        BY HostParts DEF NoRun
      <4> QED
        BY <2>4, <4>1 DEF Drained, Released, DrainCheck, world
    <3>4. TypeOK'
      BY <2>2, <2>3, <3>2 DEF IInv, TypeOK, DrainCheck, world
    <3>5. TargetOK'
      BY <2>2, <2>3, <3>2, <3>3 DEF TargetOK
    <3>6. StaleOK' /\ ClosedOK' /\ BreakerOK'
      BY <1>0, <3>2 DEF StaleOK, ClosedOK, BreakerOK, IInv, DrainCheck
    <3> QED
      BY <3>4, <3>5, <3>6, FilesStep DEF DrainCheck
  <2>5. CASE ~ Drained(f, h)
    <3>1. pass' = [pass EXCEPT !.todo = @ \ {h}, !.wait = @ \cup {h}]
      BY <1>1, <1>3, <2>1, <2>5 DEF DrainCheck
    <3>2. pass' \in Passes /\ pass'.pc = "drain" /\ pass'.why = pass.why /\ pass'.fleet = pass.fleet
      BY <1>0, <3>1 DEF Passes
    <3>3. TypeOK'
      BY <2>2, <2>3, <3>2 DEF IInv, TypeOK, DrainCheck, world
    <3>4. ClosedOK' /\ BreakerOK'
      BY <1>0, <3>2 DEF ClosedOK, BreakerOK, IInv, DrainCheck
    <3> QED
      BY <3>2, <3>3, <3>4, PlainStep DEF DrainCheck
  <2> QED
    BY <2>4, <2>5
<1> QED
  BY <1>2, <1>3

LEMMA DrainDestroyStep ==
    ASSUME IInv, DrainDestroy PROVE IInv' /\ Steady
<1>1. CASE Abort /\ UNCHANGED cloud
  BY <1>1, AbortStep DEF DrainDestroy
<1>2. CASE Retire(pass.at, [pass EXCEPT !.pc = "retired"]) /\ UNCHANGED <<fleet, left>>
  <2>1. PICK p \in Passes : p = [pass EXCEPT !.pc = "retired"]
    BY DEF IInv, TypeOK, Passes
  <2>2. p.pc = "retired" /\ p.why = pass.why /\ p.fleet = pass.fleet /\ p.at = pass.at
    BY <2>1 DEF IInv, TypeOK, Passes
  <2>3. PICK h \in Hosts : h = pass.at /\ (pass.why = "force" \/ Released(h))
    BY DEF DrainDestroy, IInv, TargetOK
  <2>4. Retire(h, p)
    BY <1>2, <2>1, <2>3
  <2> QED
    BY <1>2, <2>2, <2>3, <2>4, EndMachine DEF DrainDestroy
<1> QED
  BY <1>1, <1>2 DEF DrainDestroy

LEMMA DrainClearStep ==
    ASSUME IInv, DrainClear PROVE IInv' /\ Steady
<1>1. pass' \in Passes /\ pass'.pc = "drain" /\ pass'.why = pass.why /\ pass'.fleet = pass.fleet
  BY DEF DrainClear, IInv, TypeOK, Passes
<1>2. TypeOK'
  BY <1>1 DEF DrainClear, IInv, TypeOK, world
<1>3. ClosedOK' /\ BreakerOK'
  BY <1>1 DEF DrainClear, IInv, ClosedOK, BreakerOK
<1> QED
  BY <1>1, <1>2, <1>3, PlainStep DEF DrainClear

LEMMA RevokeStep ==
    ASSUME IInv, NEW slots, Revoke(slots)
    PROVE  cred' \subseteq Slots /\ left' \in [faults : Nat, commands : Nat, claims : Nat,
                                               deadline : BOOLEAN, targets : SUBSET Nat]
  BY DEF Revoke, IInv, TypeOK

LEMMA DrainEndStep ==
    ASSUME IInv, DrainEnd PROVE IInv' /\ Steady
<1>0. pass \in Passes /\ pass.pc = "drain"
  BY DEF DrainEnd, IInv, TypeOK
<1>1. rec' \in [kept : SUBSET Hosts, wait : SUBSET Hosts]
  BY <1>0 DEF DrainEnd, Passes
<1>2. CASE pass.why = "failed"
  <2>1. pass' = [pass EXCEPT !.pc = "enroll"] /\ UNCHANGED <<fence, op, cred, fleet, left>>
    BY <1>2 DEF DrainEnd
  <2>2. pass' \in Passes /\ pass'.pc = "enroll" /\ pass'.fleet = pass.fleet
    BY <1>0, <2>1 DEF Passes
  <2>3. TypeOK'
    BY <1>1, <2>1, <2>2 DEF DrainEnd, IInv, TypeOK, world
  <2>4. ClosedOK' /\ BreakerOK'
    BY <1>0, <1>2, <2>1, <2>2 DEF IInv, ClosedOK, BreakerOK
  <2> QED
    BY <2>1, <2>2, <2>3, <2>4, PlainStep DEF DrainEnd
<1>3. CASE pass.why = "excess" /\ pass.wait = {}
  <2>1. pass' = [pass EXCEPT !.pc = "start"] /\ UNCHANGED <<fence, op, fleet>>
    BY <1>3 DEF DrainEnd
  <2>2. pass' \in Passes /\ pass'.pc = "start" /\ pass'.fleet = pass.fleet
    BY <1>0, <2>1 DEF Passes
  <2>3. TypeOK'
    BY <1>1, <1>3, <2>1, <2>2, RevokeStep DEF DrainEnd, IInv, TypeOK, world
  <2>4. ClosedOK' /\ BreakerOK'
    BY <2>1, <2>2 DEF IInv, ClosedOK, BreakerOK
  <2> QED
    BY <2>1, <2>2, <2>3, <2>4, PlainStep DEF DrainEnd
<1>4. CASE pass.why = "excess" /\ pass.wait # {}
  <2>1. /\ Revoke((op.desired..(N - 1)) \ WaitingSlots)
        /\ op' = [op EXCEPT !.phase = "draining"] /\ pass' = IdlePass
        /\ Report(op.desired, "draining", pass.kept, pass.wait, pass.ended, {}, {})
    BY <1>4 DEF DrainEnd
  <2>2. FleetKept /\ fence' \in [Hosts -> {"none", "op", "notice"}]
    BY <2>1, ReportStep
  <2>3. op' \in [desired : 0..N, phase : {"admitted", "converging", "draining", "awaiting",
                                          "running"} \cup Closing]
    BY <2>1 DEF IInv, TypeOK
  <2>4. TypeOK'
    BY <1>1, <2>1, <2>2, <2>3, RevokeStep, IdleType DEF DrainEnd, IInv, TypeOK, world, FleetKept
  <2> QED
    BY <1>4, <2>1, <2>2, <2>4, Over DEF DrainEnd
<1>5. CASE pass.why \in {"cleanup", "force"}
  <2>1. /\ Revoke(Slots \ WaitingSlots) /\ pass' = IdlePass
        /\ Report(0, "cleaning", {}, pass.wait, pass.ended, {}, {})
    BY <1>5 DEF DrainEnd
  <2>2. PICK phase \in Closing : op' = [op EXCEPT !.phase = phase]
    BY <1>5 DEF DrainEnd, Closing
  <2>3. FleetKept /\ fence' \in [Hosts -> {"none", "op", "notice"}]
    BY <2>1, ReportStep
  <2>4. op' \in [desired : 0..N, phase : {"admitted", "converging", "draining", "awaiting",
                                          "running"} \cup Closing]
        /\ op'.phase \in Closing
    BY <2>2 DEF IInv, TypeOK
  <2>5. TypeOK'
    BY <1>1, <2>1, <2>3, <2>4, RevokeStep, IdleType DEF DrainEnd, IInv, TypeOK, world, FleetKept
  <2> QED
    BY <2>1, <2>3, <2>4, <2>5, Over DEF DrainEnd
<1> QED
  BY <1>2, <1>3, <1>4, <1>5 DEF DrainEnd

-----------------------------------------------------------------------------
(* Converging.                                                             *)

LEMMA ConvergeStartStep ==
    ASSUME IInv, ConvergeStart PROVE IInv' /\ Steady
<1>0. pass \in Passes /\ pass.fleet \in BOOLEAN /\ (pass.fleet => ~ fleet.breaker)
  BY DEF IInv, TypeOK, Passes, BreakerOK
<1>1. CASE late \/ op.phase \in Closing
  <2>1. BeginCleanup(TRUE, pass.fleet)
    BY <1>1 DEF ConvergeStart
  <2> QED
    BY <1>0, <2>1, BeginCleanupStep DEF ConvergeStart
<1>2. CASE ~ (late \/ op.phase \in Closing)
  <2>1. op' = [op EXCEPT !.phase = "converging"]
    BY <1>2 DEF ConvergeStart
  <2>2. op' \in [desired : 0..N, phase : {"admitted", "converging", "draining", "awaiting",
                                          "running"} \cup Closing]
        /\ op'.phase \notin Closing
    BY <2>1 DEF IInv, TypeOK, Closing
  <2>3. pass' \in Passes /\ pass'.pc \in {"enroll", "drain"} /\ pass'.fleet = pass.fleet
    <3>1. pass' = [IdlePass EXCEPT !.pc = "enroll", !.fleet = pass.fleet]
          \/ \E slots : pass' = Draining("failed", slots, pass.fleet)
      BY <1>2 DEF ConvergeStart
    <3>2. CASE pass' = [IdlePass EXCEPT !.pc = "enroll", !.fleet = pass.fleet]
      BY <1>0, <3>2, IdleType DEF Passes
    <3>3. CASE \E slots : pass' = Draining("failed", slots, pass.fleet)
      BY <1>0, <3>3, DrainingType
    <3> QED
      BY <3>1, <3>2, <3>3
  <2>4. TypeOK'
    BY <2>2, <2>3 DEF ConvergeStart, IInv, TypeOK, world
  <2>5. ClosedOK' /\ BreakerOK'
    BY <2>2, <2>3 DEF ConvergeStart, IInv, ClosedOK, BreakerOK
  <2> QED
    BY <1>2, <2>3, <2>4, <2>5, PlainStep DEF ConvergeStart
<1> QED
  BY <1>1, <1>2

LEMMA EnrollStep ==
    ASSUME IInv, Enroll PROVE IInv' /\ Steady
<1>0. pass \in Passes /\ pass.pc = "enroll" /\ op.desired \in 0..N /\ pass.fleet \in BOOLEAN
  BY DEF Enroll, IInv, TypeOK, Passes
<1> DEFINE empty == {s \in 0..(op.desired - 1) : \A h \in Discovered : Slot(h) # s}
<1>1. empty \subseteq Slots
  BY <1>0, PoolAssumption DEF Slots
<1>2. PICK miss \in SUBSET empty :
        /\ miss # {} => left.faults > 0
        /\ left' = IF miss = {} THEN left ELSE [left EXCEPT !.faults = @ - 1]
        /\ cred' = cred \cup (empty \ miss)
        /\ pass' = [IdlePass EXCEPT !.pc = "look", !.miss = miss, !.fleet = pass.fleet]
  BY DEF Enroll
<1> HIDE DEF empty
<1>3. pass' \in Passes /\ pass'.pc = "look" /\ pass'.fleet = pass.fleet
  BY <1>0, <1>1, <1>2, IdleType DEF Passes
<1>4. TypeOK'
  BY <1>1, <1>2, <1>3 DEF Enroll, IInv, TypeOK, world
<1>5. ClosedOK' /\ BreakerOK'
  BY <1>0, <1>3 DEF Enroll, IInv, ClosedOK, BreakerOK
<1> QED
  BY <1>3, <1>4, <1>5, PlainStep DEF Enroll

LEMMA LookStep ==
    ASSUME IInv, Look PROVE IInv' /\ Steady
<1>0. pass \in Passes /\ pass.pc = "look"
  BY DEF Look, IInv, TypeOK
<1>1. PICK g \in [Slots -> 0..MaxGen] :
        /\ g = [s \in Slots |-> IF s \in Vanished THEN gens[s] + 1 ELSE gens[s]] /\ gens' = g
  BY DEF Look
<1> DEFINE current == {h \in Discovered : h[2] = g[Slot(h)]}
           ready == {h \in current : StateOf(h) # "interrupted"}
           spot == {h \in current : StateOf(h) = "interrupted"}
<1>2. current \subseteq Hosts /\ ready \in SUBSET Hosts /\ spot \in SUBSET Hosts
      /\ Discovered \ current \in SUBSET Hosts /\ \A h \in Discovered \ current : h[2] # g[Slot(h)]
  BY DEF Discovered
<1>3. PICK act \in InOrder(ready) :
        pass' = [pass EXCEPT !.pc = "sort", !.todo = Discovered \ current, !.act = act, !.spot = spot]
  BY <1>1 DEF Look
<1>4. act \in Seq(Hosts)
  BY <1>2, <1>3, InOrderType
<1> HIDE DEF current, ready, spot
<1>5. pass' \in Passes /\ pass'.pc = "sort" /\ pass'.fleet = pass.fleet /\ pass'.todo = Discovered \ current
  BY <1>0, <1>2, <1>3, <1>4 DEF Passes
<1>6. TypeOK'
  BY <1>1, <1>5 DEF Look, IInv, TypeOK, world
<1>7. TargetOK' /\ StaleOK' /\ ClosedOK' /\ BreakerOK'
  BY <1>0, <1>1, <1>2, <1>5 DEF Look, IInv, TargetOK, StaleOK, ClosedOK, BreakerOK
<1> QED
  BY <1>6, <1>7, FilesStep DEF Look

LEMMA StaleStepStep ==
    ASSUME IInv, StaleStep PROVE IInv' /\ Steady
<1>0. pass \in Passes /\ pass.pc = "sort" /\ pass.todo \subseteq Hosts
  BY DEF StaleStep, IInv, TypeOK, Passes
<1>1. PICK h \in Hosts : h = First(pass.todo) /\ h \in pass.todo
  BY <1>0, FirstIn DEF StaleStep
<1>2. CASE Abort /\ UNCHANGED cloud
  BY <1>2, AbortStep DEF StaleStep
<1>3. CASE Retire(h, [pass EXCEPT !.todo = @ \ {h}]) /\ UNCHANGED <<fleet, left>>
  <2>1. PICK p \in Passes : p = [pass EXCEPT !.todo = @ \ {h}]
    BY <1>0 DEF Passes
  <2>2. p.pc = "sort" /\ p.fleet = pass.fleet /\ p.todo = pass.todo \ {h}
    BY <1>0, <2>1 DEF Passes
  <2>3. op.phase \notin Closing /\ \A k \in pass.todo : k[2] # gens[Slot(k)]
    BY <1>0 DEF IInv, ClosedOK, StaleOK
  <2> QED
    BY <1>0, <1>1, <1>3, <2>1, <2>2, <2>3, EndMachine DEF StaleStep
<1> QED
  BY <1>1, <1>2, <1>3 DEF StaleStep

LEMMA SpotCheckStep ==
    ASSUME IInv, SpotCheck PROVE IInv' /\ Steady
<1>0. pass \in Passes /\ pass.pc = "sort" /\ pass.todo = {} /\ pass.spot \subseteq Hosts
  BY DEF SpotCheck, IInv, TypeOK, Passes
<1>1. PICK h \in Hosts : h = First(pass.spot)
  BY <1>0, FirstIn DEF SpotCheck
<1>2. PICK f : f = Fenced(fence, h, "notice")
  OBVIOUS
<1>3. f \in [Hosts -> {"none", "op", "notice"}] /\ f[h] # "none" /\ fence' = f
  BY <1>1, <1>2 DEF Fenced, SpotCheck, IInv, TypeOK
<1>4. op.phase \notin Closing /\ op' = op
  BY <1>0 DEF IInv, ClosedOK, SpotCheck
<1>5. CASE Drained(f, h)
  <2>1. pass' = [pass EXCEPT !.pc = "reclaim", !.at = h]
    BY <1>1, <1>2, <1>5 DEF SpotCheck
  <2>2. pass' \in Passes /\ pass'.pc = "reclaim" /\ pass'.at = h /\ pass'.todo = {}
        /\ pass'.fleet = pass.fleet
    BY <1>0, <2>1 DEF Passes
  <2>3. Released(h)'
    <3>1. NoRun # [host |-> h, raced |-> FALSE]
      BY HostParts DEF NoRun
    <3> QED
      BY <1>5, <3>1 DEF Drained, Released, SpotCheck, world
  <2>4. TypeOK'
    BY <1>3, <2>2 DEF IInv, TypeOK, SpotCheck, world
  <2>5. TargetOK' /\ StaleOK'
    BY <1>3, <2>2, <2>3 DEF TargetOK, StaleOK
  <2>6. ClosedOK' /\ BreakerOK'
    BY <1>4, <2>2 DEF ClosedOK, BreakerOK, IInv, SpotCheck
  <2> QED
    BY <1>4, <2>4, <2>5, <2>6, FilesStep DEF SpotCheck
<1>6. CASE ~ Drained(f, h)
  <2>1. pass' = [pass EXCEPT !.spot = @ \ {h}, !.act = Append(@, h), !.kept = @ \cup {h}]
    BY <1>1, <1>2, <1>6 DEF SpotCheck
  <2>2. Append(pass.act, h) \in Seq(Hosts)
    BY <1>0 DEF Passes
  <2>3. pass' \in Passes /\ pass'.pc = "sort" /\ pass'.todo = {} /\ pass'.fleet = pass.fleet
    BY <1>0, <2>1, <2>2 DEF Passes
  <2>4. TypeOK'
    BY <1>3, <2>3 DEF IInv, TypeOK, SpotCheck, world
  <2>5. TargetOK' /\ StaleOK'
    BY <2>3 DEF TargetOK, StaleOK
  <2>6. ClosedOK' /\ BreakerOK'
    BY <1>4, <2>3 DEF ClosedOK, BreakerOK, IInv, SpotCheck
  <2> QED
    BY <1>4, <2>4, <2>5, <2>6, FilesStep DEF SpotCheck
<1> QED
  BY <1>5, <1>6

LEMMA SpotDestroyStep ==
    ASSUME IInv, SpotDestroy PROVE IInv' /\ Steady
<1>1. CASE Abort /\ UNCHANGED cloud
  BY <1>1, AbortStep DEF SpotDestroy
<1>2. CASE Retire(pass.at, [pass EXCEPT !.pc = "rotate"]) /\ UNCHANGED <<fleet, left>>
  <2>0. pass.pc = "reclaim" /\ pass \in Passes /\ op.phase \notin Closing /\ pass.todo = {}
    BY DEF SpotDestroy, IInv, TypeOK, ClosedOK, StaleOK
  <2>1. PICK p \in Passes : p = [pass EXCEPT !.pc = "rotate"]
    BY <2>0 DEF Passes
  <2>2. p.pc = "rotate" /\ p.fleet = pass.fleet /\ p.at = pass.at /\ p.todo = {}
    BY <2>0, <2>1 DEF Passes
  <2>3. PICK h \in Hosts : h = pass.at /\ (pass.why = "force" \/ Released(h))
    BY <2>0 DEF IInv, TargetOK
  <2>4. Retire(h, p)
    BY <1>2, <2>1, <2>3
  <2> QED
    BY <1>2, <2>0, <2>2, <2>3, <2>4, EndMachine DEF SpotDestroy
<1> QED
  BY <1>1, <1>2 DEF SpotDestroy

LEMMA SpotRotateStep ==
    ASSUME IInv, SpotRotate PROVE IInv' /\ Steady
<1>0. pass \in Passes /\ pass.pc = "rotate" /\ pass.todo = {} /\ op.phase \notin Closing
      /\ pass.at \in Hosts
  BY DEF SpotRotate, IInv, TypeOK, ClosedOK, StaleOK, TargetOK
<1>1. Slot(pass.at) \in Slots
  BY <1>0, HostParts
<1>2. gens' \in [Slots -> 0..MaxGen]
  <2>1. gens[Slot(pass.at)] + 1 \in 0..MaxGen
    BY <1>1, PoolAssumption DEF SpotRotate, IInv, TypeOK
  <2> QED
    BY <1>1, <2>1 DEF SpotRotate, IInv, TypeOK
<1>3. pass' \in Passes /\ pass'.pc = "sort" /\ pass'.todo = {} /\ pass'.fleet = pass.fleet
  BY <1>0 DEF SpotRotate, Passes
<1>4. TypeOK'
  BY <1>2, <1>3 DEF SpotRotate, IInv, TypeOK, world
<1>5. TargetOK' /\ StaleOK' /\ ClosedOK' /\ BreakerOK'
  BY <1>0, <1>3 DEF SpotRotate, IInv, TargetOK, StaleOK, ClosedOK, BreakerOK
<1> QED
  BY <1>4, <1>5, FilesStep DEF SpotRotate

LEMMA PlanLaunchesStep ==
    ASSUME IInv, PlanLaunches PROVE IInv' /\ Steady
<1>0. pass \in Passes /\ pass.pc = "sort"
  BY DEF PlanLaunches, IInv, TypeOK
<1>1. {<<s, gens[s]>> : s \in Vacant \ pass.miss} \in SUBSET Hosts
  <2>1. Vacant \subseteq Slots
    BY DEF Vacant
  <2> QED
    BY <2>1 DEF Hosts, IInv, TypeOK
<1>2. pass' \in Passes /\ pass'.pc = "launch" /\ pass'.fleet = pass.fleet
  BY <1>0, <1>1 DEF PlanLaunches, Passes
<1>3. TypeOK'
  BY <1>2 DEF PlanLaunches, IInv, TypeOK, world
<1>4. ClosedOK' /\ BreakerOK'
  BY <1>0, <1>2 DEF PlanLaunches, IInv, ClosedOK, BreakerOK
<1> QED
  BY <1>2, <1>3, <1>4, PlainStep DEF PlanLaunches

\* Machines come up under an operation that is open.
LEMMA LaunchStep ==
    ASSUME IInv, Launch PROVE IInv' /\ Steady
<1>0. pass \in Passes /\ pass.pc = "launch" /\ pass.todo \subseteq Hosts /\ op.phase \notin Closing
  BY DEF Launch, IInv, TypeOK, Passes, ClosedOK
<1>1. PICK h \in Hosts : h = First(pass.todo)
  BY <1>0, FirstIn DEF Launch
<1>2. CASE Abort /\ UNCHANGED cloud
  BY <1>2, AbortStep DEF Launch
<1>3. ASSUME cloud' = cloud \/ \E vis \in {"hidden", "listed"} : cloud' = Launched(h, vis),
             pass' \in Passes, pass'.pc = "launch", pass'.fleet = pass.fleet,
             left' = left \/ Faulty, UNCHANGED <<fleet, fence, rec, gens, op, cred, world>>
      PROVE  IInv' /\ Steady
  <2>1. cloud' \in [Hosts -> Machines] /\ \A k \in Hosts : cloud[k].st = "up" => cloud'[k].st = "up"
    <3>1. \A vis \in {"hidden", "listed"} : [Absent EXCEPT !.st = "up", !.vis = vis] \in Machines
      BY DEF Absent, Machines
    <3>2. cloud \in [Hosts -> Machines]
      BY DEF IInv, TypeOK
    <3>3. CASE cloud' = cloud
      BY <3>2, <3>3
    <3>4. CASE \E vis \in {"hidden", "listed"} : cloud' = Launched(h, vis)
      BY <3>1, <3>2, <3>4 DEF Launched
    <3> QED
      BY <1>3, <3>3, <3>4
  <2>2. TypeOK'
    BY <1>3, <2>1 DEF IInv, TypeOK, Faulty, world
  <2>3. TargetOK' /\ StaleOK' /\ ClosedOK' /\ BreakerOK'
    BY <1>0, <1>3 DEF TargetOK, StaleOK, ClosedOK, BreakerOK, IInv
  <2>4. Steady
    BY <1>0, <2>1 DEF Steady, DrainedStep, ClosedStep
  <2> QED
    BY <2>2, <2>3, <2>4 DEF IInv
<1>5. Append(pass.act, h) \in Seq(Hosts) /\ pass.act \in Seq(Hosts)
      /\ pass.lost \in SUBSET Hosts /\ pass.failed \in SUBSET Hosts
  BY <1>0 DEF Passes
<1>6. CASE /\ pass' = [[pass EXCEPT !.act = Append(@, h)] EXCEPT !.todo = @ \ {h}]
           /\ cloud' = cloud \/ \E vis \in {"hidden", "listed"} : cloud' = Launched(h, vis)
           /\ UNCHANGED <<left, fleet>>
  <2>1. pass' \in Passes /\ pass'.pc = "launch" /\ pass'.fleet = pass.fleet
    BY <1>0, <1>5, <1>6 DEF Passes
  <2> QED
    BY <1>3, <1>6, <2>1 DEF Launch
<1>7. CASE /\ Faulty /\ cloud' \in {cloud, Launched(h, "hidden")}
           /\ \E bad \in {{}, {h}} :
                pass' = [[pass EXCEPT !.lost = @ \cup {h}, !.failed = @ \cup bad] EXCEPT !.todo = @ \ {h}]
           /\ UNCHANGED fleet
  <2>0. PICK lost \in SUBSET Hosts, failed \in SUBSET Hosts, todo \in SUBSET Hosts :
          pass' = [pass EXCEPT !.lost = lost, !.failed = failed, !.todo = todo]
    <3>1. PICK bad \in {{}, {h}} :
            pass' = [[pass EXCEPT !.lost = @ \cup {h}, !.failed = @ \cup bad] EXCEPT !.todo = @ \ {h}]
      BY <1>7
    <3>2. PICK lost \in SUBSET Hosts : lost = pass.lost \cup {h}
      BY <1>5
    <3>3. PICK failed \in SUBSET Hosts : failed = pass.failed \cup bad
      BY <1>5
    <3>4. PICK p \in Passes : p = [pass EXCEPT !.lost = lost, !.failed = failed]
      BY <1>0 DEF Passes
    <3>5. PICK todo \in SUBSET Hosts : todo = p.todo \ {h}
      BY DEF Passes
    <3>6. pass' = [p EXCEPT !.todo = todo]
      BY <3>1, <3>2, <3>3, <3>4, <3>5
    <3> QED
      BY <3>4, <3>6
  <2>1. pass' \in Passes /\ pass'.pc = "launch" /\ pass'.fleet = pass.fleet
    BY <1>0, <2>0 DEF Passes
  <2> QED
    BY <1>3, <1>7, <2>1 DEF Launch
<1> QED
  BY <1>1, <1>2, <1>6, <1>7 DEF Launch

LEMMA ExcessStep ==
    ASSUME IInv, Excess PROVE IInv' /\ Steady
<1>0. pass \in Passes /\ pass.pc = "launch" /\ op.phase \notin Closing
      /\ pass.act \in Seq(Hosts) /\ Len(pass.act) \in Nat /\ Len(pass.act) > 0
  BY PoolAssumption DEF Excess, IInv, TypeOK, Passes, ClosedOK
<1>1. CASE Abort /\ UNCHANGED cloud
  BY <1>1, AbortStep DEF Excess
<1>2. CASE Retire(Last(pass.act), [pass EXCEPT !.act = Front(@)]) /\ UNCHANGED <<fleet, left>>
  <2>1. Last(pass.act) \in Hosts /\ Front(pass.act) \in Seq(Hosts)
    <3>1. Len(pass.act) \in 1..Len(pass.act) /\ Len(pass.act) - 1 \in Nat
      BY <1>0
    <3>2. \A i \in 1..Len(pass.act) : pass.act[i] \in Hosts
      BY <1>0
    <3>3. SubSeq(pass.act, 1, Len(pass.act) - 1) \in Seq(Hosts)
      BY <1>0, <3>1, SubSeqProperties
    <3> QED
      BY <3>1, <3>2, <3>3 DEF Last, Front
  <2>2. PICK p \in Passes : p = [pass EXCEPT !.act = Front(@)]
    BY <1>0, <2>1 DEF Passes
  <2>3. p.pc = "launch" /\ p.fleet = pass.fleet
    BY <1>0, <2>2 DEF Passes
  <2> QED
    BY <1>0, <1>2, <2>1, <2>2, <2>3, EndMachine DEF Excess
<1> QED
  BY <1>1, <1>2 DEF Excess

LEMMA RecordStep ==
    ASSUME IInv, Record PROVE IInv' /\ Steady
<1>0. pass \in Passes /\ pass.pc = "launch" /\ op.phase \notin Closing /\ Discovered \subseteq Hosts
  BY DEF Record, IInv, TypeOK, ClosedOK, Discovered
<1>1. rec' \in [kept : SUBSET Hosts, wait : SUBSET Hosts]
  BY <1>0 DEF Record, Passes
<1>2. \E d, phase, kept, wait, ended, lost, failed : Report(d, phase, kept, wait, ended, lost, failed)
  BY DEF Record
<1>3. FleetKept /\ fence' \in [Hosts -> {"none", "op", "notice"}]
  BY <1>2, ReportStep
<1>4. op' \in [desired : 0..N, phase : {"admitted", "converging", "draining", "awaiting",
                                        "running"} \cup Closing]
  BY DEF Record, IInv, TypeOK
<1>5. TypeOK'
  BY <1>1, <1>3, <1>4, IdleType DEF Record, IInv, TypeOK, FleetKept, world
<1> QED
  BY <1>0, <1>3, <1>5, Over DEF Record

-----------------------------------------------------------------------------
(* The theorems.                                                           *)

LEMMA InitInvariant == Init => IInv
<1> SUFFICES ASSUME Init PROVE IInv
  OBVIOUS
<1>1. Absent \in Machines /\ NoRun \in Leases
  BY DEF Absent, Machines, NoRun, Leases
<1>2. left \in [faults : Nat, commands : Nat, claims : Nat, deadline : BOOLEAN, targets : SUBSET Nat]
  BY PoolAssumption DEF Init
<1>a. 0 \in 0..Threshold /\ left.targets \subseteq Nat
  BY <1>2, PoolAssumption
<1>3. fleet \in [target : Nat, attempts : 0..Threshold, breaker : BOOLEAN]
      /\ fleet.attempts = 0 /\ fleet.breaker = FALSE
  BY <1>a DEF Init
<1>4. gens \in [Slots -> 0..MaxGen] /\ op \in [desired : 0..N, phase : {"admitted"}]
  BY PoolAssumption DEF Init
<1>5. TypeOK
  BY <1>1, <1>2, <1>3, <1>4, IdleType DEF Init, TypeOK
<1>6. TargetOK /\ StaleOK /\ ClosedOK
  BY IdleType DEF Init, TargetOK, StaleOK, ClosedOK
<1>7. BreakerOK
  BY <1>3, IdleType, PoolAssumption DEF Init, BreakerOK
<1> QED
  BY <1>5, <1>6, <1>7 DEF IInv

LEMMA StepInvariant == IInv /\ [Next]_vars => IInv' /\ (Steady \/ UNCHANGED vars)
<1> SUFFICES ASSUME IInv, [Next]_vars PROVE IInv' /\ (Steady \/ UNCHANGED vars)
  OBVIOUS
<1>1. CASE UNCHANGED vars
  BY <1>1 DEF vars, IInv, TypeOK, TargetOK, Released, StaleOK, ClosedOK, BreakerOK
<1>2. CASE FleetPass \/ Kill
  BY <1>2, FleetPassStep, KillStep
<1>3. CASE ContinueCommand \/ Resume \/ (\E safe \in BOOLEAN : CleanupCommand(safe))
           \/ (\E t \in left.targets : Configure(t))
  BY <1>3, CommandSteps
<1>4. CASE PassStep
  BY <1>4, DrainCheckStep, DrainDestroyStep, DrainClearStep, DrainEndStep, ConvergeStartStep,
     EnrollStep, LookStep, StaleStepStep, SpotCheckStep, SpotDestroyStep, SpotRotateStep,
     PlanLaunchesStep, LaunchStep, ExcessStep, RecordStep DEF PassStep
<1>5. CASE Deadline
  BY <1>5, DeadlineStep
<1>6. CASE \E h \in Hosts :
        \/ Appears(h) \/ Boots(h) \/ Ends(h) \/ Breaks(h) \/ Warned(h) \/ NoticeExpires(h) \/ Dies(h)
        \/ DeadlineFires(h) \/ Claim(h) \/ Lease(h) \/ Finish(h)
  BY <1>6, MachineSteps, WorkerSteps
<1>7. CASE \E s \in Slots : LeaseExpires(s)
  BY <1>7, LeaseExpiresStep
<1> QED
  BY <1>1, <1>2, <1>3, <1>4, <1>5, <1>6, <1>7 DEF Next

\* Machines, fences, files and the running pass keep their shape, and a
\* termination under way has its fence and its drain (HostLifecycle.drain).
THEOREM PoolInvariant == Spec => []IInv
<1>1. IInv /\ [Next]_vars => IInv'
  BY StepInvariant
<1> QED
  BY <1>1, InitInvariant, PTL DEF Spec

\* No pass terminates a machine under leased work it has to wait for
\* (WorkerDrainStore.request before provider.destroy).
THEOREM LeasedWorkDrained == Spec => WorkDrained
<1>1. IInv /\ [Next]_vars => [DrainedStep]_vars
  BY StepInvariant DEF Steady
<1> QED
  BY <1>1, PoolInvariant, PTL DEF Spec, WorkDrained, DrainedStep

\* A cleanup is not revived (_cleanup's durable intent, _converge_locked).
THEOREM CleanupFinal == Spec => NoRevival
<1>1. IInv /\ [Next]_vars => [ClosedStep]_vars
  BY StepInvariant DEF Steady
<1> QED
  BY <1>1, PoolInvariant, PTL DEF Spec, NoRevival, ClosedStep

=============================================================================
