------------------------------- MODULE HostPool -------------------------------
(* The managed worker pool: the durable scale operation (hosts/scale.py), the *)
(* host lifecycle it drives (hosts/core.py), the recurring fleet controller   *)
(* (fleet.py), the claim fence of draining hosts (hosts/drain.py) and the     *)
(* machines and workers outside.                                              *)
(*                                                                            *)
(* A pass holds the admission lock from beginning to end, so passes exclude   *)
(* each other; between two provider calls or durable writes of a pass the     *)
(* machines and the workers move, and the process may be killed, which loses  *)
(* `pass` and nothing else.  A host is <<slot, generation>>: its operation id, *)
(* which is the provider's idempotency token.  Discovery may lag behind a     *)
(* launch (cloud[h].vis).  Money and declarations are not modelled: the      *)
(* operation is the admitted one throughout.                                  *)
EXTENDS Integers, FiniteSets, SequencesExt

CONSTANTS N,            \* hosts the operation admitted
          Threshold,    \* failed passes that trip the breaker
          MaxGen,       \* bound: generations of one slot
          Bounds        \* bounds a behaviour chooses from: provider failures, lost
                        \* answers, kills and dead hosts (faults), operator commands
                        \* and configuration changes (commands), runs the workers
                        \* lease (claims), whether the deadline comes (deadline), and
                        \* the counts configured (targets: workers.pool.desired)

ASSUME PoolAssumption ==
    /\ N \in Nat \ {0} /\ MaxGen \in Nat /\ Threshold \in Nat \ {0}
    /\ Bounds \subseteq [faults : Nat, commands : Nat, claims : Nat, deadline : BOOLEAN,
                         targets : SUBSET Nat]

VARIABLES cloud,   \* the machines behind the provider, by operation id
          fence,   \* worker-drains.json: the deadline each fenced operation id waits for
          rec,     \* the lifecycle file's host rows: waiting (draining) and others
          gens,    \* the lifecycle file's replacement generation of each slot
          op,      \* the scale operation: durable desired count, phase
          cred,    \* slots whose enrollment is live
          fleet,   \* fleet.json and the configured count
          pass,    \* the running pass's locals
          asking,  \* hosts whose claim has passed the drain check
          run,     \* the run leased to each slot's host name
          late,    \* the operation's absolute deadline has passed
          left     \* what is left of the bounds

vars == <<cloud, fence, rec, gens, op, cred, fleet, pass, asking, run, late, left>>
world == <<asking, run, late>>

Slots == 0..(N - 1)
Hosts == Slots \X (0..MaxGen)
Slot(h) == h[1]
Closing == {"cleaning", "cleaned"}

Absent == [st |-> "none", vis |-> "hidden", notice |-> "no", broken |-> FALSE, worked |-> FALSE]
NoRun == [host |-> <<>>, raced |-> FALSE]
IdlePass == [pc |-> "idle", why |-> "none", todo |-> {}, spot |-> {}, at |-> <<>>, kept |-> {}, wait |-> {},
             ended |-> {}, act |-> <<>>, miss |-> {}, lost |-> {}, failed |-> {}, fleet |-> FALSE]

Machines == [st : {"none", "up", "ending"}, vis : {"hidden", "listed", "booted"},
             notice : {"no", "warned", "over"}, broken : BOOLEAN, worked : BOOLEAN]
Leases == [host : Hosts \cup {<<>>}, raced : BOOLEAN]
Passes == [pc : {"idle", "start", "drain", "destroy", "retired", "enroll", "look", "sort", "reclaim",
                 "rotate", "launch"},
           why : {"none", "excess", "cleanup", "force", "failed"},
           todo : SUBSET Hosts, spot : SUBSET Hosts, at : Hosts \cup {<<>>}, kept : SUBSET Hosts,
           wait : SUBSET Hosts, ended : SUBSET Hosts, act : Seq(Hosts), miss : SUBSET Slots,
           lost : SUBSET Hosts, failed : SUBSET Hosts, fleet : BOOLEAN]

TypeOK ==
    /\ cloud \in [Hosts -> Machines]
    /\ fence \in [Hosts -> {"none", "op", "notice"}]
    /\ rec \in [kept : SUBSET Hosts, wait : SUBSET Hosts]
    /\ gens \in [Slots -> 0..MaxGen]
    /\ op \in [desired : 0..N, phase : {"admitted", "converging", "draining", "awaiting",
                                        "running"} \cup Closing]
    /\ cred \subseteq Slots
    /\ fleet \in [target : Nat, attempts : 0..Threshold, breaker : BOOLEAN]
    /\ pass \in Passes
    /\ asking \subseteq Hosts
    /\ run \in [Slots -> Leases]
    /\ late \in BOOLEAN
    /\ left \in [faults : Nat, commands : Nat, claims : Nat, deadline : BOOLEAN, targets : SUBSET Nat]

Init ==
    /\ cloud = [h \in Hosts |-> Absent] /\ fence = [h \in Hosts |-> "none"]
    /\ rec = [kept |-> {}, wait |-> {}] /\ gens = [s \in Slots |-> 0]
    /\ op = [desired |-> N, phase |-> "admitted"] /\ cred = {}
    /\ pass = IdlePass /\ asking = {} /\ run = [s \in Slots |-> NoRun] /\ late = FALSE
    /\ left \in Bounds
    /\ fleet \in [target : left.targets, attempts : {0}, breaker : {FALSE}]

Faulty == left.faults > 0 /\ left' = [left EXCEPT !.faults = @ - 1]
Commanded == left.commands > 0 /\ left' = [left EXCEPT !.commands = @ - 1]

-----------------------------------------------------------------------------
(* What the provider and the drain store answer.                             *)

\* discover(): machines that are up and already listed; one that is shutting
\* down is filtered out.
Discovered == {h \in Hosts : cloud[h].st = "up" /\ cloud[h].vis # "hidden"}

\* A host row as HostFacts.state shows it before any readiness check.
StateOf(h) == IF cloud[h].notice # "no" THEN "interrupted"
              ELSE IF cloud[h].broken THEN "failed" ELSE "bootstrapping"

\* Mutant: the request is answered without being recorded.
FencedUnsaved(f, h, deadline) == f

\* WorkerDrainStore.request: the fence keeps the deadline it was first given.
Fenced(f, h, deadline) == IF f[h] = "none" THEN [f EXCEPT ![h] = deadline] ELSE f

\* ... and tells whether the host may be retired: no run is leased to its name,
\* or the deadline of the fence has passed.
Drained(f, h) == \/ run[Slot(h)] = NoRun
                 \/ f[h] = "op" /\ late
                 \/ f[h] = "notice" /\ cloud[h].notice = "over"

\* provider.destroy: termination is observed, or only requested when the wait ends.
Retire(h, p) == \E confirmed \in BOOLEAN :
    /\ cloud' = [cloud EXCEPT ![h] = IF confirmed THEN Absent ELSE [@ EXCEPT !.st = "ending"]]
    /\ pass' = IF confirmed THEN [p EXCEPT !.ended = @ \cup {h}] ELSE [p EXCEPT !.wait = @ \cup {h}]

First(S) == CHOOSE h \in S : \A k \in S : h[1] < k[1] \/ (h[1] = k[1] /\ h[2] <= k[2])

-----------------------------------------------------------------------------
(* Ends of a pass.                                                           *)

\* FleetController._fence: what the pass reports undispatchable is fenced, a
\* ready host's fence is lifted.
FenceAll(kept, wait, ended, closing) ==
    [h \in Hosts |->
        IF h \in kept \cup wait \cup ended
           /\ (closing \/ h \in wait \cup ended \/ StateOf(h) # "bootstrapping")
        THEN Fenced(fence, h, "op")[h]
        ELSE IF h \in kept /\ cloud[h].worked THEN "none" ELSE fence[h]]

\* FleetController._failed.
Setback(f) == LET n == f.attempts + 1
              IN [f EXCEPT !.attempts = n, !.breaker = n >= Threshold]

\* The status a pass ends with reaches the fence and the backoff (_step,
\* _observed); a pass of the command line only prints it.
Report(desired, phase, kept, wait, ended, lost, failed) ==
    LET bad == failed # {} \/ \E h \in kept \ lost : StateOf(h) # "bootstrapping"
        short == desired > Cardinality(kept \cup wait)
    IN IF pass.fleet
       THEN /\ fence' = FenceAll(kept \ lost, wait, ended, phase \in Closing)
            /\ fleet' = IF bad \/ (short /\ phase \notin Closing)
                        THEN Setback(fleet) ELSE [fleet EXCEPT !.attempts = 0]
       ELSE UNCHANGED <<fence, fleet>>

\* A provider error, or a failed enrollment call, ends the pass: converge()
\* counts it, the command line prints it.
Abort ==
    /\ pass' = IdlePass
    /\ fleet' = IF pass.fleet THEN Setback(fleet) ELSE fleet
    /\ Faulty

-----------------------------------------------------------------------------
(* Beginnings of a pass.                                                     *)

Draining(why, slots, byFleet) ==
    [IdlePass EXCEPT !.pc = "drain", !.why = why, !.fleet = byFleet,
        !.todo = {h \in Discovered : Slot(h) \in slots},
        !.kept = {h \in Discovered : Slot(h) \notin slots}]

\* _cleanup: the intent is durable before anything is retired.
BeginCleanup(safe, byFleet) ==
    /\ op' = [desired |-> 0, phase |-> "cleaning"]
    /\ pass' = Draining(IF safe THEN "cleanup" ELSE "force", Slots, byFleet)

\* _bounded_desired: the configured count, clamped to the admission.
BoundedDesired == IF fleet.target <= N THEN fleet.target ELSE N

\* The controller's pass: FleetController.converge -> ScaleOperation.converge.
FleetPass ==
    LET desired == BoundedDesired IN
    /\ pass.pc = "idle" /\ ~ fleet.breaker
    /\ IF desired = 0 THEN BeginCleanup(TRUE, TRUE)
       ELSE /\ op' = [op EXCEPT !.desired = desired]
            /\ pass' = IF desired < N THEN Draining("excess", desired..(N - 1), TRUE)
                       ELSE [IdlePass EXCEPT !.pc = "start", !.fleet = TRUE]
    /\ UNCHANGED <<cloud, fence, rec, gens, cred, fleet, world, left>>

\* `garden hosts scale --continue`: converges to the durable count, draining nothing first.
ContinueCommand ==
    /\ pass.pc = "idle" /\ Commanded
    /\ pass' = [IdlePass EXCEPT !.pc = "start"]
    /\ UNCHANGED <<cloud, fence, rec, gens, op, cred, fleet, world>>

\* `garden hosts scale --cleanup` and `--emergency-stop`.
CleanupCommand(safe) ==
    /\ pass.pc = "idle" /\ Commanded
    /\ BeginCleanup(safe, FALSE)
    /\ UNCHANGED <<cloud, fence, rec, gens, cred, fleet, world>>

\* An edit of workers.pool.desired, and `garden hosts fleet --resume`.
Configure(t) ==
    /\ t # fleet.target /\ Commanded
    /\ fleet' = [fleet EXCEPT !.target = t]
    /\ UNCHANGED <<cloud, fence, rec, gens, op, cred, pass, world>>

Resume ==
    /\ fleet.breaker /\ Commanded
    /\ fleet' = [fleet EXCEPT !.breaker = FALSE, !.attempts = 0]
    /\ UNCHANGED <<cloud, fence, rec, gens, op, cred, pass, world>>

-----------------------------------------------------------------------------
(* HostLifecycle.drain and force_retire, one host at a time.                 *)

DrainCheck ==
    LET h == First(pass.todo) IN
    /\ pass.pc = "drain" /\ pass.todo # {}
    /\ IF pass.why = "force"
       THEN /\ pass' = [pass EXCEPT !.pc = "destroy", !.at = h]
            /\ UNCHANGED fence
       ELSE LET f == Fenced(fence, h, "op") IN
            /\ fence' = f
            /\ pass' = IF Drained(f, h) THEN [pass EXCEPT !.pc = "destroy", !.at = h]
                       ELSE [pass EXCEPT !.todo = @ \ {h}, !.wait = @ \cup {h}]
    /\ UNCHANGED <<cloud, rec, gens, op, cred, fleet, world, left>>

DrainDestroy ==
    /\ pass.pc = "destroy"
    /\ \/ Retire(pass.at, [pass EXCEPT !.pc = "retired"]) /\ UNCHANGED <<fleet, left>>
       \/ Abort /\ UNCHANGED cloud
    /\ UNCHANGED <<fence, rec, gens, op, cred, world>>

\* drains.clear after the host is retired.
DrainClear ==
    /\ pass.pc = "retired"
    /\ fence' = [fence EXCEPT ![pass.at] = "none"]
    /\ pass' = [pass EXCEPT !.pc = "drain", !.todo = @ \ {pass.at}]
    /\ UNCHANGED <<cloud, rec, gens, op, cred, fleet, world, left>>

\* Enrollment of the retired slots is revoked; a revocation that fails stays pending.
Revoke(slots) == \E stuck \in SUBSET (slots \cap cred) :
    /\ stuck # {} => left.faults > 0
    /\ left' = IF stuck = {} THEN left ELSE [left EXCEPT !.faults = @ - 1]
    /\ cred' = (cred \ slots) \cup stuck

WaitingSlots == {Slot(h) : h \in pass.wait}

DrainEnd ==
    /\ pass.pc = "drain" /\ pass.todo = {}
    /\ rec' = [kept |-> pass.kept, wait |-> pass.wait]
    /\ \/ /\ pass.why = "failed"
          /\ pass' = [pass EXCEPT !.pc = "enroll"]
          /\ UNCHANGED <<fence, op, cred, fleet, left>>
       \/ /\ pass.why = "excess"
          /\ Revoke((op.desired..(N - 1)) \ WaitingSlots)
          /\ IF pass.wait = {}
             THEN pass' = [pass EXCEPT !.pc = "start"] /\ UNCHANGED <<fence, op, fleet>>
             ELSE /\ op' = [op EXCEPT !.phase = "draining"]
                  /\ Report(op.desired, "draining", pass.kept, pass.wait, pass.ended, {}, {})
                  /\ pass' = IdlePass
       \/ /\ pass.why \in {"cleanup", "force"}
          /\ Revoke(Slots \ WaitingSlots)
          /\ op' = [op EXCEPT !.phase = IF pass.wait = {} /\ cred' = {} THEN "cleaned" ELSE "cleaning"]
          /\ Report(0, "cleaning", {}, pass.wait, pass.ended, {}, {})
          /\ pass' = IdlePass
    /\ UNCHANGED <<cloud, gens, world>>

-----------------------------------------------------------------------------
(* _converge_locked and HostLifecycle.reconcile.                             *)

\* Mutant: only the deadline closes an operation.
ConvergeAgain ==
    LET failed == {h \in Discovered : StateOf(h) = "failed" /\ h \notin rec.wait} IN
    /\ pass.pc = "start"
    /\ IF late THEN BeginCleanup(TRUE, pass.fleet)
       ELSE /\ op' = [op EXCEPT !.phase = "converging"]
            /\ pass' = IF failed = {} THEN [IdlePass EXCEPT !.pc = "enroll", !.fleet = pass.fleet]
                       ELSE Draining("failed", {Slot(h) : h \in failed}, pass.fleet)
    /\ UNCHANGED <<cloud, fence, rec, gens, cred, fleet, world, left>>

ConvergeStart ==
    LET failed == {h \in Discovered : StateOf(h) = "failed" /\ h \notin rec.wait} IN
    /\ pass.pc = "start"
    /\ IF late \/ op.phase \in Closing THEN BeginCleanup(TRUE, pass.fleet)
       ELSE /\ op' = [op EXCEPT !.phase = "converging"]
            /\ pass' = IF failed = {} THEN [IdlePass EXCEPT !.pc = "enroll", !.fleet = pass.fleet]
                       ELSE Draining("failed", {Slot(h) : h \in failed}, pass.fleet)
    /\ UNCHANGED <<cloud, fence, rec, gens, cred, fleet, world, left>>

\* _missing(ensure=True): enrollments of the slots with no machine; one that is
\* not complete keeps its slot from being launched.
Enroll ==
    LET empty == {s \in 0..(op.desired - 1) : \A h \in Discovered : Slot(h) # s} IN
    /\ pass.pc = "enroll"
    /\ \E miss \in SUBSET empty :
        /\ miss # {} => left.faults > 0
        /\ left' = IF miss = {} THEN left ELSE [left EXCEPT !.faults = @ - 1]
        /\ cred' = cred \cup (empty \ miss)
        /\ pass' = [IdlePass EXCEPT !.pc = "look", !.miss = miss, !.fleet = pass.fleet]
    /\ UNCHANGED <<cloud, fence, rec, gens, op, fleet, world>>

\* _advance_missing_replacements: a recorded host of the current generation
\* that discovery no longer lists gives its slot a new operation id.
Vanished == {s \in Slots : \E h \in (rec.kept \cup rec.wait) \ Discovered :
                h = <<s, gens[s]>>}

\* The hosts of one generation each, in the order of their slots.
InOrder(S) == {a \in [1..Cardinality(S) -> S] :
                \A i, j \in 1..Cardinality(S) : i < j => a[i][1] < a[j][1]}

\* Mutant: superseded machines are left alone.
LookPast ==
    LET g == [s \in Slots |-> IF s \in Vanished THEN gens[s] + 1 ELSE gens[s]]
        current == {h \in Discovered : h[2] = g[Slot(h)]}
    IN
    /\ pass.pc = "look" /\ g \in [Slots -> 0..MaxGen]
    /\ gens' = g
    /\ \E act \in InOrder({h \in current : StateOf(h) # "interrupted"}) :
         pass' = [pass EXCEPT !.pc = "sort", !.todo = {}, !.act = act,
                     !.spot = {h \in current : StateOf(h) = "interrupted"}]
    /\ UNCHANGED <<cloud, fence, rec, op, cred, fleet, world, left>>

Look ==
    LET g == [s \in Slots |-> IF s \in Vanished THEN gens[s] + 1 ELSE gens[s]]
        current == {h \in Discovered : h[2] = g[Slot(h)]}
    IN
    /\ pass.pc = "look" /\ g \in [Slots -> 0..MaxGen]
    /\ gens' = g
    /\ \E act \in InOrder({h \in current : StateOf(h) # "interrupted"}) :
         pass' = [pass EXCEPT !.pc = "sort", !.todo = Discovered \ current, !.act = act,
                     !.spot = {h \in current : StateOf(h) = "interrupted"}]
    /\ UNCHANGED <<cloud, fence, rec, op, cred, fleet, world, left>>

\* A superseded machine is destroyed without a drain.
StaleStep ==
    LET h == First(pass.todo) IN
    /\ pass.pc = "sort" /\ pass.todo # {}
    /\ \/ Retire(h, [pass EXCEPT !.todo = @ \ {h}]) /\ UNCHANGED <<fleet, left>>
       \/ Abort /\ UNCHANGED cloud
    /\ UNCHANGED <<fence, rec, gens, op, cred, world>>

\* An interrupted host is fenced until the notice's deadline, then replaced.
SpotCheck ==
    LET h == First(pass.spot)
        f == Fenced(fence, h, "notice")
    IN
    /\ pass.pc = "sort" /\ pass.todo = {} /\ pass.spot # {}
    /\ fence' = f
    /\ pass' = IF Drained(f, h) THEN [pass EXCEPT !.pc = "reclaim", !.at = h]
               ELSE [pass EXCEPT !.spot = @ \ {h}, !.act = Append(@, h), !.kept = @ \cup {h}]
    /\ UNCHANGED <<cloud, rec, gens, op, cred, fleet, world, left>>

SpotDestroy ==
    /\ pass.pc = "reclaim"
    /\ \/ Retire(pass.at, [pass EXCEPT !.pc = "rotate"]) /\ UNCHANGED <<fleet, left>>
       \/ Abort /\ UNCHANGED cloud
    /\ UNCHANGED <<fence, rec, gens, op, cred, world>>

\* _advance_replacement and drains.clear of the retired interrupted host.
SpotRotate ==
    LET h == pass.at IN
    /\ pass.pc = "rotate" /\ gens[Slot(h)] < MaxGen
    /\ gens' = [gens EXCEPT ![Slot(h)] = @ + 1]
    /\ fence' = [fence EXCEPT ![h] = "none"]
    /\ pass' = [pass EXCEPT !.pc = "sort", !.spot = @ \ {h}]
    /\ UNCHANGED <<cloud, rec, op, cred, fleet, world, left>>

\* _available_slots: as many of the lowest unoccupied slots as the count is short of.
Vacant ==
    LET free == {s \in Slots : \A i \in DOMAIN pass.act : Slot(pass.act[i]) # s}
    IN {s \in free : Cardinality({r \in free : r < s}) < op.desired - Len(pass.act)}

PlanLaunches ==
    /\ pass.pc = "sort" /\ pass.todo = {} /\ pass.spot = {}
    /\ pass' = [pass EXCEPT !.pc = "launch", !.todo = {<<s, gens[s]>> : s \in Vacant \ pass.miss}]
    /\ UNCHANGED <<cloud, fence, rec, gens, op, cred, fleet, world, left>>

\* One slot: a machine discovery now lists is taken over; otherwise the provider
\* is asked, under the operation id it remembers.
Launched(h, vis) == IF cloud[h].st = "none"
                     THEN [cloud EXCEPT ![h] = [Absent EXCEPT !.st = "up", !.vis = vis]]
                     ELSE cloud

Launch ==
    LET h == First(pass.todo)
        Next1(p) == [p EXCEPT !.todo = @ \ {h}]
        taken == [pass EXCEPT !.act = Append(@, h)]
    IN
    /\ pass.pc = "launch" /\ pass.todo # {}
    /\ \/ /\ h \in Discovered
          /\ pass' = Next1(taken) /\ UNCHANGED <<cloud, left, fleet>>
       \/ /\ h \notin Discovered
          /\ \E vis \in {"hidden", "listed"} : cloud' = Launched(h, vis)
          /\ pass' = Next1(taken) /\ UNCHANGED <<left, fleet>>
       \* the answer is lost and the launch done or not: ProvisioningUncertain, or
       \* the retries of a failure taken for transient are exhausted
       \/ /\ h \notin Discovered /\ Faulty
          /\ cloud' \in {cloud, Launched(h, "hidden")}
          /\ \E bad \in {{}, {h}} :
                pass' = Next1([pass EXCEPT !.lost = @ \cup {h}, !.failed = @ \cup bad])
          /\ UNCHANGED fleet
       \/ Abort /\ UNCHANGED cloud
    /\ UNCHANGED <<fence, rec, gens, op, cred, world>>

\* Whatever is active beyond the count is destroyed without a drain.
Excess ==
    /\ pass.pc = "launch" /\ pass.todo = {} /\ Len(pass.act) > op.desired
    /\ \/ Retire(Last(pass.act), [pass EXCEPT !.act = Front(@)]) /\ UNCHANGED <<fleet, left>>
       \/ Abort /\ UNCHANGED cloud
    /\ UNCHANGED <<fence, rec, gens, op, cred, world>>

\* The refreshed inventory is recorded and reported.
Record ==
    LET draining == pass.wait \cup (pass.kept \cap Discovered)
        listed == (Discovered \ (pass.wait \cup pass.ended)) \ pass.kept
        lost == pass.lost \ Discovered
        phase == IF pass.miss = {} THEN "running" ELSE "awaiting"
    IN
    /\ pass.pc = "launch" /\ pass.todo = {} /\ Len(pass.act) <= op.desired
    /\ rec' = [kept |-> listed \cup lost, wait |-> draining]
    /\ op' = [op EXCEPT !.phase = phase]
    /\ Report(op.desired, phase, listed \cup lost, draining, pass.ended, lost, pass.failed \cap lost)
    /\ pass' = IdlePass
    /\ UNCHANGED <<cloud, gens, cred, world, left>>

\* The process running a pass dies; its locals are lost, its lock is released.
Kill ==
    /\ pass.pc # "idle" /\ Faulty
    /\ pass' = IdlePass
    /\ UNCHANGED <<cloud, fence, rec, gens, op, cred, fleet, world>>

-----------------------------------------------------------------------------
(* Machines.                                                                 *)

OnlyCloud == UNCHANGED <<fence, rec, gens, op, cred, fleet, pass, world>>

Appears(h) ==
    /\ cloud[h].st = "up" /\ cloud[h].vis = "hidden"
    /\ cloud' = [cloud EXCEPT ![h].vis = "listed"]
    /\ UNCHANGED left /\ OnlyCloud

\* The bootstrap of a machine outlasts a pass that was running when it was listed.
Boots(h) ==
    /\ h \in Discovered /\ cloud[h].vis = "listed" /\ pass.pc = "idle"
    /\ cloud' = [cloud EXCEPT ![h].vis = "booted"]
    /\ UNCHANGED left /\ OnlyCloud

Ends(h) ==
    /\ cloud[h].st = "ending"
    /\ cloud' = [cloud EXCEPT ![h] = Absent]
    /\ UNCHANGED left /\ OnlyCloud

\* The provider reports the machine failed, gives notice of an interruption, or
\* the machine is gone without one.
Breaks(h) ==
    /\ h \in Discovered /\ ~ cloud[h].broken /\ Faulty
    /\ cloud' = [cloud EXCEPT ![h].broken = TRUE]
    /\ OnlyCloud

Warned(h) ==
    /\ h \in Discovered /\ cloud[h].notice = "no" /\ Faulty
    /\ cloud' = [cloud EXCEPT ![h].notice = "warned"]
    /\ OnlyCloud

NoticeExpires(h) ==
    /\ cloud[h].st = "up" /\ cloud[h].notice = "warned"
    /\ cloud' = [cloud EXCEPT ![h].notice = "over"]
    /\ UNCHANGED left /\ OnlyCloud

Dies(h) ==
    /\ h \in Discovered /\ Faulty
    /\ cloud' = [cloud EXCEPT ![h] = Absent]
    /\ OnlyCloud

\* The absolute deadline: the schedule armed before the launch, and the host's
\* own timer, terminate what is still up.
Deadline ==
    /\ ~ late /\ left.deadline /\ late' = TRUE
    /\ UNCHANGED <<cloud, fence, rec, gens, op, cred, fleet, pass, asking, run, left>>

DeadlineFires(h) ==
    /\ late /\ cloud[h].st = "up"
    /\ cloud' = [cloud EXCEPT ![h].st = "ending"]
    /\ UNCHANGED left /\ OnlyCloud

-----------------------------------------------------------------------------
(* The workers on the machines and the controller's claim endpoint.          *)

OnlyWork == UNCHANGED <<cloud, fence, rec, gens, op, cred, fleet, pass, late>>

\* claim: the drain fence is read ...
Claim(h) ==
    /\ cloud[h].st = "up" /\ cloud[h].vis = "booted"
    /\ Slot(h) \in cred /\ ~ late
    /\ run[Slot(h)] = NoRun /\ h \notin asking
    /\ left.claims > 0 /\ fence[h] = "none"
    /\ asking' = asking \cup {h}
    /\ left' = [left EXCEPT !.claims = @ - 1]
    /\ UNCHANGED run /\ OnlyWork

\* ... and the run is leased a moment later.
Lease(h) ==
    /\ h \in asking
    /\ asking' = asking \ {h}
    /\ run' = IF run[Slot(h)] = NoRun
              THEN [run EXCEPT ![Slot(h)] = [host |-> h, raced |-> fence[h] # "none" \/ cloud[h].st # "up"]]
              ELSE run
    /\ UNCHANGED left /\ OnlyWork

\* The run's result reaches the controller: the evidence readiness asks for.
Finish(h) ==
    /\ run[Slot(h)].host = h /\ cloud[h].st = "up"
    /\ run' = [run EXCEPT ![Slot(h)] = NoRun]
    /\ cloud' = [cloud EXCEPT ![h].worked = TRUE]
    /\ UNCHANGED <<fence, rec, gens, op, cred, fleet, pass, asking, late, left>>

\* A run whose machine is gone loses its lease.
LeaseExpires(s) ==
    /\ run[s] # NoRun
    /\ cloud[run[s].host].st # "up" \/ cloud[run[s].host].broken
    /\ run' = [run EXCEPT ![s] = NoRun]
    /\ UNCHANGED <<asking, left>> /\ OnlyWork

-----------------------------------------------------------------------------
PassStep == \/ DrainCheck \/ DrainDestroy \/ DrainClear \/ DrainEnd
            \/ ConvergeStart \/ Enroll \/ Look \/ StaleStep
            \/ SpotCheck \/ SpotDestroy \/ SpotRotate
            \/ PlanLaunches \/ Launch \/ Excess \/ Record

Next ==
    \/ FleetPass \/ PassStep \/ Kill
    \/ ContinueCommand \/ Resume
    \/ \E safe \in BOOLEAN : CleanupCommand(safe)
    \/ \E t \in left.targets : Configure(t)
    \/ Deadline
    \/ \E h \in Hosts :
        \/ Appears(h) \/ Boots(h) \/ Ends(h) \/ Breaks(h) \/ Warned(h) \/ NoticeExpires(h) \/ Dies(h)
        \/ DeadlineFires(h) \/ Claim(h) \/ Lease(h) \/ Finish(h)
    \/ \E s \in Slots : LeaseExpires(s)

Spec == Init /\ [][Next]_vars

\* Fairness: the controller keeps ticking and a started pass goes on; machines
\* listed late are listed eventually, terminations and notices take effect, and
\* a worker finishes what it leased or its lease runs out.
FairSpec ==
    /\ Spec
    /\ WF_vars(FleetPass) /\ WF_vars(PassStep)
    /\ \A h \in Hosts : /\ WF_vars(Appears(h)) /\ WF_vars(Ends(h)) /\ WF_vars(NoticeExpires(h))
                        /\ WF_vars(DeadlineFires(h)) /\ WF_vars(Finish(h)) /\ WF_vars(Lease(h))
    /\ \A s \in Slots : WF_vars(LeaseExpires(s))

-----------------------------------------------------------------------------
(* Properties.                                                               *)

\* A pass terminates no machine under a run its worker leased before the fence
\* was up, unless the deadline of the drain has passed, the operator asked for an
\* emergency stop, or the machine had been superseded (drain, _retire_failed and
\* the scale-down of converge wait for the work first).
WorkDrained ==
    [][\A h \in Hosts :
        /\ pass' # pass /\ cloud[h].st = "up" /\ cloud'[h].st # "up"
        /\ run[Slot(h)] = [host |-> h, raced |-> FALSE]
        => late \/ cloud[h].notice = "over" \/ pass.why = "force" \/ pass.pc = "launch" \/ h[2] # gens[Slot(h)]]_vars

\* A cleanup is final: unless a pass of the controller that read a count below
\* the admitted one drains the rest, no pass, command or kill leaves the closing
\* phases again or launches a machine in them (_cleanup persists its intent first).
NoRevival ==
    [][op.phase \in Closing /\ pass.why # "excess"
       => /\ op'.phase \in Closing
          /\ \A h \in Hosts : cloud'[h].st = "up" => cloud[h].st = "up"]_vars

\* When the faults end the pool comes to rest: the breaker has stopped it, or
\* exactly the wanted slots have a machine, each of its slot's generation, or,
\* past the deadline or a cleanup, none has.
Wanted == IF late \/ op.phase \in Closing THEN {}
          ELSE {<<s, gens[s]>> : s \in {r \in Slots : r < fleet.target}}
PoolSettles == <>[](fleet.breaker \/ {h \in Hosts : cloud[h].st = "up"} = Wanted)
=============================================================================
