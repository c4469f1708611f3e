----------------------------- MODULE RemoteRun -----------------------------
(***************************************************************************)
(* One run that worker daemons on other machines execute: the controller's *)
(* claim, heartbeat and finish requests (web/pages/api.py), the run record *)
(* that the scheduler shares with them (runs.py, scheduler/reap.py), and   *)
(* the daemon with its detached supervisor and the files by which it       *)
(* survives a restart (remote_worker.py, managed_worker.py).               *)
(*                                                                         *)
(* A generation is one accepted claim: its lease token, its staging ref    *)
(* and its claim request id.  A request is handled in one step, finish in  *)
(* two; one that the daemon stopped waiting for may be handled later, or   *)
(* never.                                                                  *)
(***************************************************************************)
EXTENDS Integers, FiniteSets

CONSTANTS
    Hosts, NoHost,
    MaxGen,         \* bound: claims
    Bounds          \* bounds a behaviour chooses from: the hosts whose daemon runs
                    \* (hosts), kills of daemons, hosts and the web process (crashes),
                    \* requests that a daemon gives up waiting for (lost)

ASSUME RemoteRunAssumption ==
    /\ NoHost \notin Hosts
    /\ MaxGen \in Nat
    /\ Bounds \subseteq [hosts : SUBSET Hosts, crashes : Nat, lost : Nat]

VARIABLES
    run,        \* the run record and the result files beside it
    serving,    \* the finish request that the web process is inside of
    seen,       \* the copy the scheduler decides on: none, fresh, or outdated
    late,       \* requests in flight that nobody waits for
    wk,         \* wk[h]: the daemon on h
    disk,       \* disk[h]: its active claim and pending result, by generation
    sup,        \* sup[h]: generations whose supervisors are alive on h
    exits,      \* exits[h]: generations whose supervisors recorded an exit code
    pushed,     \* generations whose staging ref was pushed
    left        \* what remains of the bounds

server == <<run, serving, seen>>
host == <<wk, disk, sup, exits>>
vars == <<server, late, host, pushed, left>>

Gens == 1 .. MaxGen
Stages == {"off", "down", "recover", "deliver", "poll", "prepare", "unable", "execute",
           "publish", "pushed", "post", "clean"}
NotServing == [host |-> NoHost, gen |-> 0, kind |-> "none"]
Empty == [active |-> 0, pending |-> 0]
Down == [at |-> "down", gen |-> 0, recovering |-> FALSE, bound |-> 0]

Init ==
    /\ \E timed \in BOOLEAN :      \* a check has no execution timeout
        run = [status |-> "running", timed |-> timed, host |-> NoHost, gen |-> 0, last |-> 0,
               leased |-> FALSE, over |-> FALSE, got |-> 0, kind |-> "none", exit |-> FALSE,
               text |-> 0]
    /\ serving = NotServing
    /\ seen = "none"
    /\ late = {}
    /\ left \in Bounds
    /\ wk = [h \in Hosts |-> [Down EXCEPT !.at = IF h \in left.hosts THEN "poll" ELSE "off"]]
    /\ disk = [h \in Hosts |-> Empty]
    /\ sup = [h \in Hosts |-> {}]
    /\ exits = [h \in Hosts |-> {}]
    /\ pushed = {}

-----------------------------------------------------------------------------
(* The controller's checks.                                                *)

\* hub.action_lock and run-mutation.lock: finish holds both throughout.
Unlocked == serving = NotServing

\* record_version counts every save of the record.
Outdated == IF seen = "fresh" THEN "outdated" ELSE seen

\* ensure_claimed; heartbeats, which renew the lease, answer by it too.
Current(h, g) ==
    /\ run.status = "running" /\ ~run.exit /\ ~run.over
    /\ run.host = h /\ g # 0 /\ run.gen = g
    /\ run.leased

\* Mutant: a result whose completion marker is missing does not stop a claim.
ClaimableUnmarked ==
    /\ run.status = "running" /\ ~run.exit
    /\ ~run.leased /\ ~run.over
    /\ run.last < MaxGen

\* claim: the run is open to a new generation.
Claimable ==
    /\ run.status = "running" /\ ~run.exit /\ run.got = 0
    /\ ~run.leased /\ ~run.over
    /\ run.last < MaxGen

Grant(h) ==
    /\ run' = [run EXCEPT !.host = h, !.gen = run.last + 1, !.last = @ + 1, !.leased = TRUE]
    /\ seen' = Outdated

\* finish: token and host, then a replay of the accepted result or a lease.
Owns(h, g) == run.host = h /\ run.gen = g
Replays(h, g, kind) == Owns(h, g) /\ run.exit /\ run.got = g /\ run.kind = kind
Accepts(h, g) == Owns(h, g) /\ Current(h, g)

\* finish up to save_locked: files and receipt, not yet the marker.
BeginFinish(h, g, kind) ==
    /\ run' = [run EXCEPT !.got = g, !.kind = kind]
    /\ seen' = Outdated
    /\ serving' = [host |-> h, gen |-> g, kind |-> kind]

-----------------------------------------------------------------------------
(* The daemon.                                                             *)

Moves(h, at) == wk' = [wk EXCEPT ![h].at = at]
Dies(h) == wk' = [wk EXCEPT ![h] = Down]

\* The next thing after one claim is done with.
Continues(h) ==
    wk' = [wk EXCEPT ![h] = [Down EXCEPT !.at = IF wk[h].recovering THEN "deliver" ELSE "recover"]]

\* The process manager starts the daemon again.
Start(h) ==
    /\ wk[h].at = "down"
    /\ Moves(h, "recover")
    /\ UNCHANGED <<server, late, disk, sup, exits, pushed, left>>

\* recover_active_claims: no active claim, or one whose supervisor is gone
\* without an exit code and which is quarantined.
RecoverNothing(h) ==
    /\ wk[h].at = "recover"
    /\ disk[h].active \notin sup[h] \cup exits[h]
    /\ disk' = [disk EXCEPT ![h].active = 0]
    /\ Moves(h, "deliver")
    /\ UNCHANGED <<server, late, sup, exits, pushed, left>>

\* Mutant: the claim is quarantined and its supervisor left alone.
RecoverUnstopped(h) ==
    LET g == disk[h].active IN
    /\ wk[h].at = "recover" /\ g \in sup[h] \ exits[h] /\ Unlocked
    /\ ~Current(h, g)
    /\ disk' = [disk EXCEPT ![h].active = 0]
    /\ Moves(h, "deliver")
    /\ UNCHANGED <<server, late, sup, exits, pushed, left>>

\* It runs on without authority: it is stopped and quarantined.
RecoverFenced(h) ==
    LET g == disk[h].active IN
    /\ wk[h].at = "recover" /\ g \in sup[h] \ exits[h] /\ Unlocked
    /\ ~Current(h, g)
    /\ sup' = [sup EXCEPT ![h] = @ \ {g}]
    /\ disk' = [disk EXCEPT ![h].active = 0]
    /\ Moves(h, "deliver")
    /\ UNCHANGED <<server, late, exits, pushed, left>>

\* It has finished: its result is collected and published.
RecoverFinished(h) ==
    /\ wk[h].at = "recover" /\ disk[h].active \in exits[h]
    /\ wk' = [wk EXCEPT ![h] = [Down EXCEPT !.at = "publish", !.gen = disk[h].active,
                                            !.recovering = TRUE]]
    /\ UNCHANGED <<server, late, disk, sup, exits, pushed, left>>

\* deliver_pending_results: one replay; what cannot be delivered yet stays.
DeliverNothing(h) ==
    /\ wk[h].at = "deliver"
    /\ disk[h].pending = 0
    /\ Moves(h, "poll")
    /\ UNCHANGED <<server, late, disk, sup, exits, pushed, left>>

\* Mutant: a pending result is left for another day.
DeliverSkips(h) ==
    /\ wk[h].at = "deliver"
    /\ Moves(h, "poll")
    /\ UNCHANGED <<server, late, disk, sup, exits, pushed, left>>

Deliver(h) ==
    LET g == disk[h].pending IN
    /\ wk[h].at = "deliver" /\ g # 0 /\ Unlocked
    /\ \/ /\ Accepts(h, g)
          /\ BeginFinish(h, g, "work")
          /\ UNCHANGED <<wk, disk>>
       \/ /\ ~Accepts(h, g)         \* delivered before, or quarantined
          /\ disk' = [disk EXCEPT ![h].pending = 0]
          /\ Moves(h, "poll")
          /\ UNCHANGED <<run, serving, seen>>
    /\ UNCHANGED <<late, sup, exits, pushed, left>>

DeliverDeferred(h) ==
    /\ wk[h].at = "deliver" /\ disk[h].pending # 0
    /\ left.lost > 0 /\ left' = [left EXCEPT !.lost = @ - 1]
    /\ late' = late \cup {[op |-> "finish", host |-> h, gen |-> disk[h].pending]}
    /\ Moves(h, "poll")
    /\ UNCHANGED <<server, disk, sup, exits, pushed>>

\* claim_with_retry: granted, or told there is nothing (204) and round again;
\* a round that finds no files is no step.
Claim(h) ==
    /\ wk[h].at = "poll" /\ wk[h].bound = 0 /\ Unlocked
    /\ \/ /\ Claimable
          /\ Grant(h)
          /\ wk' = [wk EXCEPT ![h].at = "prepare", ![h].gen = run.last + 1]
       \/ /\ ~Claimable
          /\ disk[h] # Empty
          /\ Moves(h, "recover")
          /\ UNCHANGED <<run, seen>>
    /\ UNCHANGED <<serving, late, disk, sup, exits, pushed, left>>

\* The answer is lost: the same claim_request_id is sent again.
LoseClaim(h) ==
    /\ wk[h].at = "poll"
    /\ left.lost > 0 /\ left' = [left EXCEPT !.lost = @ - 1]
    /\ late' = late \cup {[op |-> "claim", host |-> h, gen |-> 0]}
    /\ UNCHANGED <<server, host, pushed>>

\* A late claim: bound to the poll that is still open, or to nobody's.
LateClaim(h) ==
    /\ [op |-> "claim", host |-> h, gen |-> 0] \in late /\ Unlocked
    /\ late' = late \ {[op |-> "claim", host |-> h, gen |-> 0]}
    /\ Claimable
    /\ Grant(h)
    /\ \/ wk[h].at = "poll" /\ wk[h].bound = 0 /\ wk' = [wk EXCEPT ![h].bound = run.last + 1]
       \/ UNCHANGED wk
    /\ UNCHANGED <<serving, disk, sup, exits, pushed, left>>

\* The request repeated: the same generation, or 409 and the daemon exits.
Replay(h) ==
    /\ wk[h].at = "poll" /\ wk[h].bound # 0 /\ Unlocked
    /\ \/ /\ Current(h, wk[h].bound)
          /\ wk' = [wk EXCEPT ![h] = [Down EXCEPT !.at = "prepare", !.gen = wk[h].bound]]
       \/ /\ ~Current(h, wk[h].bound)
          /\ Dies(h)
    /\ UNCHANGED <<server, late, disk, sup, exits, pushed, left>>

\* _acquire_repo_lock: a live supervisor inherited the lock.
Lockable(h) == sup[h] = {}

\* _prepare_claim_repo and _launch_claim_supervisor: the workload starts once
\* the active claim is on disk.  409 from a heartbeat ends the daemon.
Prepare(h) ==
    LET g == wk[h].gen IN
    /\ wk[h].at = "prepare" /\ Unlocked
    /\ \/ /\ Lockable(h) /\ Current(h, g)
          /\ sup' = [sup EXCEPT ![h] = @ \cup {g}]
          /\ disk' = [disk EXCEPT ![h].active = g]
          /\ Moves(h, "execute")
       \/ /\ Moves(h, "unable")     \* ClaimMaterializationError
          /\ UNCHANGED <<sup, disk>>
       \/ /\ ~Current(h, g)
          /\ Dies(h)
          /\ UNCHANGED <<sup, disk>>
    /\ UNCHANGED <<server, late, exits, pushed, left>>

\* _finish_materialization_failure
ReportUnable(h) ==
    LET g == wk[h].gen IN
    /\ wk[h].at = "unable" /\ Unlocked
    /\ \/ /\ Accepts(h, g)
          /\ BeginFinish(h, g, "failure")
          /\ UNCHANGED wk
       \/ /\ ~Accepts(h, g)
          /\ IF Replays(h, g, "failure") THEN Continues(h) ELSE Dies(h)
          /\ UNCHANGED <<run, serving, seen>>
    /\ UNCHANGED <<late, disk, sup, exits, pushed, left>>

\* run_supervisor: the workload ends, whether or not a daemon is there.
Exit(h, g) ==
    /\ g \in sup[h]
    /\ sup' = [sup EXCEPT ![h] = @ \ {g}]
    /\ exits' = [exits EXCEPT ![h] = @ \cup {g}]
    /\ UNCHANGED <<server, late, wk, disk, pushed, left>>

\* execute_claim: a heartbeat failed, so the process is stopped; terminated
\* it still records an exit code, killed it does not.
Fenced(h) ==
    LET g == wk[h].gen IN
    /\ wk[h].at = "execute" /\ g \in sup[h] /\ Unlocked
    /\ ~Current(h, g)
    /\ sup' = [sup EXCEPT ![h] = @ \ {g}]
    /\ \E recorded \in {{g}, {}} : exits' = [exits EXCEPT ![h] = @ \cup recorded]
    /\ Dies(h)
    /\ UNCHANGED <<server, late, disk, pushed, left>>

\* heartbeat with a transcript chunk.  The first generation's text is already
\* at these offsets: 409, outside the block that would stop the process.
Upload(h) ==
    LET g == wk[h].gen IN
    /\ wk[h].at = "execute" /\ Current(h, g) /\ Unlocked
    /\ \/ /\ run.text = 0
          /\ run' = [run EXCEPT !.text = g]
          /\ seen' = Outdated
          /\ UNCHANGED wk
       \/ /\ run.text \notin {0, g}
          /\ Dies(h)
          /\ UNCHANGED <<run, seen>>
    /\ UNCHANGED <<serving, late, disk, sup, exits, pushed, left>>

Collect(h) ==
    /\ wk[h].at = "execute" /\ wk[h].gen \in exits[h]
    /\ Moves(h, "publish")
    /\ UNCHANGED <<server, late, disk, sup, exits, pushed, left>>

\* What a failed publication comes to.  In recovery
\* _retire_recovered_publication quarantines both records when the controller
\* refused, else leaves the pending one to deliver_pending_results; without a
\* pending one it raises.
PublicationFails(h, refused) ==
    IF wk[h].recovering /\ disk[h].pending # 0
    THEN /\ disk' = [disk EXCEPT ![h].active = 0, ![h].pending = IF refused THEN 0 ELSE @]
         /\ Continues(h)
    ELSE Dies(h) /\ UNCHANGED disk

\* A heartbeat before a step of the publication: 409 now, or the background
\* one that failed before.
Refused(h) == ~Current(h, wk[h].gen) /\ \E refused \in BOOLEAN : PublicationFails(h, refused)

\* _publish_claim_result: a heartbeat, then the push to the staging ref.
Push(h) ==
    LET g == wk[h].gen IN
    /\ wk[h].at = "publish" /\ Unlocked
    /\ \/ Current(h, g) /\ Moves(h, "pushed") /\ pushed' = pushed \cup {g} /\ UNCHANGED disk
       \/ Refused(h) /\ UNCHANGED pushed
    /\ UNCHANGED <<server, late, sup, exits, left>>

\* A second heartbeat, then the payload made durable.
Persist(h) ==
    LET g == wk[h].gen IN
    /\ wk[h].at = "pushed" /\ Unlocked
    /\ \/ /\ Current(h, g)
          /\ disk' = [disk EXCEPT ![h].pending = g]
          /\ Moves(h, "post")
       \/ Refused(h)
    /\ UNCHANGED <<server, late, sup, exits, pushed, left>>

\* heartbeat.finish: accepted, repeated, or 409.
Post(h) ==
    LET g == wk[h].gen IN
    /\ wk[h].at = "post" /\ Unlocked
    /\ \/ /\ Accepts(h, g)
          /\ BeginFinish(h, g, "work")
          /\ UNCHANGED <<wk, disk>>
       \/ /\ Replays(h, g, "work")
          /\ disk' = [disk EXCEPT ![h].pending = 0]
          /\ Moves(h, "clean")
          /\ UNCHANGED <<run, serving, seen>>
       \/ /\ ~Accepts(h, g) /\ ~Replays(h, g, "work")
          /\ PublicationFails(h, TRUE)
          /\ UNCHANGED <<run, serving, seen>>
    /\ UNCHANGED <<late, sup, exits, pushed, left>>

\* The answer to finish is lost: repeated, or given up.
LosePost(h) ==
    /\ wk[h].at = "post"
    /\ left.lost > 0 /\ left' = [left EXCEPT !.lost = @ - 1]
    /\ late' = late \cup {[op |-> "finish", host |-> h, gen |-> wk[h].gen]}
    /\ \/ UNCHANGED <<wk, disk>>
       \/ PublicationFails(h, FALSE)
    /\ UNCHANGED <<server, sup, exits, pushed>>

\* A late finish: handled like any other, and nobody reads the answer.
LateFinish(h, g) ==
    /\ [op |-> "finish", host |-> h, gen |-> g] \in late /\ Unlocked
    /\ late' = late \ {[op |-> "finish", host |-> h, gen |-> g]}
    /\ Accepts(h, g)
    /\ BeginFinish(h, g, "work")
    /\ UNCHANGED <<host, pushed, left>>

\* The claim is done: its active record goes last.
Clean(h) ==
    /\ wk[h].at = "clean"
    /\ disk' = [disk EXCEPT ![h].active = 0]
    /\ Continues(h)
    /\ UNCHANGED <<server, late, sup, exits, pushed, left>>

\* finish writes the completion marker last.  Its answer reaches the daemon
\* that waits for it.
EndFinish ==
    LET h == serving.host
        waits == wk[h].gen = serving.gen IN
    /\ serving # NotServing
    /\ run' = [run EXCEPT !.exit = TRUE]
    /\ serving' = NotServing
    /\ \/ /\ wk[h].at = "post" /\ waits /\ serving.kind = "work"
          /\ disk' = [disk EXCEPT ![h].pending = 0]
          /\ Moves(h, "clean")
       \/ /\ wk[h].at = "deliver" /\ disk[h].pending = serving.gen
          /\ disk' = [disk EXCEPT ![h].pending = 0]
          /\ Moves(h, "poll")
       \/ /\ wk[h].at = "unable" /\ waits /\ serving.kind = "failure"
          /\ Continues(h)
          /\ UNCHANGED disk
       \/ UNCHANGED <<wk, disk>>
    /\ UNCHANGED <<seen, late, sup, exits, pushed, left>>

-----------------------------------------------------------------------------
(* The scheduler, time and faults.                                         *)

\* reap: the run as this pass reads it, not finished yet.
Inspect ==
    /\ run.status = "running" /\ ~run.exit /\ seen = "none"
    /\ seen' = "fresh"
    /\ UNCHANGED <<run, serving, late, host, pushed, left>>

\* Mutant: the scheduler's copy replaces the record, receipt and all.
TimeoutOverwrites ==
    /\ seen # "none" /\ Unlocked
    /\ run' = [run EXCEPT !.status = "timeout", !.gen = 0, !.leased = FALSE,
                          !.got = IF seen = "fresh" THEN @ ELSE 0]
    /\ seen' = "none"
    /\ UNCHANGED <<serving, late, host, pushed, left>>

\* Mutant: only a run that a host holds can time out.
TimeoutLeased ==
    /\ seen # "none" /\ Unlocked
    /\ run' = IF seen = "fresh" /\ run.leased
              THEN [run EXCEPT !.status = "timeout", !.gen = 0, !.leased = FALSE] ELSE run
    /\ seen' = "none"
    /\ UNCHANGED <<serving, late, host, pushed, left>>

\* _finished_or_timed_out: deadline or idle kill revokes the token, unless
\* save finds another version of the record (RunMutationConflict).
Timeout ==
    /\ seen # "none" /\ Unlocked
    /\ IF seen = "fresh"
       THEN run' = [run EXCEPT !.status = "timeout", !.gen = 0, !.leased = FALSE]
       ELSE UNCHANGED run
    /\ seen' = "none"
    /\ UNCHANGED <<serving, late, host, pushed, left>>

\* The pass finds nothing to do, or the result and finalizes it.
Pass ==
    /\ seen # "none" /\ ~run.over
    /\ seen' = "none"
    /\ UNCHANGED <<run, serving, late, host, pushed, left>>

Finalize ==
    /\ run.status = "running" /\ run.exit /\ Unlocked
    /\ run' = [run EXCEPT !.status = "done"]
    /\ seen' = "none"
    /\ UNCHANGED <<serving, late, host, pushed, left>>

\* lease and recovery grace pass with no heartbeat.
LeaseLapses ==
    /\ run.leased /\ ~run.exit /\ Unlocked
    /\ run' = [run EXCEPT !.leased = FALSE]
    /\ UNCHANGED <<serving, seen, late, host, pushed, left>>

DeadlinePasses ==
    /\ run.timed /\ run.last > 0 /\ ~run.over /\ run.status = "running"
    /\ run' = [run EXCEPT !.over = TRUE]
    /\ UNCHANGED <<serving, seen, late, host, pushed, left>>

DaemonDies(h) ==
    /\ wk[h].at \notin {"off", "down"} /\ left.crashes > 0
    /\ Dies(h)
    /\ left' = [left EXCEPT !.crashes = @ - 1]
    /\ UNCHANGED <<server, late, disk, sup, exits, pushed>>

HostReboots(h) ==
    /\ sup[h] # {} /\ left.crashes > 0
    /\ Dies(h)
    /\ sup' = [sup EXCEPT ![h] = {}]
    /\ left' = [left EXCEPT !.crashes = @ - 1]
    /\ UNCHANGED <<server, late, disk, exits, pushed>>

WebDies ==
    /\ serving # NotServing /\ left.crashes > 0
    /\ serving' = NotServing
    /\ left' = [left EXCEPT !.crashes = @ - 1]
    /\ UNCHANGED <<run, seen, late, host, pushed>>

\* What the daemon and the controller do of themselves.
Daemon(h) ==
    \/ Start(h) \/ RecoverNothing(h) \/ RecoverFenced(h) \/ RecoverFinished(h)
    \/ DeliverNothing(h) \/ Deliver(h) \/ Claim(h) \/ Replay(h)
    \/ Prepare(h) \/ ReportUnable(h) \/ Fenced(h) \/ Collect(h)
    \/ Push(h) \/ Persist(h) \/ Post(h) \/ Clean(h)

Next ==
    \/ \E h \in Hosts :
        \/ Daemon(h) \/ Upload(h)
        \/ DeliverDeferred(h) \/ LoseClaim(h) \/ LosePost(h) \/ LateClaim(h)
        \/ DaemonDies(h) \/ HostReboots(h)
        \/ \E g \in Gens : Exit(h, g) \/ LateFinish(h, g)
    \/ EndFinish \/ WebDies
    \/ Inspect \/ Timeout \/ Pass \/ Finalize
    \/ LeaseLapses \/ DeadlinePasses

Spec == Init /\ [][Next]_vars

\* The process manager restarts daemons, daemons and the web process go on
\* with what they are doing, workloads end, the scheduler passes and the
\* deadline comes; nothing is said of leases, losses, uploads and crashes.
FairSpec ==
    /\ Spec
    /\ \A h \in Hosts : WF_vars(Daemon(h))
    /\ \A h \in Hosts : \A g \in Gens : WF_vars(Exit(h, g))
    /\ WF_vars(EndFinish)
    /\ WF_vars(Finalize)
    /\ WF_vars(DeadlinePasses)
    /\ WF_vars(run.over /\ Timeout)
    /\ WF_vars(Inspect)

-----------------------------------------------------------------------------
(* Properties.                                                             *)

Runs == [status : {"running", "timeout", "done"}, timed : BOOLEAN, host : Hosts \cup {NoHost},
         gen : 0 .. MaxGen, last : 0 .. MaxGen, leased : BOOLEAN, over : BOOLEAN,
         got : 0 .. MaxGen, kind : {"none", "work", "failure"}, exit : BOOLEAN, text : 0 .. MaxGen]
Finishes == [host : Hosts \cup {NoHost}, gen : 0 .. MaxGen, kind : {"none", "work", "failure"}]
Requests == [op : {"claim", "finish"}, host : Hosts, gen : 0 .. MaxGen]
Workers == [at : Stages, gen : 0 .. MaxGen, recovering : BOOLEAN, bound : 0 .. MaxGen]
Files == [active : 0 .. MaxGen, pending : 0 .. MaxGen]

\* The shape of the record, the requests and the daemons' files.
TypeOK ==
    /\ run \in Runs
    /\ serving \in Finishes
    /\ seen \in {"none", "fresh", "outdated"}
    /\ late \subseteq Requests
    /\ wk \in [Hosts -> Workers]
    /\ disk \in [Hosts -> Files]
    /\ sup \in [Hosts -> SUBSET Gens]
    /\ exits \in [Hosts -> SUBSET Gens]
    /\ pushed \subseteq Gens
    /\ left \in [hosts : SUBSET Hosts, crashes : Nat, lost : Nat]

\* What reap collects is whole: a run whose result files one generation wrote
\* is never granted to another, although the completion marker may be missing
\* after a crash of the web process; and what is finalized is the result of
\* the generation that still held the lease.
ResultIntact ==
    /\ run.got # 0 => run.last = run.got
    /\ run.status = "done" => run.got # 0 /\ run.gen = run.got

\* A result that was accepted with its marker is never made a timeout.
AcceptedNotTimedOut == run.exit => run.status # "timeout"

\* The commit that an accepted result names was pushed to its staging ref.
ResultPushed == run.kind = "work" => run.got \in pushed

\* A host that asks for work has none left: a daemon dies and leaves its
\* supervisor running, but no supervisor outlives the recovery after it.
PollsIdle ==
    \A h \in Hosts : wk[h].at \in {"deliver", "poll", "prepare"} => sup[h] = {}

\* While its lease is good, the result of a finished execution is where a
\* restart of the daemon finds it, or the controller has it.
FinishedWorkKept ==
    \A h \in Hosts : \A g \in exits[h] :
        Current(h, g) => g \in {run.got, disk[h].active, disk[h].pending}

\* An accepted result and a revoked lease are final: no late or repeated
\* request, no restart and no save of the scheduler's older copy changes what
\* was received or lets a timed out run receive anything.
VerdictFinal ==
    [][run.exit \/ run.status = "timeout" =>
        /\ <<run'.got, run'.kind, run'.exit, run'.last>> = <<run.got, run.kind, run.exit, run.last>>
        /\ run.status # "running" => run'.status = run.status]_vars

\* A finished execution reaches the controller as long as its lease is good; a
\* generation is granted to one host only (finish, deliver_pending).
FinishedWorkDelivered ==
    \A g \in Gens :
        (\E h \in Hosts : g \in exits[h] /\ Current(h, g))
            ~> (run.got = g \/ \A h \in Hosts : ~Current(h, g))

\* A run with an execution timeout comes to an end once it was claimed.
RunEnds == run.timed /\ run.last > 0 ~> run.status # "running"

\* Whatever became of its claim, a daemon that restarts polls again
\* (docs/worker-protocol.md: it "cannot restart-loop on an undeliverable
\* result").
DaemonReturns == \A h \in Hosts : wk[h].at = "down" ~> wk[h].at = "poll"

=============================================================================
