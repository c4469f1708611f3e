------------------------------ MODULE TaskLoop ------------------------------
(***************************************************************************)
(* One task from `ready` to an open pull request: dispatch, the worker's   *)
(* process, reap and finalize, the pre-PR checks, retries, and the         *)
(* operator's commands.                                                    *)
(*                                                                         *)
(* Four durable things are written one after the other and never together: *)
(* the task file (`file`), the task's entry of state.json (`disk`), the    *)
(* run records (`runs`) and GitHub (`prs`).  A controller pass holds       *)
(* tick.lock and works on its own copies `t` and `mem`; `garden cancel`    *)
(* and `garden retry` run in another process without that lock, so their   *)
(* writes fall between any two writes of a pass.  Store.save and           *)
(* State.save merge field by field: a writer overwrites what it changed    *)
(* and nothing else.  Crash kills the controller between two writes; the   *)
(* workers it started live on.                                             *)
(***************************************************************************)
EXTENDS Integers, FiniteSets, Sequences

CONSTANTS
    MaxAttempts,    \* max_attempts
    MaxRevisions,   \* max_revisions
    EnvCap,         \* max_consecutive_env_errors
    Bounds          \* bounds, each a choice of what may happen: see BoundSet

\* workers, checks: worker and check runs started; env: workers that stop for
\* lack of quota; vanish: processes that die without an exit code; timeouts:
\* workers past their time budget; commands: cancel and retry commands;
\* answers: answers to a worker's question; edits: edits of the task's
\* acceptance criteria; crashes: controller kills.
BoundSet == [workers : Nat, checks : Nat, env : Nat, vanish : Nat, timeouts : Nat,
             commands : Nat, answers : Nat, edits : Nat, crashes : Nat]

ASSUME TaskLoopAssumption ==
    /\ {MaxAttempts, MaxRevisions, EnvCap} \subseteq Nat \ {0}
    /\ Bounds \subseteq BoundSet

VARIABLES
    file,     \* the task file: status, attempts, pr, and the criteria's version
    disk,     \* the task's entry of state.json
    runs,     \* the run records, each with the truth about its process
    prs,      \* pull requests opened on GitHub for the task's branch
    t,        \* the pass's task object and the fields it was loaded with
    mem,      \* the pass's state entry and the keys it wrote
    pc,       \* where the pass is
    cur,      \* the run the pass handles, as it was loaded
    op,       \* the operator command under way in another process
    left,     \* what remains of the bound that was chosen
    ghost     \* history the properties need

vars == <<file, disk, runs, prs, t, mem, pc, cur, op, left, ghost>>

WorkerModes == {"work", "revise", "resume"}
Active == {"preparing", "running"}      \* RunStore.active
NoCheckRun == [run |-> 0, stage |-> "none", collected |-> FALSE, retries |-> 0, worker |-> 0]

-----------------------------------------------------------------------------
(* Copies and merges.                                                      *)

\* _merge_frontmatter: the fields this writer changed, on what is there now.
MergeTask(base, new, current) ==
    [f \in DOMAIN current |-> IF new[f] # base[f] THEN new[f] ELSE current[f]]

\* A pass saves its task with new values; its own copy does not see the merge.
SaveTask(new) ==
    /\ file' = MergeTask(t.base, new, file)
    /\ t' = [val |-> new, base |-> new]

\* _transition of a status that is not terminal.
Transition(status) == SaveTask([t.val EXCEPT !.status = status])

\* st[key] = value for the keys of `upd`.
Put(m, upd) ==
    [val   |-> [k \in DOMAIN m.val |-> IF k \in DOMAIN upd THEN upd[k] ELSE m.val[k]],
     dirty |-> m.dirty \cup DOMAIN upd]

\* State.save: the keys written since the last save, on what is there now.
MergeState(m, current) ==
    [k \in DOMAIN current |-> IF k \in m.dirty THEN m.val[k] ELSE current[k]]

SaveState(m) ==
    /\ disk' = MergeState(m, disk)
    /\ mem' = [m EXCEPT !.dirty = {}]

Clean(entry) == [val |-> entry, dirty |-> {}]
St == mem.val

-----------------------------------------------------------------------------
(* Run records.                                                            *)

NewRun(mode, crit, rebase) ==
    [mode |-> mode, st |-> "preparing", fin |-> FALSE, pid |-> FALSE, prep |-> TRUE,
     proc |-> "none", res |-> "none", brief |-> crit, crit |-> crit,
     question |-> FALSE, rebase |-> rebase, events |-> 0]

Workers == {k \in DOMAIN runs : runs[k].mode \in WorkerModes}
ActiveRuns == {k \in DOMAIN runs : runs[k].st \in Active}
Newest(S) == IF S = {} THEN 0 ELSE CHOOSE k \in S : \A j \in S : j <= k

\* latest_worker_run: the newest one still running, else the newest.
LatestWorkerRun ==
    LET running == {k \in Workers : runs[k].st = "running"}
    IN  IF running # {} THEN Newest(running) ELSE Newest(Workers)

\* process_finished of a local run: an exit code, or no process behind its pid.
Finished(r) == IF r.pid THEN r.proc \in {"exited", "gone"} ELSE r.proc = "exited"

\* The pass loaded the record as `cur`; another process has changed its status
\* since, so Run.save refuses (RunMutationConflict).
Conflict == runs[cur.run].st # cur.st

Handle(k) == [run |-> k, st |-> runs[k].st]
Nothing == [run |-> 0, st |-> "none"]

\* The pass closes the run it handles.
CloseRun(status) ==
    /\ runs' = [runs EXCEPT ![cur.run].st = status]
    /\ cur' = [cur EXCEPT !.st = status]

-----------------------------------------------------------------------------
Init ==
    /\ file = [status |-> "ready", attempts |-> 0, pr |-> FALSE, crit |-> 1]
    /\ disk = [check |-> NoCheckRun, feedback |-> FALSE, rebase |-> FALSE,
               revisions |-> 0, envs |-> 0, human |-> FALSE, question |-> FALSE]
    /\ runs = <<>> /\ prs = 0
    /\ t = [val |-> file, base |-> file] /\ mem = Clean(disk)
    /\ pc = "idle" /\ cur = Nothing
    /\ op = [at |-> "none", kind |-> "none", val |-> file, st |-> disk]
    /\ left \in Bounds
    /\ ghost = [cancelled |-> FALSE, moved |-> FALSE, edits |-> 0, commanded |-> FALSE]

-----------------------------------------------------------------------------
(* Processes and people.                                                   *)

\* A worker's `gaps` is work done without evidence for some criterion.
ProcessEnds(k, result) ==
    /\ runs[k].proc = "live"
    /\ result \in IF runs[k].mode = "check" THEN {"pass", "fail", "norun"}
                  ELSE {"done", "gaps", "failed", "blocked", "needs_input", "env_error"}
    /\ result = "env_error" => left.env > 0
    /\ runs' = [runs EXCEPT ![k].proc = "exited", ![k].res = result]
    /\ left' = [left EXCEPT !.env = @ - (IF result = "env_error" THEN 1 ELSE 0)]
    /\ UNCHANGED <<file, disk, prs, t, mem, pc, cur, op, ghost>>

\* Killed from outside: no exit code; finalize may salvage a worker's commits.
ProcessVanishes(k) ==
    /\ runs[k].proc = "live" /\ left.vanish > 0
    /\ \E result \in IF runs[k].mode = "check" THEN {"norun"} ELSE {"failed", "done"} :
          runs' = [runs EXCEPT ![k].proc = "gone", ![k].res = result]
    /\ left' = [left EXCEPT !.vanish = @ - 1]
    /\ UNCHANGED <<file, disk, prs, t, mem, pc, cur, op, ghost>>

\* A process that was sent SIGTERM goes in its own time.
ProcessDies(k) ==
    /\ runs[k].proc = "dying"
    /\ runs' = [runs EXCEPT ![k].proc = "gone"]
    /\ UNCHANGED <<file, disk, prs, t, mem, pc, cur, op, left, ghost>>

EditCriteria ==
    /\ left.edits > 0
    /\ file' = [file EXCEPT !.crit = @ + 1]
    /\ left' = [left EXCEPT !.edits = @ - 1]
    /\ ghost' = [ghost EXCEPT !.edits = @ + 1]
    /\ UNCHANGED <<disk, runs, prs, t, mem, pc, cur, op>>

-----------------------------------------------------------------------------
(* A pass begins: reap the task's worker run.                              *)

TickStart ==
    /\ pc = "idle"
    /\ pc' = "reap"
    /\ t' = [val |-> file, base |-> file] /\ mem' = Clean(disk) /\ cur' = Nothing
    /\ UNCHANGED <<file, disk, runs, prs, op, left, ghost>>

\* _reap_all leads to reap: no check owns the task and it is running.  reap's
\* way back to `ready` for want of a run to follow is never taken (RunFollowed).
ReapsWorker ==
    pc = "reap" /\ St.check.run = 0 /\ t.val.status = "running"

\* Nothing to reap yet.
ReapNothing ==
    /\ pc = "reap"
    /\ IF St.check.run # 0
         THEN /\ t.val.status # "cancelled"
              /\ runs[St.check.run].st = "running" /\ ~Finished(runs[St.check.run])
         ELSE t.val.status = "running" =>
                LET k == LatestWorkerRun
                IN  /\ k # 0
                    /\ runs[k].st = "running" /\ ~runs[k].fin /\ ~Finished(runs[k])
    /\ pc' = "sweep"
    /\ UNCHANGED <<file, disk, runs, prs, t, mem, cur, op, left, ghost>>

\* _finished_or_timed_out past the budget: SIGTERM is sent and the record
\* closed; nobody waits for the process to go.
TimeOut ==
    /\ ReapsWorker /\ left.timeouts > 0
    /\ LET k == LatestWorkerRun
       IN  /\ k # 0
           /\ runs[k].st = "running" /\ ~runs[k].fin /\ runs[k].proc = "live"
           /\ runs' = [runs EXCEPT ![k].proc = "dying", ![k].res = "failed",
                                   ![k].st = "timeout", ![k].fin = TRUE]
           /\ cur' = [run |-> k, st |-> "timeout"]
    /\ left' = [left EXCEPT !.timeouts = @ - 1]
    /\ pc' = "timed_out"
    /\ UNCHANGED <<file, disk, prs, t, mem, op, ghost>>

EmitTimeout ==
    /\ pc = "timed_out"
    /\ runs' = [runs EXCEPT ![cur.run].events = @ + 1]
    /\ pc' = "giving_up"
    /\ UNCHANGED <<file, disk, prs, t, mem, cur, op, left, ghost>>

\* The outcome of a finished worker is collected and saved with its time of
\* completion, before anything is done with it.
CollectRun ==
    /\ ReapsWorker
    /\ LET k == LatestWorkerRun
       IN  /\ k # 0
           /\ runs[k].st = "running" /\ ~runs[k].fin /\ Finished(runs[k])
           /\ runs' = [runs EXCEPT ![k].fin = TRUE]
           /\ cur' = Handle(k)
    /\ pc' = "collected"
    /\ UNCHANGED <<file, disk, prs, t, mem, op, left, ghost>>

EmitFinished ==
    /\ pc = "collected"
    /\ runs' = [runs EXCEPT ![cur.run].events = @ + 1]
    /\ pc' = "outcome"
    /\ UNCHANGED <<file, disk, prs, t, mem, cur, op, left, ghost>>

\* Mutant: only a record that is still active is taken up again.
ResumeActive ==
    /\ ReapsWorker
    /\ LET k == LatestWorkerRun
       IN  /\ k # 0 /\ runs[k].fin
           /\ cur' = Handle(k)
           /\ pc' = IF runs[k].st \in Active THEN "outcome" ELSE "sweep"
    /\ UNCHANGED <<file, disk, runs, prs, t, mem, op, left, ghost>>

\* An earlier finalize was interrupted (_is_unreaped): go on from there.
ResumeFinalize ==
    /\ ReapsWorker
    /\ LET k == LatestWorkerRun
       IN  /\ k # 0 /\ runs[k].fin
           /\ cur' = Handle(k)
           /\ pc' = IF runs[k].st = "timeout" THEN "giving_up" ELSE "outcome"
    /\ UNCHANGED <<file, disk, runs, prs, t, mem, op, left, ghost>>

-----------------------------------------------------------------------------
(* finalize, by outcome.                                                   *)

\* The record changed under the pass: the exception ends this task's reap.
FinalizeRefused ==
    /\ pc = "outcome" /\ Conflict
    /\ pc' = "sweep"
    /\ UNCHANGED <<file, disk, runs, prs, t, mem, cur, op, left, ghost>>

Outcome(results) == pc = "outcome" /\ ~Conflict /\ runs[cur.run].res \in results

FailRun ==
    /\ Outcome({"failed", "none"})
    /\ CloseRun("failed")
    /\ SaveState(Put(mem, [envs |-> 0]))
    /\ pc' = "giving_up"
    /\ UNCHANGED <<file, prs, t, op, left, ghost>>

\* Mutant: one attempt too many.
RetryOnceMore(r) ==
    IF r.mode = "work" /\ t.val.attempts <= MaxAttempts THEN "ready" ELSE "failed"

\* _retry_or_fail's next status: only a work round is tried again.
RetryStatus(r) ==
    IF r.mode = "work" /\ t.val.attempts < MaxAttempts THEN "ready" ELSE "failed"

RetryOrFail ==
    /\ pc = "giving_up"
    /\ Transition(RetryStatus(runs[cur.run]))
    /\ pc' = "sweep"
    /\ UNCHANGED <<disk, runs, prs, mem, cur, op, left, ghost>>

BlockRun ==
    /\ Outcome({"blocked"})
    /\ CloseRun("blocked")
    /\ SaveState(Put(mem, [envs |-> 0]))
    /\ Transition("failed")
    /\ pc' = "sweep"
    /\ UNCHANGED <<prs, op, left, ghost>>

\* needs_input: the question is saved before the waiting status is published.
AskHuman ==
    /\ Outcome({"needs_input"})
    /\ CloseRun("waiting")
    /\ SaveState(Put(mem, [envs |-> 0, question |-> TRUE]))
    /\ pc' = "asking"
    /\ UNCHANGED <<file, prs, t, op, left, ghost>>

AskTransition ==
    /\ pc = "asking"
    /\ Transition("waiting_human")
    /\ pc' = "sweep"
    /\ UNCHANGED <<disk, runs, prs, mem, cur, op, left, ghost>>

\* _handle_quota_env_error: the state it restores ...
EnvStop ==
    /\ Outcome({"env_error"})
    /\ CloseRun("env_error")
    /\ LET r == runs[cur.run]
           n == St.envs + 1
       IN  SaveState(Put(mem,
             IF n >= EnvCap THEN [envs |-> n, human |-> TRUE]
             ELSE IF r.mode = "revise" /\ t.val.pr
               THEN IF r.rebase THEN [envs |-> n, feedback |-> TRUE, rebase |-> TRUE]
                    ELSE [envs |-> n, feedback |-> TRUE,
                          revisions |-> IF St.revisions > 0 THEN St.revisions - 1 ELSE 0]
             ELSE IF r.mode = "resume" THEN [envs |-> n, question |-> r.question]
             ELSE [envs |-> n]))
    /\ pc' = "env_stopped"
    /\ UNCHANGED <<file, prs, t, op, left, ghost>>

\* ... and where it sends the task; a work round's attempt is not counted.
EnvStopTransition ==
    /\ pc = "env_stopped"
    /\ LET mode == runs[cur.run].mode
       IN  SaveTask([t.val EXCEPT
             !.attempts = IF mode = "work" /\ @ > 0 THEN @ - 1 ELSE @,
             !.status = IF St.envs >= EnvCap \/ mode = "resume" THEN "waiting_human"
                        ELSE IF mode = "revise" /\ t.val.pr THEN "changes_requested"
                        ELSE "ready"])
    /\ pc' = "sweep"
    /\ UNCHANGED <<disk, runs, prs, mem, cur, op, left, ghost>>

FinishRun ==
    /\ Outcome({"done", "gaps"})
    /\ CloseRun("done")
    /\ SaveState(Put(mem, [envs |-> 0]))
    /\ pc' = "push"
    /\ UNCHANGED <<file, prs, t, op, left, ghost>>

PushFails ==
    /\ pc = "push"
    /\ Transition("failed")
    /\ pc' = "sweep"
    /\ UNCHANGED <<disk, runs, prs, mem, cur, op, left, ghost>>

\* Pushed; when no check applies to the change the pull request follows at once.
PushWithoutChecks ==
    /\ pc = "push"
    /\ pc' = "open_pr"
    /\ UNCHANGED <<file, disk, runs, prs, t, mem, cur, op, left, ghost>>

-----------------------------------------------------------------------------
(* Check runs.                                                             *)

\* _dispatch_check_run: record and process, then the continuation's pointer.
StartCheck(stage, retries, worker) ==
    /\ left.checks > 0
    /\ runs' = Append(runs, [NewRun("check", 0, FALSE) EXCEPT
                               !.st = "running", !.pid = TRUE, !.proc = "live"])
    /\ mem' = Put(mem, [check |-> [run |-> Len(runs) + 1, stage |-> stage,
                                   collected |-> FALSE, retries |-> retries,
                                   worker |-> worker]])
    /\ left' = [left EXCEPT !.checks = @ - 1]
    /\ pc' = "checking"
    /\ UNCHANGED <<file, disk, prs, t, cur, op, ghost>>

SaveCheckPointer ==
    /\ pc = "checking"
    /\ SaveState(mem)
    /\ pc' = "sweep"
    /\ UNCHANGED <<file, runs, prs, t, cur, op, left, ghost>>

PushThenCheck ==
    /\ pc = "push"
    /\ StartCheck("pre_pr", 0, cur.run)

\* Local admission refuses the check; what led to it is tried again later.
CheckRefused ==
    /\ pc = "push" /\ left.checks = 0
    /\ pc' = "sweep"
    /\ UNCHANGED <<file, disk, runs, prs, t, mem, cur, op, left, ghost>>

ReapsCheck == pc = "reap" /\ St.check.run # 0 /\ t.val.status # "cancelled"
Check == runs[St.check.run]
ForgetPointer == [check |-> NoCheckRun]

\* _retire_terminal_check of a cancelled task: the process is stopped first.
Retired(r) ==
    [r EXCEPT !.st = IF Finished(r) THEN "done" ELSE "cancelled",
              !.proc = IF Finished(r) THEN @ ELSE "gone",
              !.fin = TRUE, !.events = @ + 1]

RetireCheck ==
    /\ pc = "reap" /\ St.check.run # 0 /\ t.val.status = "cancelled"
    /\ runs' = IF Check.st # "running" THEN runs
               ELSE [runs EXCEPT ![St.check.run] = Retired(Check)]
    /\ SaveState(Put(mem, ForgetPointer))
    /\ pc' = "sweep"
    /\ UNCHANGED <<file, prs, t, cur, op, left, ghost>>

ForgetCheck ==
    /\ ReapsCheck
    /\ Check.st # "running" /\ ~(St.check.collected /\ Check.st = "done")
    /\ mem' = Put(mem, ForgetPointer)
    /\ pc' = "sweep"
    /\ UNCHANGED <<file, disk, runs, prs, t, cur, op, left, ghost>>

CloseCheck ==
    /\ ReapsCheck
    /\ Check.st = "running" /\ Finished(Check)
    /\ runs' = [runs EXCEPT ![St.check.run].st = "done", ![St.check.run].fin = TRUE]
    /\ pc' = "closing"
    /\ UNCHANGED <<file, disk, prs, t, mem, cur, op, left, ghost>>

MarkCollected ==
    /\ pc = "closing"
    /\ SaveState(Put(mem, [check |-> [St.check EXCEPT !.collected = TRUE]]))
    /\ runs' = [runs EXCEPT ![St.check.run].events = @ + 1]
    /\ pc' = "verdict"
    /\ UNCHANGED <<file, prs, t, cur, op, left, ghost>>

RerouteCheck ==
    /\ ReapsCheck
    /\ Check.st = "done" /\ St.check.collected
    /\ pc' = "verdict"
    /\ UNCHANGED <<file, disk, runs, prs, t, mem, cur, op, left, ghost>>

Verdict(stages, result) ==
    pc = "verdict" /\ St.check.stage \in stages /\ Check.res = result

RetryCheck ==
    /\ Verdict({"pre_pr", "base_probe", "rebase_recheck"}, "norun")
    /\ St.check.retries < 1
    /\ StartCheck(St.check.stage, St.check.retries + 1, St.check.worker)

\* _retry_or_park_check, second time: a person is asked, then the task moves.
ParkCheck ==
    /\ Verdict({"pre_pr", "base_probe", "rebase_recheck"}, "norun")
    /\ St.check.retries >= 1
    /\ SaveState(Put(mem, [human |-> TRUE]))
    /\ pc' = "parking"
    /\ UNCHANGED <<file, runs, prs, t, cur, op, left, ghost>>

ParkTransition ==
    /\ pc = "parking"
    /\ Transition(IF t.val.pr THEN "in_review" ELSE "changes_requested")
    /\ SaveState(Put(mem, ForgetPointer))
    /\ pc' = "sweep"
    /\ UNCHANGED <<runs, prs, cur, op, left, ghost>>

\* The checks pass: the pull request is opened with the worker's result.
ChecksPass ==
    /\ Verdict({"pre_pr", "rebase_recheck"}, "pass")
    /\ cur' = Handle(St.check.worker)
    /\ pc' = "open_pr"
    /\ UNCHANGED <<file, disk, runs, prs, t, mem, op, left, ghost>>

\* A failure is probed at the branch's base before the branch is blamed.
ProbeBase ==
    /\ Verdict({"pre_pr"}, "fail")
    /\ StartCheck("base_probe", 0, St.check.worker)

\* The base fails too but has moved: rebased onto it, checked again.
RebaseAndRecheck ==
    /\ Verdict({"base_probe"}, "fail")
    /\ StartCheck("rebase_recheck", 0, St.check.worker)

\* The base fails and has not moved: no revise round, a person is told.
BaseBroken ==
    /\ Verdict({"base_probe"}, "fail")
    /\ mem' = Put(mem, [human |-> TRUE, check |-> NoCheckRun])
    /\ Transition("changes_requested")
    /\ pc' = "sweep"
    /\ UNCHANGED <<disk, runs, prs, cur, op, left, ghost>>

\* The rebase could not be pushed: nothing but the pointer changes.
RebaseFails ==
    /\ Verdict({"base_probe"}, "fail")
    /\ mem' = Put(mem, ForgetPointer)
    /\ pc' = "sweep"
    /\ UNCHANGED <<file, disk, runs, prs, t, cur, op, left, ghost>>

\* Continuing would start another check, which admission refuses.
NextCheckRefused ==
    /\ left.checks = 0
    /\ \/ Verdict({"pre_pr"}, "fail") \/ Verdict({"base_probe"}, "fail")
       \/ Verdict({"pre_pr", "base_probe", "rebase_recheck"}, "norun") /\ St.check.retries < 1
    /\ pc' = "sweep"
    /\ UNCHANGED <<file, disk, runs, prs, t, mem, cur, op, left, ghost>>

\* _start_check_revise: feedback and status, with a person at the cap.
CheckRevise(rebase) ==
    /\ mem' = Put(mem, [feedback |-> TRUE, rebase |-> rebase \/ St.rebase,
                        human |-> St.human \/ (~rebase /\ St.revisions >= MaxRevisions),
                        check |-> NoCheckRun])
    /\ Transition("changes_requested")
    /\ pc' = "sweep"
    /\ UNCHANGED <<disk, runs, prs, cur, op, left, ghost>>

\* The branch owns the failure: a mechanical one, a clean base, or one that
\* stays after the rebase.
BranchAtFault ==
    /\ \/ Verdict({"pre_pr", "rebase_recheck"}, "fail")
       \/ Verdict({"base_probe"}, "pass")
    /\ CheckRevise(FALSE)

RebaseConflicts ==
    /\ Verdict({"base_probe"}, "fail")
    /\ CheckRevise(TRUE)

-----------------------------------------------------------------------------
(* _open_or_update_pr.                                                     *)

\* Mutant: judged by the criteria the task has now.
CriteriaNow(r) == t.val.crit

\* The criteria a result is judged by: the run's snapshot, else the task's.
Criteria(r) == IF r.crit # 0 THEN r.crit ELSE t.val.crit

\* Evidence is lacking where the worker left it out, and may be for criteria
\* it was not given.
Moved == Criteria(runs[cur.run]) # runs[cur.run].brief
Judge == ghost' = [ghost EXCEPT !.moved = @ \/ Moved]
Evident == pc = "open_pr" /\ (runs[cur.run].res = "done" \/ Moved)

\* Criteria without evidence: a revise round instead of a pull request.
EvidenceGaps ==
    /\ pc = "open_pr" /\ (runs[cur.run].res = "gaps" \/ Moved)
    /\ mem' = Put(mem, [feedback |-> TRUE,
                        human |-> St.human \/ St.revisions >= MaxRevisions,
                        check |-> NoCheckRun])
    /\ Transition("changes_requested")
    /\ Judge
    /\ pc' = "sweep"
    /\ UNCHANGED <<disk, runs, prs, cur, op, left>>

\* The branch's open pull request is found, or one is created.
OpenPr ==
    /\ Evident
    /\ prs' = IF prs > 0 THEN prs ELSE prs + 1
    /\ mem' = IF prs > 0 THEN mem ELSE Put(mem, [revisions |-> 0])
    /\ Judge
    /\ pc' = "opened"
    /\ UNCHANGED <<file, disk, runs, t, cur, op, left>>

OpenPrTransition ==
    /\ pc = "opened"
    /\ SaveTask([t.val EXCEPT !.status = "in_review", !.pr = TRUE])
    /\ mem' = Put(mem, ForgetPointer)
    /\ pc' = "sweep"
    /\ UNCHANGED <<disk, runs, prs, cur, op, left, ghost>>

\* GitHub fails: the branch is pushed, a person opens the pull request.
OpenPrFails ==
    /\ Evident
    /\ Transition("in_review")
    /\ mem' = Put(mem, ForgetPointer)
    /\ Judge
    /\ pc' = "sweep"
    /\ UNCHANGED <<disk, runs, prs, cur, op, left>>

-----------------------------------------------------------------------------
(* reap_dead_runs.                                                         *)

\* Mutant: a running task's worker is not owned.
OwnedChecks(k) == St.check.run = k

\* _owned_run_ids: the runs another reap still follows.
Owned(k) ==
    \/ St.check.run = k
    \/ t.val.status = "running" /\ LatestWorkerRun = k

\* No pid recorded and the preparer is gone.
NeverStarted(k) == ~runs[k].pid /\ ~runs[k].prep /\ runs[k].proc # "exited"
Vanished(k) == runs[k].pid /\ runs[k].proc = "gone"

\* Mutant: only the records of checks are swept.
DanglingCheck(k) == ~Owned(k) /\ Finished(runs[k]) /\ k \notin Workers

Dangling(k) == ~Owned(k) /\ Finished(runs[k])

SweepDead(k) ==
    /\ pc = "sweep" /\ k \in ActiveRuns
    /\ NeverStarted(k) \/ Vanished(k)
    /\ ~(NeverStarted(k) /\ t.val.status = "cancelled")
    /\ runs' = [runs EXCEPT ![k].st = "failed", ![k].fin = TRUE, ![k].events = @ + 1]
    /\ cur' = [run |-> k, st |-> "failed"]
    /\ IF t.val.status = "running" /\ k \in Workers /\ LatestWorkerRun = k
         THEN Transition(RetryStatus(runs[k]))
         ELSE UNCHANGED <<file, t>>
    /\ UNCHANGED <<disk, prs, mem, pc, op, left, ghost>>

SweepDangling(k) ==
    /\ pc = "sweep" /\ k \in ActiveRuns
    /\ ~NeverStarted(k) /\ ~Vanished(k) /\ Dangling(k)
    /\ runs' = [runs EXCEPT ![k].st = "closed", ![k].fin = TRUE, ![k].events = @ + 1]
    /\ UNCHANGED <<file, disk, prs, t, mem, pc, cur, op, left, ghost>>

\* The rest of the pass takes task files that changed into account
\* (refresh_tasks_if_changed).
SweepDone ==
    /\ pc = "sweep"
    /\ \A k \in ActiveRuns :
          ~Vanished(k) /\ ~Dangling(k)
          /\ (NeverStarted(k) => t.val.status = "cancelled")
    /\ t' = [val |-> file, base |-> file]
    /\ cur' = Nothing
    /\ pc' = "dispatch"
    /\ UNCHANGED <<file, disk, runs, prs, mem, op, left, ghost>>

-----------------------------------------------------------------------------
(* Dispatch.                                                               *)

\* worker_run_in_flight
WorkerInFlight == \E k \in ActiveRuns : k \in Workers

\* worker_candidates: the mode the task is queued for.
QueuedMode ==
    IF St.human THEN "none"
    ELSE IF t.val.status = "ready" THEN "work"
    ELSE IF /\ t.val.status = "changes_requested" /\ St.feedback /\ St.check.run = 0
            /\ St.rebase \/ St.revisions < MaxRevisions
      THEN "revise"
    ELSE "none"

DispatchNothing ==
    /\ pc = "dispatch"
    /\ QueuedMode = "none" \/ WorkerInFlight \/ left.workers = 0
    /\ pc' = "end"
    /\ UNCHANGED <<file, disk, runs, prs, t, mem, cur, op, left, ghost>>

\* _dispatch reserves a run record with the criteria of the brief ...
Reserve(mode, task) ==
    /\ left.workers > 0
    /\ runs' = Append(runs, NewRun(mode, task.crit, St.rebase))
    /\ cur' = [run |-> Len(runs) + 1, st |-> "preparing"]
    /\ pc' = "reserved"

DispatchReserve ==
    /\ pc = "dispatch" /\ QueuedMode # "none" /\ ~WorkerInFlight
    /\ Reserve(QueuedMode, t.val)
    /\ mem' = Put(mem, [human |-> FALSE])
    /\ left' = [left EXCEPT !.workers = @ - 1]
    /\ UNCHANGED <<file, disk, prs, t, op, ghost>>

CloseDispatchFailure ==
    runs' = [runs EXCEPT ![cur.run].st = "failed", ![cur.run].fin = TRUE,
                         ![cur.run].events = @ + 1]

\* dispatch raised: a tick gives the task up; an answer drops what it had not saved.
DispatchRaised ==
    /\ IF runs[cur.run].mode = "resume"
         THEN UNCHANGED <<file, t>> /\ pc' = "idle" /\ mem' = Clean(disk)
         ELSE Transition("failed") /\ pc' = "end" /\ UNCHANGED mem
    /\ UNCHANGED <<disk, prs, cur, op, left, ghost>>

\* ... and fails while it prepares the worktree ...
DispatchFails ==
    /\ pc = "reserved"
    /\ CloseDispatchFailure
    /\ DispatchRaised

\* ... or admission refuses the host: the task stays queued ...
DispatchDeferred ==
    /\ pc = "reserved" /\ runs[cur.run].mode # "resume"
    /\ CloseDispatchFailure
    /\ pc' = "end"
    /\ UNCHANGED <<file, disk, prs, t, mem, cur, op, left, ghost>>

\* ... or starts the process: Popen, and then the save of its pid.
DispatchLaunch ==
    /\ pc = "reserved"
    /\ runs' = [runs EXCEPT ![cur.run].proc = "live"]
    /\ pc' = "launched"
    /\ UNCHANGED <<file, disk, prs, t, mem, cur, op, left, ghost>>

DispatchRecordPid ==
    /\ pc = "launched" /\ ~Conflict
    /\ runs' = [runs EXCEPT ![cur.run].pid = TRUE, ![cur.run].st = "running"]
    /\ cur' = [cur EXCEPT !.st = "running"]
    /\ pc' = "recorded"
    /\ UNCHANGED <<file, disk, prs, t, mem, op, left, ghost>>

\* The worker ended and a command closed its record before the pid was saved.
DispatchConflict ==
    /\ pc = "launched" /\ Conflict
    /\ UNCHANGED runs
    /\ DispatchRaised

DispatchTransition ==
    /\ pc = "recorded"
    /\ LET mode == runs[cur.run].mode
       IN  /\ SaveTask([t.val EXCEPT !.status = "running",
                                     !.attempts = IF mode = "work" THEN @ + 1 ELSE @])
           /\ mem' = IF mode = "revise"
                       THEN Put(mem, [feedback |-> FALSE, rebase |-> FALSE,
                                      revisions |-> IF St.rebase THEN St.revisions
                                                    ELSE St.revisions + 1])
                       ELSE Put(mem, [rebase |-> FALSE])
    /\ pc' = "transitioned"
    /\ UNCHANGED <<disk, runs, prs, cur, op, left, ghost>>

DispatchSave ==
    /\ pc = "transitioned"
    /\ SaveState(mem)
    /\ pc' = IF runs[cur.run].mode = "resume" THEN "answered" ELSE "end"
    /\ UNCHANGED <<file, runs, prs, t, cur, op, left, ghost>>

TickEnd ==
    /\ pc = "end"
    /\ SaveState(mem)
    /\ pc' = "idle"
    /\ UNCHANGED <<file, runs, prs, t, cur, op, left, ghost>>

\* answer, under tick.lock: the question leaves the state, a resume run is
\* dispatched, and only then the run's snapshot is replaced by the question.
Answer ==
    /\ pc = "idle" /\ left.answers > 0
    /\ file.status = "waiting_human"
    /\ t' = [val |-> file, base |-> file]
    /\ mem' = Put(Clean(disk), [question |-> FALSE, human |-> FALSE])
    /\ Reserve("resume", file)
    /\ left' = [left EXCEPT !.workers = @ - 1, !.answers = @ - 1]
    /\ UNCHANGED <<file, disk, prs, op, ghost>>

AnswerSnapshot ==
    /\ pc = "answered"
    /\ runs' = [runs EXCEPT ![cur.run].crit = 0, ![cur.run].question = TRUE]
    /\ pc' = "idle"
    /\ UNCHANGED <<file, disk, prs, t, mem, cur, op, left, ghost>>

\* The controller is killed; its copies and its reservations' owner are gone.
Crash ==
    /\ pc # "idle" /\ left.crashes > 0
    /\ runs' = [k \in DOMAIN runs |-> [runs[k] EXCEPT !.prep = FALSE]]
    /\ t' = [val |-> file, base |-> file] /\ mem' = Clean(disk) /\ cur' = Nothing
    /\ left' = [left EXCEPT !.crashes = @ - 1]
    /\ pc' = "idle"
    /\ UNCHANGED <<file, disk, prs, op, ghost>>

-----------------------------------------------------------------------------
(* garden cancel and garden retry, in a process of their own.              *)

CommandLoads(kind) ==
    /\ op.at = "none" /\ left.commands > 0
    /\ file.status # "cancelled"
    /\ op' = [at |-> "loaded", kind |-> kind, val |-> file, st |-> disk]
    /\ left' = [left EXCEPT !.commands = @ - 1]
    /\ ghost' = [ghost EXCEPT !.commanded = TRUE]
    /\ UNCHANGED <<file, disk, runs, prs, t, mem, pc, cur>>

\* Run.stop confirms the exit, or there was nothing left to stop.
Stoppable(k) == runs[k].pid \/ runs[k].proc = "exited"

\* Mutant: SIGTERM is sent and its effect not awaited.
StopUnwaited(r) == IF r.pid /\ r.proc = "live" THEN [r EXCEPT !.proc = "dying"] ELSE r

\* stop: SIGTERM, SIGKILL, and the process is seen to be gone.
Stopped(r) ==
    IF r.pid /\ r.proc \in {"live", "dying"}
      THEN [r EXCEPT !.proc = "gone", !.res = IF r.mode = "check" THEN "norun" ELSE "failed"]
      ELSE r

\* Mutant: the records get no time of completion.
CommandStopsOnly ==
    /\ op.at = "loaded"
    /\ \A k \in ActiveRuns : Stoppable(k)
    /\ runs' = [k \in DOMAIN runs |->
                 IF k \notin ActiveRuns THEN runs[k]
                 ELSE [Stopped(runs[k]) EXCEPT !.st = "cancelled"]]
    /\ op' = [op EXCEPT !.at = "stopped"]
    /\ UNCHANGED <<file, disk, prs, t, mem, pc, cur, left, ghost>>

\* _cancel_active_run: every process first, then every record.
CommandStops ==
    /\ op.at = "loaded"
    /\ \A k \in ActiveRuns : Stoppable(k)
    /\ runs' = [k \in DOMAIN runs |->
                 IF k \notin ActiveRuns THEN runs[k]
                 ELSE [Stopped(runs[k]) EXCEPT !.st = "cancelled", !.fin = TRUE]]
    /\ op' = [op EXCEPT !.at = "stopped"]
    /\ UNCHANGED <<file, disk, prs, t, mem, pc, cur, left, ghost>>

\* One process cannot be confirmed gone: the command gives up, after the ones
\* before it were stopped.
CommandRefused ==
    /\ op.at = "loaded"
    /\ \E k \in ActiveRuns :
          /\ ~Stoppable(k)
          /\ \A j \in ActiveRuns : j < k => Stoppable(j)
          /\ runs' = [j \in DOMAIN runs |->
                       IF j \in ActiveRuns /\ j < k THEN Stopped(runs[j]) ELSE runs[j]]
    /\ op' = [op EXCEPT !.at = "none"]
    /\ UNCHANGED <<file, disk, prs, t, mem, pc, cur, left, ghost>>

\* retry continues the revise loop when there is one, else starts over.
RetriesRevision ==
    \/ op.val.status = "changes_requested"
    \/ op.val.pr /\ op.val.status \in {"in_review", "failed"}

CommandTransition ==
    /\ op.at = "stopped"
    /\ file' = MergeTask(op.val,
                 CASE op.kind = "cancel" -> [op.val EXCEPT !.status = "cancelled"]
                   [] op.kind = "retry" /\ RetriesRevision ->
                        [op.val EXCEPT !.status = "changes_requested"]
                   [] OTHER -> [op.val EXCEPT !.status = "ready", !.attempts = 0],
                 file)
    /\ ghost' = [ghost EXCEPT !.cancelled = @ \/ op.kind = "cancel"]
    /\ op' = [op EXCEPT !.at = "moved"]
    /\ UNCHANGED <<disk, runs, prs, t, mem, pc, cur, left>>

\* The keys the command writes: a terminal task loses its stop, its feedback
\* and its check; a retried one its stop.
CommandSaves ==
    /\ op.at = "moved"
    /\ LET upd == IF op.kind = "cancel"
                    THEN [human |-> FALSE, feedback |-> FALSE,
                          check |-> NoCheckRun]
                  ELSE IF RetriesRevision
                    THEN [human |-> FALSE, feedback |-> TRUE,
                          revisions |-> IF op.st.revisions >= MaxRevisions
                                          THEN MaxRevisions - 1 ELSE op.st.revisions]
                  ELSE [human |-> FALSE]
           changed == {k \in DOMAIN upd : upd[k] # op.st[k]}
       IN  disk' = [k \in DOMAIN disk |-> IF k \in changed THEN upd[k] ELSE disk[k]]
    /\ op' = [op EXCEPT !.at = "none"]
    /\ UNCHANGED <<file, runs, prs, t, mem, pc, cur, left, ghost>>

-----------------------------------------------------------------------------
Finalize ==
    \/ FinalizeRefused \/ FailRun \/ RetryOrFail \/ BlockRun \/ AskHuman \/ AskTransition
    \/ EnvStop \/ EnvStopTransition \/ FinishRun \/ PushFails \/ PushWithoutChecks
    \/ PushThenCheck \/ CheckRefused

ReapWorker ==
    \/ ReapNothing \/ TimeOut \/ EmitTimeout \/ CollectRun
    \/ EmitFinished \/ ResumeFinalize

ReapCheck ==
    \/ RetireCheck \/ ForgetCheck \/ CloseCheck \/ MarkCollected \/ RerouteCheck
    \/ RetryCheck \/ ParkCheck \/ ParkTransition \/ ChecksPass \/ ProbeBase
    \/ RebaseAndRecheck \/ BaseBroken \/ RebaseFails \/ NextCheckRefused
    \/ BranchAtFault \/ RebaseConflicts \/ SaveCheckPointer

PullRequest == EvidenceGaps \/ OpenPr \/ OpenPrTransition \/ OpenPrFails

Sweep == SweepDone \/ \E k \in DOMAIN runs : SweepDead(k) \/ SweepDangling(k)

Dispatch ==
    \/ DispatchNothing \/ DispatchReserve \/ DispatchFails \/ DispatchDeferred
    \/ DispatchLaunch \/ DispatchRecordPid \/ DispatchConflict \/ DispatchTransition \/ DispatchSave

Tick ==
    \/ TickStart \/ ReapWorker \/ Finalize \/ ReapCheck \/ PullRequest
    \/ Sweep \/ Dispatch \/ AnswerSnapshot \/ TickEnd

Exits ==
    \E k \in DOMAIN runs :
        \/ \E result \in {"done", "gaps", "failed", "blocked", "needs_input", "env_error",
                          "pass", "fail", "norun"} : ProcessEnds(k, result)
        \/ ProcessDies(k)

Command ==
    \/ \E kind \in {"cancel", "retry"} : CommandLoads(kind)
    \/ CommandStops \/ CommandRefused \/ CommandTransition \/ CommandSaves

Next ==
    \/ Tick \/ Exits \/ Command \/ Answer \/ EditCriteria \/ Crash
    \/ \E k \in DOMAIN runs : ProcessVanishes(k)

Spec == Init /\ [][Next]_vars

\* watch keeps ticking, and a process ends by itself or by its supervisor's
\* deadline; nobody is obliged to answer, edit or type a command.
FairSpec == Spec /\ WF_vars(Tick) /\ WF_vars(Exits)

-----------------------------------------------------------------------------
(* Properties.                                                             *)

Statuses == {"ready", "running", "changes_requested", "in_review", "waiting_human",
             "failed", "cancelled"}
Closings == {"done", "failed", "blocked", "waiting", "env_error", "timeout",
             "cancelled", "closed"}

\* Every record has its shape, and the counters the code increments and gives
\* back in different files stay within the limits they are compared with.
TypeOK ==
    /\ file \in [status : Statuses, attempts : 0..MaxAttempts, pr : BOOLEAN,
                 crit : 1..(ghost.edits + 1)]
    /\ disk \in [check : [run : 0..Len(runs), collected : BOOLEAN, retries : 0..1,
                          stage : {"none", "pre_pr", "base_probe", "rebase_recheck"},
                          worker : 0..Len(runs)],
                 feedback : BOOLEAN, rebase : BOOLEAN, human : BOOLEAN, question : BOOLEAN,
                 revisions : 0..MaxRevisions, envs : 0..EnvCap]
    /\ DOMAIN mem.val = DOMAIN disk /\ mem.dirty \subseteq DOMAIN disk
    /\ \A k \in DOMAIN runs :
          /\ runs[k].mode \in WorkerModes \cup {"check"}
          /\ runs[k].st \in Active \cup Closings
          /\ runs[k].proc \in {"none", "live", "dying", "exited", "gone"}
    /\ cur.run \in 0..Len(runs)

\* Two worker processes are never alive for the task at once: they would write
\* the same worktree and branch (dispatch's worker_run_in_flight, Run.stop).  One
\* that was timed out is not counted: it was told to stop and may still be doing so.
OneWriter ==
    Cardinality({k \in Workers : /\ runs[k].proc \in {"live", "dying"}
                                 /\ runs[k].st # "timeout"}) <= 1

\* A run's end is reported, and its cost counted, at most once, whichever of
\* finalize, the timeout path, the check reaper, the dead-run sweep and a failed
\* dispatch closes it, and however often an interrupted finalize is resumed.
FinishedOnce == \A k \in DOMAIN runs : runs[k].events <= 1

\* A task the operator cancelled stays cancelled.
CancelSticks == ghost.cancelled => file.status = "cancelled"

\* A worker that reported its work done is finalized, never swept up as a
\* dangling record while the task starts over, unless an operator's command
\* stopped it.
FinishedWorkUsed ==
    \A k \in Workers :
        ~(runs[k].res = "done" /\ runs[k].st = "closed") \/ ghost.commanded

\* An edit of the task made while a pass or a command holds an older copy of it
\* is never overwritten by their saves.
EditsKept == file.crit = 1 + ghost.edits

\* A running task always has a run that reap can follow: one still running, or
\* one whose time of completion says that its finalize is to be resumed.
RunFollowed ==
    file.status = "running" =>
        LET k == LatestWorkerRun
        IN  k # 0 /\ (runs[k].st = "running" \/ runs[k].fin)

\* A result is judged by the criteria its worker was given, whatever edits of
\* the task happened while it ran.
GoalpostsFixed == ~ghost.moved

\* A task that waits for a person has, on disk, what the person is asked.
QuestionKept == file.status = "waiting_human" => disk.question \/ disk.human

\* Work rounds that ran and failed never exceed the task's attempts, although
\* the counter is raised at dispatch and given back by environment stops; only
\* an operator's retry gives a task another one.
AttemptBudget ==
    ~ghost.commanded =>
    Cardinality({k \in DOMAIN runs : /\ runs[k].mode = "work" /\ runs[k].pid
                                     /\ runs[k].st \in {"failed", "timeout"}}) <= MaxAttempts

\* A task is not left `running`: its worker or its check leads it on, unless
\* admission keeps refusing the check it needs.
RunningResolves ==
    (file.status = "running") ~> (file.status # "running" \/ left.checks = 0)

\* No run record stays active for ever, holding its slot; a reservation whose
\* task was cancelled is kept as an ownership marker, and a finished worker
\* waits for a check that admission refuses.
RecordsClosed ==
    \A k \in UNION {1..(b.workers + b.checks) : b \in Bounds} :
        (k \in ActiveRuns) ~> (k \notin ActiveRuns \/ file.status = "cancelled" \/ left.checks = 0)
=============================================================================
