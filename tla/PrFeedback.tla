----------------------------- MODULE PrFeedback -----------------------------
(***************************************************************************)
(* How a comment on a task's open pull request becomes a revise round.     *)
(*                                                                         *)
(* Every controller pass (Scheduler._tick_locked) reloads state.json, reaps *)
(* the finished check or worker run, refreshes the open pull request       *)
(* (refresh_open_prs), polls the linked task (poll, _apply_feedback),      *)
(* dispatches a revise round and audits.  Feedback is deduplicated by two  *)
(* durable facts of the pull request's row: the timestamp cursor           *)
(* `feedback_since` and the identities `feedback_seen`.                    *)
(*                                                                         *)
(* The pass works on `mem`, a copy of the task's and the row's entries of  *)
(* state.json; `disk` is the file.  The task file (`task`), the run record *)
(* and GitHub are written at once, so Crash between two writes leaves them *)
(* in step with one another only as far as the code ordered the writes.    *)
(***************************************************************************)
EXTENDS Integers, FiniteSets, Sequences

CONSTANTS
    Trusted,        \* comments whose author may prompt a worker (is_trusted)
    Noise,          \* comments that only move the provider's high water
    Analyser,       \* whether checks are configured for the "ci" stage
    MaxRevisions,   \* max_revisions (revision_policy disabled)
    EnvCap,         \* max_consecutive_env_errors
    MaxTime,        \* bound: provider timestamps 1..MaxTime
    Bounds          \* bounds, each a choice of what may happen: see BoundSet

\* comments: the ones that may be posted; runs, checks: worker and check runs
\* started; env: worker runs that end in an environment error; human: operator
\* retries, reservations and pushes; crash: controller kills; pressure: local
\* admission may refuse a check run; outage: the provider may fail while a
\* check is reaped.
BoundSet == [comments : SUBSET (Trusted \cup Noise), runs : Nat, checks : Nat, env : Nat,
             human : Nat, crash : Nat, pressure : BOOLEAN, outage : BOOLEAN]

ASSUME FeedbackAssumption ==
    /\ Trusted \cap Noise = {}
    /\ {"ci", "operator"} \cap Trusted = {}    \* CI and Note are no comments
    /\ Analyser \in BOOLEAN
    /\ EnvCap \in Nat \ {0} /\ MaxRevisions \in Nat \ {0}
    /\ MaxTime \in Nat \ {0}
    /\ IsFiniteSet(Bounds) /\ Bounds # {} /\ Bounds \subseteq BoundSet

VARIABLES
    gh,       \* GitHub: comment times, garden's last own comment, head, CI
    now,      \* the provider's clock, in its one-second resolution
    task,     \* the task file: status and last_dispatched_at
    disk,     \* state.json: the task's entry and the pull request's row
    mem,      \* the running pass's copy of it
    run,      \* the worker run not yet closed and its process
    chk,      \* the check runs, in the order they were started
    pc,       \* where the pass is
    obs,      \* what this pass observed of the pull request
    left,     \* what remains of the bound that was chosen
    ghost     \* history: what became of each comment

vars == <<gh, now, task, disk, mem, run, chk, pc, obs, left, ghost>>

Comments == Trusted \cup Noise
CI == "ci"              \* the CI part of pending feedback
Note == "operator"      \* the recovery note `retry` writes
Largest(S) == CHOOSE n \in S : \A k \in S : n >= k
MaxHead == Largest({1 + b.runs + b.human : b \in Bounds})  \* pushes are a run's or a person's
MaxChecks == Largest({b.checks : b \in Bounds})
Parts == Trusted \cup {CI, Note}
Larger(a, b) == IF a >= b THEN a ELSE b

-----------------------------------------------------------------------------
(* The provider's answer.                                                  *)

\* Mutant: the cursor is exclusive.
RowsAfter(since) == {c \in Comments : gh.posted[c] # 0 /\ gh.posted[c] > since}

\* Rows the provider returns: all of them without a cursor, else those at or
\* after it; zero means not yet posted.
Rows(since) == {c \in Comments : gh.posted[c] # 0 /\ gh.posted[c] >= since}

\* high_water: the newest row, garden's own marked comments included.
HighWater == LET times == {gh.posted[c] : c \in Comments} \cup {gh.own}
             IN  CHOOSE t \in times : \A u \in times : u <= t

\* Feedback.items of a fetch: what a trusted author wrote.
Items(since) == Rows(since) \cap Trusted

\* _advance_feedback_cursor, when the answer had any row.
AdvanceCursor(cursor) ==
    IF HighWater = 0 THEN cursor ELSE Larger(cursor, HighWater)

\* Mutant: identities are not kept.
ForgetFeedback(s, items) == s

\* _remember_feedback on the pull request's row.
RememberFeedback(s, items) == [s EXCEPT !.seen = @ \cup items]

-----------------------------------------------------------------------------
(* The pending feedback of a task and its composition by source.           *)

Pending(s) == s.prior \cup s.keyed

\* merge_pending_feedback: the contributions recorded for this head are kept
\* (an unstructured text as the opaque "prior" part), another head's are not.
MergePending(s, head, items, note, replace) ==
    LET kept  == s.src = head \/ (s.src = 0 /\ s.head = head)
        keyed == (IF kept THEN s.keyed ELSE {}) \cup items
    IN  IF items = {} /\ ~note /\ ~replace THEN s
        ELSE [s EXCEPT !.prior = IF kept THEN @ ELSE {},
                       !.keyed = IF note THEN keyed \cup {CI}
                                 ELSE IF replace THEN keyed \ {CI} ELSE keyed,
                       !.src   = head]

\* _apply_feedback: the state after it, and the status of the task file.
ApplyFeedback(s, status, head, items, note, replace) ==
    LET m == MergePending(s, head, items, note, replace)
    IN  IF items = {} /\ ~note /\ ~replace
          THEN [st |-> s, status |-> status]
        ELSE IF Pending(m) = {}
          THEN [st |-> m,
                status |-> IF status = "changes_requested" /\ ~s.human
                             THEN "in_review" ELSE status]
        ELSE IF status = "changes_requested"
          THEN [st |-> m, status |-> status]
        ELSE [st |-> [m EXCEPT !.human = @ \/ m.revs >= MaxRevisions],
              status |-> "changes_requested"]

-----------------------------------------------------------------------------
EmptyState ==
    [since |-> 0, known |-> FALSE, seen |-> {},
     prior |-> {}, keyed |-> {}, src |-> 0, head |-> 0,
     revs |-> 0, envs |-> 0, human |-> FALSE, reserved |-> FALSE,
     check |-> 0, collected |-> FALSE, applied |-> {},
     ciAt |-> 0, reruns |-> 0, waiting |-> 0]

NoRun == [st |-> "none", brief |-> {}, fin |-> FALSE, res |-> "none"]
NewCheck(head, rerun) == [st |-> "live", head |-> head, rerun |-> rerun, flaky |-> FALSE]
NoObs == [ok |-> FALSE, head |-> 0, ci |-> "SUCCESS", items |-> {}]

Init ==
    /\ gh = [posted |-> [c \in Comments |-> 0], own |-> 0, head |-> 1, ci |-> "SUCCESS"]
    /\ now = 1
    /\ task = [status |-> "in_review", dispatched |-> 1]
    /\ disk = EmptyState /\ mem = EmptyState
    /\ run = NoRun /\ chk = <<>>
    /\ pc = "idle" /\ obs = NoObs
    /\ left \in Bounds
    /\ ghost = [historical |-> {}, finished |-> [c \in Trusted |-> 0],
                delivered |-> {}, analysed |-> {}, killed |-> FALSE]

-----------------------------------------------------------------------------
(* The world outside the controller.                                       *)

Clock ==
    /\ now < MaxTime
    /\ now' = now + 1
    /\ UNCHANGED <<gh, task, disk, mem, run, chk, pc, obs, left, ghost>>

Comment(c) ==
    /\ gh.posted[c] = 0 /\ c \in left.comments
    /\ gh' = [gh EXCEPT !.posted[c] = now]
    /\ UNCHANGED <<now, task, disk, mem, run, chk, pc, obs, left, ghost>>

CiFinishes(result) ==
    /\ gh.ci # result
    /\ gh' = [gh EXCEPT !.ci = result]
    /\ UNCHANGED <<now, task, disk, mem, run, chk, pc, obs, left, ghost>>

\* A person pushes to the pull request's branch.
HumanPush ==
    /\ left.human > 0
    /\ gh' = [gh EXCEPT !.head = @ + 1, !.ci = "SUCCESS"]
    /\ left' = [left EXCEPT !.human = @ - 1]
    /\ UNCHANGED <<now, task, disk, mem, run, chk, pc, obs, ghost>>

WorkerExits(result) ==
    /\ run.st = "live"
    /\ result = "env_error" => left.env > 0
    /\ run' = [run EXCEPT !.st = "exited", !.res = result]
    /\ left' = [left EXCEPT !.env = @ - (IF result = "env_error" THEN 1 ELSE 0)]
    /\ UNCHANGED <<gh, now, task, disk, mem, chk, pc, obs, ghost>>

\* `flaky`: the analyser asked the provider to rerun CI instead (once).
CheckExits(k, flaky) ==
    /\ chk[k].st = "live"
    /\ flaky => chk[k].rerun
    /\ chk' = [chk EXCEPT ![k].st = "exited", ![k].flaky = flaky]
    /\ UNCHANGED <<gh, now, task, disk, mem, run, pc, obs, left, ghost>>

-----------------------------------------------------------------------------
(* The pass: reload, then reap.                                            *)

TickStart ==
    /\ pc = "idle"
    /\ pc' = "reap"
    /\ mem' = disk /\ obs' = NoObs
    /\ UNCHANGED <<gh, now, task, disk, run, chk, left, ghost>>

\* The check run the task's continuation names.
Current == chk[mem.check]

Reapable ==
    /\ task.status = "running" /\ run.st \in {"exited", "parked"} /\ ~mem.reserved
    /\ mem.check = 0

ReapNothing ==
    /\ pc = "reap"
    /\ ~Reapable
    /\ mem.check # 0 => Current.st = "live"
    /\ pc' = "sweep"
    /\ run' = IF task.status = "running" /\ run.st = "exited" /\ mem.reserved /\ mem.check = 0
                THEN [run EXCEPT !.st = "parked"]    \* finalize under a reservation
                ELSE run
    /\ UNCHANGED <<gh, now, task, disk, mem, chk, obs, left, ghost>>

\* reap_check drops a continuation whose run somebody cancelled, and one whose
\* closed run is not marked collected.
ForgetCheck ==
    /\ pc = "reap" /\ mem.check # 0
    /\ \/ Current.st = "cancelled"
       \/ Current.st = "closed" /\ ~mem.collected
    /\ mem' = [mem EXCEPT !.check = 0, !.collected = FALSE]
    /\ pc' = "sweep"
    /\ UNCHANGED <<gh, now, task, disk, run, chk, obs, left, ghost>>

\* reap_check of a finished run: the results go into the record, which is
\* closed and saved ...
CloseCheck ==
    /\ pc = "reap" /\ mem.check # 0
    /\ Current.st = "exited"
    /\ chk' = [chk EXCEPT ![mem.check].st = "closed"]
    /\ pc' = "closing"
    /\ UNCHANGED <<gh, now, task, disk, mem, run, obs, left, ghost>>

\* Mutant: the continuation is given up before its handler ran.
MarkForgotten ==
    /\ pc = "closing"
    /\ mem' = [mem EXCEPT !.check = IF mem.reserved THEN 0 ELSE @, !.collected = TRUE]
    /\ disk' = mem'
    /\ pc' = IF mem.reserved THEN "sweep" ELSE "collected"
    /\ UNCHANGED <<gh, now, task, run, chk, obs, left, ghost>>

\* ... then the continuation is marked collected, a second durable write.  A
\* manual reservation parks it there.
MarkCollected ==
    /\ pc = "closing"
    /\ mem' = [mem EXCEPT !.collected = TRUE]
    /\ disk' = mem'
    /\ pc' = IF mem.reserved THEN "sweep" ELSE "collected"
    /\ UNCHANGED <<gh, now, task, run, chk, obs, left, ghost>>

\* A later pass routes the stored results again.
RerouteCheck ==
    /\ pc = "reap" /\ mem.check # 0
    /\ Current.st = "closed" /\ mem.collected
    /\ pc' = IF mem.reserved THEN "sweep" ELSE "collected"
    /\ UNCHANGED <<gh, now, task, disk, mem, run, chk, obs, left, ghost>>

\* _after_ci_check's early returns: another head, a closed review flow, or a
\* run whose results were already applied before a kill.
CheckObsolete ==
    \/ Current.head # gh.head \/ mem.head # Current.head
    \/ task.status \notin {"in_review", "changes_requested"}
    \/ mem.check \in mem.applied

DropCheck ==
    /\ pc = "collected" /\ CheckObsolete
    /\ mem' = [mem EXCEPT !.check = 0, !.collected = FALSE]
    /\ pc' = "sweep"
    /\ UNCHANGED <<gh, now, task, disk, run, chk, obs, left, ghost>>

\* get_pr fails: _after_ci_check returns as if it had nothing to do, and
\* reap_check clears the continuation after it.
CheckPrUnknown ==
    /\ pc = "collected" /\ left.outage
    /\ mem' = [mem EXCEPT !.check = 0, !.collected = FALSE]
    /\ pc' = "sweep"
    /\ UNCHANGED <<gh, now, task, disk, run, chk, obs, left, ghost>>

\* The comments cannot be fetched: the exception keeps the continuation for the
\* next pass.
CheckProviderFails ==
    /\ pc = "collected" /\ ~CheckObsolete
    /\ pc' = "sweep"
    /\ UNCHANGED <<gh, now, task, disk, mem, run, chk, obs, left, ghost>>

\* _after_ci_check up to _apply_feedback, whose transition writes the task
\* file before the state is saved.
ApplyCheck ==
    /\ pc = "collected" /\ ~CheckObsolete
    /\ LET fresh == Items(mem.since) \ mem.seen
           s     == [mem EXCEPT !.since = AdvanceCursor(@),
                                !.applied = @ \cup {mem.check},
                                !.reruns = IF Current.flaky THEN @ + 1 ELSE @,
                                !.waiting = IF Current.flaky THEN Current.head ELSE @]
           r     == ApplyFeedback(s, task.status, Current.head, fresh, ~Current.flaky, TRUE)
       IN  /\ mem' = r.st
           /\ task' = [task EXCEPT !.status = r.status]
           /\ obs' = [obs EXCEPT !.items = fresh]
    /\ pc' = "applied"
    /\ UNCHANGED <<gh, now, disk, run, chk, left, ghost>>

SaveCheck ==
    /\ pc = "applied"
    /\ disk' = mem
    /\ pc' = "saved"
    /\ UNCHANGED <<gh, now, task, mem, run, chk, obs, left, ghost>>

\* ... and what follows the save: the identities and the pointer, in memory.
FinishCheck ==
    /\ pc = "saved"
    /\ mem' = RememberFeedback([mem EXCEPT !.check = 0, !.collected = FALSE], obs.items)
    /\ pc' = "sweep"
    /\ UNCHANGED <<gh, now, task, disk, run, chk, obs, left, ghost>>

\* finalize of a round with commits: push, then update the pull request.  A
\* resumed finalize (fin) pushes nothing new.
PushRevision ==
    /\ pc = "reap" /\ Reapable /\ run.res = "done"
    /\ gh' = IF run.fin THEN gh
             ELSE [gh EXCEPT !.head = @ + 1, !.ci = "SUCCESS"]
    /\ run' = [run EXCEPT !.fin = TRUE]
    /\ mem' = [mem EXCEPT !.envs = 0]
    /\ disk' = mem'
    /\ pc' = "pushed"
    /\ UNCHANGED <<now, task, chk, obs, left, ghost>>

\* _open_or_update_pr: garden's own comment, then the transition.
UpdatePr ==
    /\ pc = "pushed"
    /\ gh' = [gh EXCEPT !.own = now]
    /\ mem' = [mem EXCEPT !.head = gh.head]
    /\ task' = [task EXCEPT !.status = "in_review"]
    /\ run' = NoRun
    /\ ghost' = [ghost EXCEPT
                   !.finished = [c \in Trusted |->
                       IF c \in run.brief THEN @[c] + 1 ELSE @[c]],
                   !.delivered = @ \cup run.brief]
    /\ pc' = "sweep"
    /\ UNCHANGED <<now, disk, chk, obs, left>>

\* A revise round that fails: _retry_or_fail gives the task up.
FailRevision ==
    /\ pc = "reap" /\ Reapable /\ run.res = "failed"
    /\ mem' = [mem EXCEPT !.envs = 0]
    /\ disk' = mem'
    /\ task' = [task EXCEPT !.status = "failed"]
    /\ run' = NoRun
    /\ ghost' = [ghost EXCEPT !.delivered = @ \cup run.brief]
    /\ pc' = "sweep"
    /\ UNCHANGED <<gh, now, chk, obs, left>>

\* Mutant: the round is undone without its feedback.
RestoredCounters(s) ==
    IF s.envs + 1 >= EnvCap
      THEN [s EXCEPT !.envs = @ + 1, !.human = TRUE]
      ELSE [s EXCEPT !.envs = @ + 1, !.revs = Larger(0, @ - 1)]

\* _handle_quota_env_error: the round is undone and its feedback restored,
\* unless too many such stops came in a row.
RestoredState(s) ==
    IF s.envs + 1 >= EnvCap
      THEN [s EXCEPT !.envs = @ + 1, !.human = TRUE]
      ELSE [s EXCEPT !.envs = @ + 1, !.revs = Larger(0, @ - 1),
                     !.prior = run.brief, !.keyed = {}, !.src = 0]

EnvStop ==
    /\ pc = "reap" /\ Reapable /\ run.res = "env_error"
    /\ mem' = RestoredState(mem)
    /\ disk' = mem'
    /\ run' = [run EXCEPT !.fin = TRUE]
    /\ pc' = "restored"
    /\ UNCHANGED <<gh, now, task, chk, obs, left, ghost>>

EnvStopTransition ==
    /\ pc = "restored"
    /\ task' = [task EXCEPT !.status =
                  IF mem.envs >= EnvCap THEN "waiting_human" ELSE "changes_requested"]
    /\ run' = NoRun
    /\ pc' = "sweep"
    /\ UNCHANGED <<gh, now, disk, mem, chk, obs, left, ghost>>

\* reap_dead_runs: a finished run that no pointer and no running task leads to
\* is closed; what its worker did is not used.
Sweep ==
    /\ pc = "sweep"
    /\ run' = IF run.st = "exited" /\ task.status # "running"
                THEN NoRun ELSE run
    /\ chk' = [k \in DOMAIN chk |->
                 IF chk[k].st = "exited" /\ mem.check # k
                   THEN [chk[k] EXCEPT !.st = "dangling"] ELSE chk[k]]
    /\ pc' = "refresh"
    /\ UNCHANGED <<gh, now, task, disk, mem, obs, left, ghost>>

-----------------------------------------------------------------------------
(* refresh_open_prs and poll.                                              *)

RefreshFails ==
    /\ pc = "refresh"
    /\ pc' = "dispatch"
    /\ UNCHANGED <<gh, now, task, disk, mem, run, chk, obs, left, ghost>>

\* The first observation of a linked pull request takes what is not newer
\* than the last dispatch as history.
RefreshOpenPrs ==
    /\ pc = "refresh"
    /\ LET history == IF mem.known THEN {}
                      ELSE {c \in Items(mem.since) : gh.posted[c] <= task.dispatched}
           cursor  == IF mem.known THEN mem.since ELSE task.dispatched
           seen    == mem.seen \cup history
       IN  /\ mem' = [mem EXCEPT
                        !.known = TRUE, !.seen = seen,
                        !.since = IF HighWater = 0 THEN @ ELSE AdvanceCursor(cursor)]
           /\ obs' = [ok |-> TRUE, head |-> gh.head, ci |-> gh.ci,
                      items |-> Items(mem.since) \ seen]
           /\ ghost' = [ghost EXCEPT !.historical = @ \cup history]
    /\ pc' = "poll"
    /\ UNCHANGED <<gh, now, task, disk, run, chk, left>>

\* A failing rollup this poll acts on.
CiFailure == /\ obs.ci = "FAILURE"
             /\ mem.waiting # obs.head
             /\ mem.ciAt # obs.head

\* The poll's observation of the rollup: a requested rerun is given one poll.
CiObserved ==
    [mem EXCEPT !.head = obs.head, !.waiting = 0,
                !.ciAt = IF CiFailure THEN obs.head
                         ELSE IF obs.ci = "FAILURE" /\ mem.waiting = obs.head THEN 0
                         ELSE @]

\* Mutant: a failure that arrives with comments is not analysed.
CiAnalysedAlone == CiFailure /\ Analyser /\ obs.items = {}

\* The failure goes to the configured analyser rather than into the feedback.
CiAnalysed == CiFailure /\ Analyser

\* The flaky-rerun budget given to the analyser.
MayRerun == mem.reruns < 1

InReviewFlow == task.status = "in_review" /\ mem.check = 0 /\ ~mem.reserved

\* poll returns before it looks at feedback: a check or a reservation owns the
\* task, a revise round is already queued, or the task left the review flow.
PollSkips ==
    /\ pc = "poll" /\ ~InReviewFlow
    /\ mem' = IF mem.check = 0 /\ task.status # "running"
                THEN [mem EXCEPT !.head = obs.head] ELSE mem
    /\ pc' = "dispatch"
    /\ UNCHANGED <<gh, now, task, disk, run, chk, obs, left, ghost>>

\* poll through _apply_feedback, then _remember_pr_feedback.
PollApplies ==
    /\ pc = "poll" /\ InReviewFlow
    /\ ~CiAnalysed
    /\ LET r == ApplyFeedback(CiObserved, task.status, obs.head, obs.items, CiFailure, FALSE)
       IN  /\ mem' = RememberFeedback(r.st, obs.items)
           /\ task' = [task EXCEPT !.status = r.status]
    /\ pc' = "dispatch"
    /\ UNCHANGED <<gh, now, disk, run, chk, obs, left, ghost>>

\* _dispatch_check_run starts the analyser, then records its continuation.
PollStartsCheck ==
    /\ pc = "poll" /\ InReviewFlow
    /\ CiAnalysed
    /\ left.checks > 0
    /\ chk' = Append(chk, NewCheck(obs.head, MayRerun))
    /\ mem' = [CiObserved EXCEPT !.check = Len(chk) + 1, !.collected = FALSE]
    /\ left' = [left EXCEPT !.checks = @ - 1]
    /\ ghost' = [ghost EXCEPT !.analysed = @ \cup {obs.head}]
    /\ pc' = "checking"
    /\ UNCHANGED <<gh, now, task, disk, run, obs>>

\* Local admission refuses the check run: poll ends by the exception, after it
\* recorded the failure as handled.
PollDefersCheck ==
    /\ pc = "poll" /\ InReviewFlow
    /\ CiAnalysed
    /\ left.pressure
    /\ mem' = CiObserved
    /\ pc' = "dispatch"
    /\ UNCHANGED <<gh, now, task, disk, run, chk, obs, left, ghost>>

SaveCheckPointer ==
    /\ pc = "checking"
    /\ disk' = mem
    /\ pc' = "dispatch"
    /\ UNCHANGED <<gh, now, task, mem, run, chk, obs, left, ghost>>

-----------------------------------------------------------------------------
(* Dispatch of a revise round, and the end of the pass.                    *)

CheckInFlight == \E k \in DOMAIN chk : chk[k].st \in {"live", "exited"}
RunInFlight == run.st \in {"live", "exited"}

\* worker_candidates and dispatch_ready's skips, for a revise round.
Dispatchable ==
    /\ task.status = "changes_requested"
    /\ Pending(mem) # {}
    /\ ~mem.human /\ ~mem.reserved /\ mem.check = 0
    /\ mem.revs < MaxRevisions
    /\ ~RunInFlight

DispatchNothing ==
    /\ pc = "dispatch"
    /\ ~Dispatchable \/ left.runs = 0
    /\ pc' = "audit"
    /\ UNCHANGED <<gh, now, task, disk, mem, run, chk, obs, left, ghost>>

\* The run record is saved and the worker started with the feedback in its
\* brief; then the round is accounted for in memory.
DispatchStart ==
    /\ pc = "dispatch" /\ Dispatchable /\ left.runs > 0
    /\ run' = [st |-> "live", brief |-> Pending(mem), fin |-> FALSE, res |-> "none"]
    /\ mem' = [mem EXCEPT !.revs = @ + 1, !.prior = {}, !.keyed = {}, !.src = 0]
    /\ left' = [left EXCEPT !.runs = @ - 1]
    /\ pc' = "started"
    /\ UNCHANGED <<gh, now, task, disk, chk, obs, ghost>>

DispatchTransition ==
    /\ pc = "started"
    /\ task' = [status |-> "running", dispatched |-> now]
    /\ pc' = "transitioned"
    /\ UNCHANGED <<gh, now, disk, mem, run, chk, obs, left, ghost>>

DispatchSave ==
    /\ pc = "transitioned"
    /\ disk' = mem
    /\ pc' = "audit"
    /\ UNCHANGED <<gh, now, task, mem, run, chk, obs, left, ghost>>

\* Mutant: only feedback parked in review is flagged.
StuckInReview(s) ==
    /\ ~s.human
    /\ ~RunInFlight /\ ~CheckInFlight
    /\ task.status = "in_review" /\ Pending(s) # {}

\* _audit_stuck: what has nothing scheduled and no card.
Stuck(s) ==
    /\ ~s.human
    /\ ~RunInFlight /\ ~CheckInFlight
    /\ \/ task.status = "in_review" /\ Pending(s) # {}
       \/ task.status = "changes_requested" /\ (Pending(s) = {} \/ s.revs >= MaxRevisions)

\* The audit, then the save that ends every pass.
TickEnd ==
    /\ pc = "audit"
    /\ mem' = [mem EXCEPT !.human = @ \/ Stuck(mem)]
    /\ disk' = mem'
    /\ obs' = NoObs
    /\ pc' = "idle"
    /\ UNCHANGED <<gh, now, task, run, chk, left, ghost>>

\* The controller is killed; its memory is lost.
Crash ==
    /\ pc # "idle" /\ left.crash > 0
    /\ mem' = disk /\ obs' = NoObs
    /\ left' = [left EXCEPT !.crash = @ - 1]
    /\ ghost' = [ghost EXCEPT !.killed = TRUE]
    /\ pc' = "idle"
    /\ UNCHANGED <<gh, now, task, disk, run, chk>>

-----------------------------------------------------------------------------
(* Operator actions, between two passes.                                   *)

\* retry: stops an active run, clears the stop, and sends the task back to the
\* revise loop against its feedback, or against a note when it has none.
Retry ==
    /\ pc = "idle" /\ left.human > 0
    /\ task.status \in {"failed", "changes_requested", "in_review"}
    /\ LET fb == Pending(disk)
           s  == [disk EXCEPT !.human = FALSE,
                              !.revs = IF @ >= MaxRevisions THEN MaxRevisions - 1 ELSE @]
       IN  disk' = IF fb = {} THEN [s EXCEPT !.prior = {Note}] ELSE s
    /\ mem' = disk'
    /\ run' = IF RunInFlight THEN NoRun ELSE run
    /\ chk' = [k \in DOMAIN chk |->
                 IF chk[k].st \in {"live", "exited"}
                   THEN [chk[k] EXCEPT !.st = "cancelled"] ELSE chk[k]]
    /\ task' = [task EXCEPT !.status = "changes_requested"]
    /\ left' = [left EXCEPT !.human = @ - 1]
    /\ UNCHANGED <<gh, now, pc, obs, ghost>>

ReserveManual ==
    /\ pc = "idle" /\ left.human > 0 /\ ~disk.reserved
    /\ disk' = [disk EXCEPT !.reserved = TRUE]
    /\ mem' = disk'
    /\ left' = [left EXCEPT !.human = @ - 1]
    /\ UNCHANGED <<gh, now, task, run, chk, pc, obs, ghost>>

ReturnToAutomation ==
    /\ pc = "idle" /\ disk.reserved
    /\ ~RunInFlight /\ ~CheckInFlight
    /\ disk' = [disk EXCEPT !.reserved = FALSE]
    /\ mem' = disk'
    /\ UNCHANGED <<gh, now, task, run, chk, pc, obs, left, ghost>>

-----------------------------------------------------------------------------
Reap ==
    \/ ReapNothing \/ ForgetCheck \/ CloseCheck \/ MarkCollected \/ RerouteCheck
    \/ DropCheck \/ CheckPrUnknown \/ CheckProviderFails \/ ApplyCheck \/ SaveCheck \/ FinishCheck
    \/ PushRevision \/ UpdatePr \/ FailRevision \/ EnvStop \/ EnvStopTransition
    \/ Sweep

Poll ==
    \/ RefreshFails \/ RefreshOpenPrs \/ PollSkips \/ PollApplies
    \/ PollStartsCheck \/ PollDefersCheck \/ SaveCheckPointer

Dispatch == DispatchNothing \/ DispatchStart \/ DispatchTransition \/ DispatchSave

Tick == TickStart \/ Reap \/ Poll \/ Dispatch \/ TickEnd

World ==
    \/ Clock
    \/ \E c \in Comments : Comment(c)
    \/ \E result \in {"SUCCESS", "FAILURE"} : CiFinishes(result)
    \/ HumanPush

Exits ==
    \/ \E result \in {"done", "failed", "env_error"} : WorkerExits(result)
    \/ \E k \in DOMAIN chk, flaky \in BOOLEAN : CheckExits(k, flaky)

Operator == Retry \/ ReserveManual \/ ReturnToAutomation

Next == Tick \/ World \/ Exits \/ Operator \/ Crash

Spec == Init /\ [][Next]_vars

\* The controller keeps ticking (watch), processes end (timeouts kill them) and
\* the provider answers again and again.
FairSpec ==
    /\ Spec
    /\ WF_vars(Tick) /\ WF_vars(Exits)
    /\ SF_vars(RefreshOpenPrs) /\ SF_vars(ApplyCheck)

-----------------------------------------------------------------------------
(* Properties.                                                             *)

StateFile ==
    [since : 0..MaxTime, known : BOOLEAN, seen : SUBSET Trusted,
     prior : SUBSET Parts, keyed : SUBSET Parts, src : 0..MaxHead, head : 0..MaxHead,
     revs : 0..MaxRevisions, envs : Nat, human : BOOLEAN, reserved : BOOLEAN,
     check : 0..MaxChecks, collected : BOOLEAN, applied : SUBSET (1..MaxChecks),
     ciAt : 0..MaxHead, reruns : 0..MaxChecks, waiting : 0..MaxHead]

\* Every variable keeps its shape; the revision counter stays within the cap.
TypeOK ==
    /\ gh \in [posted : [Comments -> 0..MaxTime], own : 0..MaxTime,
               head : 1..MaxHead, ci : {"SUCCESS", "FAILURE"}]
    /\ now \in 1..MaxTime
    /\ task \in [status : {"in_review", "changes_requested", "running", "failed",
                           "waiting_human"}, dispatched : 1..MaxTime]
    /\ disk \in StateFile /\ mem \in StateFile
    /\ run \in [st : {"none", "live", "exited", "parked"},
                brief : SUBSET Parts, fin : BOOLEAN,
                res : {"none", "done", "failed", "env_error"}]
    /\ Len(chk) <= MaxChecks
    /\ \A k \in DOMAIN chk :
          chk[k] \in [st : {"live", "exited", "closed", "dangling", "cancelled"},
                     head : 1..MaxHead, rerun : BOOLEAN, flaky : BOOLEAN]

\* A comment is worked on once: it is in the brief of at most one revise round
\* that finished (poll: "handled comments cannot consume another revision
\* attempt"), unless the controller was killed: a kill between the transition of
\* a dispatch and its save brings the comment back from the file.
HandledOnce == ~ghost.killed => \A c \in Trusted : ghost.finished[c] <= 1

\* An identity is remembered as seen only when its comment is accounted for:
\* it predates the dispatch, waits in the pending feedback, is in the brief of
\* the round that is under way, or was in one that ended.  A round undone by
\* an environment stop must have put its feedback back, however the controller
\* is killed; only the stop that reaches the cap hands the task to a person
\* without it.
FeedbackKept ==
    disk.envs < EnvCap => \A c \in disk.seen :
        \/ c \in ghost.historical \cup ghost.delivered \cup Pending(disk)
        \/ c \in run.brief /\ run.st \in {"live", "exited", "parked"}

\* A comment newer than the last dispatch that no poll has taken yet can still
\* be fetched: the cursor has not passed it.
FeedbackReachable ==
    \A c \in Trusted :
        gh.posted[c] > task.dispatched /\ c \notin disk.seen
            => gh.posted[c] >= disk.since

\* A CI failure recorded as handled has had its analyser run, however the
\* controller is killed, unless admission may refuse the check run.
CiFailureRouted ==
    Analyser /\ ~left.pressure /\ disk.ciAt # 0
        => disk.ciAt \in ghost.analysed

\* A collected analyser verdict on the head the pull request still has was
\* applied, or its continuation is still there to apply it (reap_check: "the next
\* tick must route these stored results again rather than lose the chain"),
\* unless the controller was killed or the provider may fail.
CiVerdictKept ==
    ~ghost.killed /\ ~left.outage => \A k \in DOMAIN chk :
        /\ chk[k].st = "closed"
        /\ chk[k].head = gh.head
        => k \in disk.applied \/ disk.check = k

\* The flaky-CI rerun is spent once, however the controller is killed between
\* collecting the analyser's results and clearing its continuation.
RerunOnce == disk.reruns <= 1

\* A queued revise round is started, resolved or handed to a person: the task
\* never stays changes_requested with nothing scheduled and no card.
QueuedRoundResolves ==
    task.status = "changes_requested"
        ~> \/ task.status # "changes_requested"
           \/ disk.human \/ disk.reserved \/ left.runs = 0

\* A trusted comment reaches a worker or a person, unless the cursor passed it
\* while no poll could take it (the case FeedbackReachable is about): being
\* returned by the provider again and again, it is in the end taken.
CommentAnswered ==
    \A c \in Trusted :
        gh.posted[c] # 0
            ~> \/ c \in ghost.historical \cup ghost.delivered
               \/ gh.posted[c] < disk.since /\ c \notin disk.seen
               \/ disk.human \/ disk.reserved \/ left.runs = 0
               \/ task.status \in {"failed", "waiting_human"}
=============================================================================
