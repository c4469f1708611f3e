# Verification of context-garden

context-garden ("the garden") is a controller for coding agents. It keeps a
backlog of tasks as Markdown files, starts an agent (a *worker*) for each ready
task in its own git worktree, collects the result, pushes a branch, opens a
pull request, runs configured checks, has the change reviewed, feeds review
comments and CI failures back to a worker as *revise rounds*, rebases and
merges, and hands everything it cannot decide to a person. Several
installations may share one backlog through a coordinator.

This directory holds TLA+ models of that program, the TLC configurations that
check them and TLAPS proofs. File and line references are to `src/src/garden/`;
PROJECT.json maps every definition to the lines it models.

## 1. Inventory

| Part | State it keeps | Operations | Talks to |
|---|---|---|---|
| Coordinator (`coordination.py`, `coordination_api.py`) | SQLite tables: scopes with owner, generation, version, claim and fence; authority; outbox; effects; reservation pools; cancellations; evidence; operation log | set/initialize authority, claim, transition, finish/supersede outbox, begin/finish effect, acknowledge cancellation, reserve/release, retain stale evidence | installations, by idempotent requests |
| Git coordination (`git_coordination.py`, `multiplayer_client.py`) | one JSON state on a git ref: entities with owner and generation, claims, permits and effects, handoffs, members, installations, authority changes, accepted operations; an installation's checkpoints and pending-push obligations | transact (fetch, check, push with a lease, resolve a lost answer), claim, permit, finish, begin/acknowledge/complete a handoff, change or revoke members and installations, fence, reconcile | the git remote, the scheduler |
| Tick (`scheduler/__init__.py`) | one pass at a time under the controller lock; task transitions | reap all, sweep, refresh, poll, review, dispatch, audit, save | every mixin below |
| Dispatch (`scheduler/dispatch.py`, `selection.py`) | run records, revision counters, pending feedback | select, admit, start, account, transition | runners, state file, task store |
| Reap and finalize (`scheduler/reap.py`) | run records, attempts, environment-stop counters | collect, push, open or update a PR, retry, fail, restore, sweep dead runs | runners, git, GitHub |
| Check runs (`scheduler/checkruns.py`) | `check_run` continuation | dispatch, collect, retry or park, continue per stage | runners, reap, poll |
| Poll, feedback and automerge (`scheduler/poll.py`, `feedback.py`, `github.py`) | feedback cursor and identities, pending feedback, CI facts, merge gate | refresh, poll, apply feedback, CI analysis, merge, restack | GitHub, dispatch |
| Reviews (`scheduler/review.py`, `review.py`, `personas.py`) | pending reviews, rounds, verdicts | queue, dispatch, reap, merge verdicts | runners, poll |
| Rebase, stacking, merge queue (`scheduler/rebase.py`, `queue.py`, `graph.py`) | pending rebases, parents, candidate verdicts | rebase, restack, promote, queue | git, GitHub |
| Operator actions (`scheduler/human.py`) | reservations, decisions, holds | retry, answer, approve, cancel, reserve, return, merge decisions | state file, task store |
| State file (`scheduler/state.py`) | `.garden/state.json`, per-process copies with dirty keys, history archive | load, save (merge under a lock), archive, restore | every process of the garden |
| Task store (`store.py`, `model.py`) | task Markdown files | load, three-way merge save | people editing files, git |
| Run records (`runs.py`) | `run.json` per run with `record_version` | create, save (compare and swap), lease, finish | scheduler, remote workers, supervisor |
| Remote workers (`remote_worker.py`, `managed_worker.py`, `web/pages/api.py`), supervisor (`run_supervisor.py`), runners (`runner/`) | leases on run records; a daemon's active claim, pending result and quarantine; staging refs; process groups, exit files | claim, heartbeat, upload, finish, recover, deliver; spawn, watch, kill | run records, hosts |
| Hosts and fleet (`hosts/`, `fleet.py`) | the scale operation (desired count, phase), host rows and replacement generations, worker-drains.json, enrolments, backoff and breaker | admit, converge, drain, retire, replace, clean up, fence, enrol, revoke | cloud provider, workers |
| Resources, quota, budget (`scheduler/resources.py`, `quota.py`, `budget.py`) | pauses, pressure, spend | admit, pause, resume | dispatch |
| Fences (`scheduler/fence.py`) | snapshots of files a worker must not touch | snapshot, compare, restore | reap, state file |
| Members and trust (`members.py`, `web/trust.py`) | members, credentials, sessions | enrol, revoke, authenticate | web, coordinator |
| Plugins, QA, planning, retro, onboarding, briefs, costs, events, notify, CLI, web, TUI | mostly derived views and I/O | – | – |

What makes the system hard:

* **Kills between writes.** One operation writes the run record, the task file,
  the state file and GitHub one after the other; the controller is restarted on
  upgrade and can die anywhere. Only the order of the writes protects it.
* **Observation and consumption are separate.** GitHub is polled with a cursor;
  the cursor, the identities seen, the pending feedback and the brief of a run
  are four records of the same comments.
* **Detached processes.** Workers, checks and reviews outlive the pass that
  started them and are collected by a later one, perhaps by another controller.
* **Several installations.** Requests are repeated, delayed past a handoff, and
  their effects on the provider may have an unknown outcome.
* **Limits.** Revision caps, environment-stop caps, pools and local admission
  refuse work at inconvenient moments.

Hazards, each at its line and with the properties that would catch it, are
listed in PROJECT.json.

What makes each part correct: the coordinator must never let two owners' work
interleave, lose a version, repeat a mutation with an unknown outcome or
overcommit a pool; feedback must be handled once, never dropped, and always
reach a worker or a person; a run must be collected once and its work never
lost or repeated; the state file must not lose a concurrent writer's update; a
lease must have one holder; a merge must be of the head that was approved.

## 2. Plan

1. `Coordination` – the coordinator, with proofs (done).
2. `PrFeedback` – refresh, poll, CI analysis, revise dispatch, collection and
   environment stops around one pull request, with proofs (done).
3. `TaskLoop` – the first rounds of a task: dispatch, launch, finalize, push,
   pre-PR checks, retries, the sweep of dead runs, with kills between writes and
   operator commands inside a pass, with proofs (done).
4. `StateFile` – dirty-key merging of `state.json` between processes and the
   history archive, with proofs (done).
5. `GitStore`, `OperationLog` – transactions on a git ref, and the log of
   operations they implement, with proofs (done); `GitAuthority` – ownership and
   execution under it, with proofs (done). The second uses an accepted transaction
   of the first as one step.
6. `RemoteRun` – one run leased to worker daemons on other machines, with
   proofs (done).
7. `HostPool` – the scale operation, the fleet controller and draining, with
   proofs (done).
8. `MergeQueue` – the queue, pre-merge rebase, approval lineage and merge, with
   proofs (done, without stacks).

Left, in this order: `Admission` (pools, quota pauses, budget and the fence's
snapshot around several tasks sharing the slots of a pass); `Stacks` (parents,
retargeting and restacking in the poll); `Enrollment` (the journalled steps of
a host's enrolment and the leases of `acquire_ready`); `AuxRuns` (trials,
retros, kickoff and edit runs, whose continuation pointers follow the pattern
of check runs); `Cleanup` (what cleanup may remove while a run owns it, and the
upgrade's drain); `Members` (sessions, invitations); the three-way merge of
`TaskStore` as a pure algorithm; personas and the merging of several reviewers'
verdicts; the SSH runner.

Theorems: every invariant and every action property that a run checks is proved;
what is left to TLC is liveness. Worth proving next are `OneHead` (a count) and
`ReviewBudget`, which hold of MergeQueue and are in no run, and the bounds of
PrFeedback's `TypeOK`.

### The runs

| Run | Module | Shows |
|---|---|---|
| `coordination_fencing` | Coordination | fences, versions, pinned effects, the handoff barrier and the order of projections |
| `coordination_phase` | Coordination | pools are never overcommitted |
| `feedback_rounds` | PrFeedback | comments are handled once, none is dropped, CI failures and verdicts are routed; with a kill between any two writes no comment is dropped and handled failures were analysed |
| `feedback_live` | PrFeedback | rounds resolve, comments are answered |
| `task_rounds` | TaskLoop | attempts, goalposts, finished work, one writer, a run to follow |
| `task_live` | TaskLoop | no task stays running, no record active |
| `state_sharing` | StateFile | nothing forgotten or clobbered, archiving is invisible |
| `git_store` | GitStore | implements OperationLog; what is reported done is in the ref |
| `git_authority` | GitAuthority | one executor, under the authority in force, each effect once |
| `remote_lease` | RemoteRun | results whole, final and delivered; runs end |
| `host_pool` | HostPool | leased work is drained, a cleanup is final, the pool settles |
| `merge_heads` | MergeQueue | approvals follow patches, exact heads merge, pushes stay |

All are exhaustive. Several modules take a set `Bounds` of records: a behaviour
starts by choosing one and `left` counts it down, so one run covers, say, "long
and quiet" and "short with every fault" without their product. Deadlock is
checked for PrFeedback, TaskLoop and StateFile; the others may stop because the
bounded counters, or the system itself, run out of things to do.

## 3. Coordination

One variable per table. A request names an operation id; a repeated id answers
from the operation log (`Fresh`, `Record`) and changes nothing. Each method of
`Coordinator` is one action, guarded by the checks it makes in the order it
makes them; a method runs in one SQLite transaction, so an action is atomic and
concurrency is the order of actions. Requests may be arbitrarily late: a caller
presents any claim that was ever issued (`Issued`), so stale claims after
expiry, handoff or reassignment are ordinary inputs. Time is a counter read by
`claim`.

Properties: fences are never reused (`FencesUnique`); work accepted under a
newer lease is never followed by work accepted under an older one
(`AcceptedInFenceOrder`); each version of a scope is replaced by exactly one
operation that had seen it (`EachVersionReplacedOnce`); an effect with an
unknown outcome pins its claim and owner (`UnresolvedEffectPinsClaim`); no
claim before every cancelled installation acknowledged
(`ReconciledBeforeClaim`); projections are published in version order
(`ProjectionsInOrder`); pools are never overcommitted (`WithinLimits`).

Runs: `coordination_fencing` (one task, three installations, all orders of up
to five committed operations – enough for claim, handoff, handoff back, late
request) and `coordination_phase` (a phase and a global pool).
`ProjectionsInOrder` is stated for tasks: `finish_outbox` (coordination.py:444)
compares versions for scopes of kind task only, so a superseded projection of a
phase can still be reported done.

### Proofs (`CoordinationProofs`)

For any sets of scopes, installations, members, pools and operations and any
bounds satisfying the named assumptions. `TypeCorrect` is proved first. The
others follow from one inductive invariant, `FencingHolds`: the safety
properties alone are not inductive, because they speak of accepted work and not
of the claims still in flight. The strengthening relates every issued claim to
the row it was issued from (its fence is at most the row's, equal only for the
present lease), every pending effect to the claim that began it, the operation
log to the version history, and pending cancellations to the absence of a
lease. One lemma per action shows that it is preserved; what an action reads is
stated with primed hypotheses, so each lemma sees only the tables it changes.

`PoolNeverOvercommitted` (`WithinLimits`) is about a sum over the active
operations of a pool. The sum of the code is the library's `MapThenSumSet`; the
section "Sums over finite sets" shows that a fold in the library's own order is
the sum in any order, and that one more element adds its value. The induction
theorems take an operator and cannot be instantiated; the section argues with a
smallest counterexample instead (`MinimalSubset`). The invariant then says of
every pool that finitely many reservations are active and that their sum fits the
limit: a reservation checks it, a release only lowers it, and a change of the limits
compares with it. `ProjectedInOrder` (`ProjectionsInOrder`) needs that no
queued projection is newer than its task's row (`OutboxBehind`): `finish_outbox`
compares with the row only, so this is what makes the comparison cover every
other projection.

## 4. PrFeedback

One task with an open pull request. A controller pass is a program counter:
reload, reap (check run, worker run), sweep, refresh, poll, dispatch, audit,
save. `disk` is state.json, `mem` the pass's copy; task file, run record and
GitHub change where the code writes them, and `Crash` can strike between any
two writes. GitHub, processes and people act at any time. Operator actions are
taken between passes here; commands whose writes fall inside a pass are
`TaskLoop`'s subject. `Pressure` lets local admission refuse a check run,
`Outage` lets the provider fail while collected results are routed.

Abstractions: a comment is a model value with the second it was posted in; a CI
rollup is its result for the head; the text of pending feedback is the set of
its parts. The `revision_policy` extension is taken as disabled, so
`max_revisions` is the cap. Left out here: merged and closed pull requests,
drafts and triage, conflicts and restacking, held phases, manual runners.

Properties: `HandledOnce` (no comment is worked on by two rounds),
`FeedbackKept` (a comment the cursor passed is pending, being worked on,
answered or with a person), `CiFailureRouted` (a failure recorded as handled
has led somewhere), `CiVerdictKept` (an analyser's verdict is applied or found
obsolete, never dropped), and the leads-to properties `QueuedRoundResolves` and
`CommentAnswered`. `HandledOnce` makes an exception for kills, `FeedbackKept` for
the environment stop that reaches the cap, `CiFailureRouted` for local pressure,
`CiVerdictKept` for kills and a provider outage, `CommentAnswered` for the
comments `FeedbackReachable` says are lost: section 12. `RerunOnce` (the
flaky-CI rerun is spent once) and `TypeOK` hold as well.

Bounds: `feedback_rounds` chooses between two rounds on two trusted comments
without a fault and one round on one comment with a kill, local pressure and an
outage. Two seconds cover a row in the cursor's own second and one after it; two
runs are a round and the one after it; one kill covers every pair of adjacent
writes. `feedback_live` uses one trusted comment and one row of noise, since
`CommentAnswered` is about each comment separately and needs only something
else to move the cursor.

Fairness (`FairSpec`): the watch loop calls `tick` forever, so `Tick` is weakly
fair; processes end or are killed at their timeout, so `Exits` is weakly fair;
the provider may fail any number of times but not for ever, so the two actions
that need its answer are strongly fair.

### Proofs (first half of `StateProofs`)

For any comments, timestamps, caps and bounds, kills included. None of the four
invariants is inductive. Each speaks of the file, which a pass overwrites with its
copy, so each is claimed of the copy as well; and each needs to know where the
pass is, since between two writes task file, run record and state disagree. The
invariant `FeedbackInv` is the conjunction of:

* `Shape`, `Pointers`: the types, and a continuation that names a check run.
* `Control`: where the copy equals the file; what each position of the pass implies
  of the task's status, the worker run and the continuation; that a verdict between
  its write and its save is marked as applied, and that its items are pending
  unless there were none.
* `Capped`, `KeptInv`: what an entry has seen is done with while the task is in
  review or a verdict is still to be applied, in the brief or done with while it
  runs, and otherwise pending or done with, with a dispatch between its three
  writes and an environment stop between its two taken apart; only a task with a
  person has reached the cap. They give `FeedbackNeverDropped` (`FeedbackKept`).
* `OnceInv`, without kills: what is pending or in a brief was seen, what was worked
  on is in neither, what the pass observed was not seen before, and a running
  task has nothing pending. It gives `CommentWorkedOnOnce` (`HandledOnce`).
* `RoutedInv` gives `FailureReachesAnalyser` (`CiFailureRouted`).
* `Heads`, `VerdictInv`: the head of a continuation is the task's, heads only grow,
  the continuation of a closed run is marked collected once the second write is
  done, and it exists only in the review flow, so none of the early returns of
  `_after_ci_check` but "already applied" can meet a verdict on the current head.
  They give `VerdictNeverLost` (`CiVerdictKept`).
* `RerunInv`: only a run that was given the rerun asks for it, and one that was
  given it and is not applied finds it unspent. It gives `RerunSpentOnce`.

A lemma per action says what it does to the fields the invariants read (`Reads`);
the step lemmas, one per conjunct and one case per action, use only those.
`FeedbackAssumption` says that the CI part and the operator's note are not
comments; the code keeps the three under different keys.

## 5. TaskLoop

One task from `ready` to an open pull request. `file` is the task file, `disk`
the task's entry of state.json, `runs` the run records together with the truth
about each process, `prs` what GitHub has. A pass works on copies: `t` holds
the task as loaded and as changed, `mem` the state entry with its dirty keys;
`MergeTask` and `MergeState` are the three-way merges by which a save applies
only what the writer changed. `cur` is the run the pass holds with the status
it was loaded with; a record that changed meanwhile makes the save raise
(`Conflict`). `pc` walks the pass: reap (worker or check), finalize, checks,
pull request, sweep, dispatch, save. Each step ends at a durable write, so the
kill (`Crash`) and the steps of others fall between any two writes.

`garden cancel` and `garden retry` run in processes of their own, without the
lock a pass holds; `op` is such a command between its load, the stop of the
processes, the task file and the state file. `answer` does take the lock and so
begins only between passes.

Abstractions: criteria are a version number, a worker's result is its status
(`gaps` is work without evidence for a criterion), a check's is pass, fail or
"did not run". Whether the base moved, a rebase applies, a push or GitHub fails
is a nondeterministic choice. Left out: `wont_do` and `no_change`, trials,
investigations, rebase-agent runs, stacks, fences, manual, remote and SSH
runners, the stall policy. reap's way back to `ready` when a running task has
no run to follow is left out because it is never taken: that is `RunFollowed`.

Properties: `AttemptBudget` (failed rounds stay within the attempts although the
counter is raised at dispatch and given back by environment stops),
`GoalpostsFixed` (a result is judged by the criteria its worker was given),
`FinishedWorkUsed` (finished work is finalized, not swept), `OneWriter` (one
live worker per worktree), `RunFollowed` (a running task has a run that reap
can follow), `RunningResolves` and `RecordsClosed`. A timed-out worker does not
count for `OneWriter`; operator commands are excepted from `AttemptBudget` and
`FinishedWorkUsed`. `EditsKept`, `QuestionKept`, `FinishedOnce` and `TypeOK`
hold in the same instances.

Bounds: `task_rounds` chooses between three workers and three checks with an
environment stop, a vanished process, a timeout and an edit, and two workers
with one command, a question and its answer. Three workers are a round, its
retry and its revision; three checks reach the recheck after a rebase; one
command, one edit and one kill meet every pair of adjacent writes. `task_live`
has two workers, two checks, a vanished process and a kill of the controller,
and one attempt, so that a single failure is already at the limit.

Fairness (`FairSpec`): the watch loop ticks for ever and processes end or are
ended by their supervisor's deadline; nobody has to answer, edit or type a
command. `RunningResolves` and `RecordsClosed` make an exception for a check
that admission refuses for ever, and for the reservation of a cancelled task,
which the sweep keeps as an ownership marker.

### Proofs (`TaskLoopProofs`)

For any bounds on rounds, checks, failures, commands, edits, answers and kills.
The invariant `IInv` says, for every position of the pass, what it knows of the
run it holds, although a command may have closed that run since:

* `Shape`: the types; a check's pointer, in memory and on disk, names a check
  and the worker run it continues; a closed worker record has its time of
  completion.
* `Followed`: the newest worker run of a `running` task is past its reservation.
  This and `Shape` give `RunFollowed`, kills included.
* `Place`: what each position of the pass implies of `cur` and of the pass's
  copies.
* `Writer`, without kills: at most one worker record is active, and none while
  the pass is between closing one and moving the task; a process whose record
  has its time of completion is gone, or was timed out. It gives `OneWriter`.
  Its hypothesis is needed: a kill between Popen and the save of the pid lets a
  second worker start (section 12).
* `Unbidden`, without kills and commands: the copies of the pass agree with the
  files where it will act on them, an active worker belongs to a running task,
  and a check is followed only while no worker is active and the task has not
  failed. It gives `FinishedWorkUsed`.
* `Judged`, where a task is not both edited and answered: each run keeps the
  snapshot of the criteria it was given, or there is one version of them only.
  It gives `GoalpostsFixed`; the answer that drops the snapshot is in section 12.

Most actions are instances of a few lemmas about a kind of step: `PassStep` (a
step of the pass that starts no worker), `Starts` (a dispatch that goes on),
`ProcessesEnd` and `OutsideStep` (a write of another process); they say once what
such a step has to leave alone. `LatestIs` describes latest_worker_run, `Later`
and `Alike` how the records may change.

`AttemptBudget` rests on a second invariant, `Budget`, proved on top of `IInv`,
without kills and commands (a retry resets the counter):

* `Counted`: the work rounds that ran and failed (`Spent`) are at most the
  attempts in the task file; while the newest work round of a `running` task has
  not failed, one attempt more is counted than were spent, so that an
  environment stop may give it back; and where no attempt is left, the task has
  failed or the pass is about to fail it.
* `Current`: the active worker run and the run the pass handles are the newest
  one, and a task that is running or being dispatched has no failed newest run.

A step that fails no worker run is an instance of `CountKept`; `FailureFits` is
the step that does. Without kills is needed: a kill between the save of the pid
and the transition to `running` leaves a round that was not counted (section
12). The two liveness properties are checked by TLC only.

## 6. StateFile

One task's entry of state.json, shared by any number of processes. `entry` is
what the file has of it; `val[p]` is process p's `_TaskState`, with `written[p]`
and `snap[p]` for `_written` and `_snapshots`. `held[p]` are the keys whose
live value some caller of p still has and can change without being noticed.
`base[p]` and `changed[p]` are history variables: what p last agreed on with
the file, and the keys its callers changed since.

`Load`, `Read`, `Write`, `SetDefault`, `Delete` and `Save` are the methods of
`_TaskState` and `State`; `Prepare`, `Commit`, `CommitSkipped` and
`RestoreOperational` move historical keys of a finished task to a blob and
back. save and commit_completed hold the file lock from reading the file to
replacing it, so each is one action; prepare_completed holds none and is an
action of its own.

Abstractions: every value is a list or dict, a scalar being one that nobody
changes in place; a blob is its payload, since its name is the payload's hash;
a failing disk, a corrupt blob (both raise before anything changes) and the
index file, which nothing reads for its contents, are left out. So is
restore_other_task_keys.

Properties: `NothingForgotten` (a key that save would leave out is unchanged
since process and file agreed on it), `ReadersNeverClobber` (a control key
changes on disk only to what the writer's own callers made of it since then),
`ArchiveInvisible` (a first archive and an up-to-date restore change nothing
that `historical` shows, whoever writes between prepare and commit).

Bounds: two processes are a writer and the one it races; one control and one
historical key suffice because keys are tracked separately; three changes are
one in each process and one after a save; two archives are a plan and another
process's. `ArchiveInvisible` makes an exception for a restore from an outdated copy
(section 12).

### Proofs (second half of `StateProofs`)

For any processes, keys, values and bounds satisfying `StateFileAssumption`.
`FileTypeCorrect` first. `NothingForgotten` is not inductive: a change in place is only found because a
copy of the value exists and equals what the file had. The strengthening, `KeyOK`
for every process and key, says of a key not named as written that its copy, or
without a copy its value, is what was agreed on; that a value a caller can
change in place is named or copied; and that a key its callers did not change
is not named and has the agreed value. One lemma per action preserves it. Two
action properties follow. `NoClobber`: what save writes is dirty, so it was named
or differs from its copy, and in both cases a caller changed it.
`ArchivingShowsNothing` (`ArchiveInvisible`): what a commit moves to the archive is
what the file had, because the plan is compared with it under the lock, and what a
restore puts back is what the reference showed or what the restoring process
changed.

## 7. GitStore and OperationLog

`OperationLog` is what the shared state promises: one log of operations, each
id at most once, each allowed by the operations before it, and a user that only
ever learns an extension of what it knew. Somebody with access to the
repository can take the log back (`Outside`); users then refuse to go on.

`GitStore` is `GitStateStore.transact` on a ref. A commit is identified with
its history, the sequence of operations since the root; `ref` is the remote
ref, `wire` the pushes on their way, `observed` and `validated` the two
checkpoints a client keeps, `owed` its pending-push obligations, `call` the
transaction it is in. Fetch, the write of each checkpoint, the decision, the
push, its arrival and its answer are separate steps; a push may arrive after
its sender gave up, arrive twice behind a retry, or never; a client may be
killed (in the middle of writing its checkpoint the file is left empty), and
the ref may be rewound or deleted.

`Operations(ref)` and `Operations(validated[u])` are the refinement mapping;
`ImplementsLog` is the property `Log!Spec`. `AnswersTrue`: an operation
reported done is in the ref as that caller sent it, until somebody tampers with
the ref. `FreshOnce` (one caller gets the fresh acceptance of an id) holds too.

Bounds: two users, two ids of which only one can be applied, two inputs, two
retries, three pushes, three calls, one kill, one tampering. Two conflicting
ids are the whole of what `mutate` decides here; three pushes are the root and
two that race.

### Proofs (`GitStoreProofs`)

For any users, ids, inputs, conflicts between ids, retries and bounds.
`AnswersTrue` and the refinement are not inductive:
a push on its way decides what the ref will be, and a call that waits for its
answer knows less than the ref. The invariant therefore has two halves.
`Structure` holds always: the ref, every checkpoint and every commit under way
is a rooted history with each id at most once, a push extends the head it
expects by one operation that its head allows, pushes are numbered and the call
that awaits one is the call that sent it. `Truth` holds until somebody tampers:
every head a call has read is a prefix of the ref, a push answered "ok" is in
the ref, and the answers given are true. One lemma per step of `transact`
preserves both; `StoreInvariant` collects them.

`StoreRefinesLog` proves `ImplementsLog`: a fetch that is validated is the log's
`Learn`, a push that lands is its `Apply`, tampering is `Outside`, and every
other step – the checkpoint files, retries, lost answers, kills – leaves the
mapped state alone. `IdOnce` and `AcceptedOnce` (`OneRecord`, `FreshOnce`) are
proved as well.

## 8. GitAuthority

Ownership of one entity in that state. An accepted transaction is one step and
a rejected one none – what section 7 shows – unless the caller goes on
differently after a rejection. `ent`, `claim`, `effects`, `handoff`, `members`,
`enrolled`, `changes` and `ops` are the tables; `view[i]` is what
installation i's process last read, `doing[i]` the effect it is inside of,
`acking[i]` how far it is with stopping and handing over, `works[i]` the
generations whose worker processes live there. The actions are claim, admit
(permit and effect in one transaction), refuse, launch, finish, kill; begin,
cancel, acknowledge and complete a handoff, also on behalf of another or by
inheritance from a phase; disable or narrow a member, revoke or enrol an
installation, complete such a change; fence from outside and reconcile an
effect. An operation id is made of what the code makes it of, so collisions
between ids are in the model.

`OneExecutor`, `WorkUnderAuthority` (whoever executes holds the claim of the
generation in force), `UnresolvedPins`, and the action property `ExecutedOnce`.
`OutsidersIdle` holds too. Two things are assumed: whoever records an external
fence or reconciles an effect tells the truth. `Beside = TRUE` adds commands and web
pages that dispatch beside the pass; the run has it FALSE, see section 12.

Bounds: a member with two installations and an administrator with one, two
generations, one administrative change and one kill: enough for a handoff
against a stale view, between installations of one member and across members.
Symmetry: the member's two installations.

### Proofs (`GitAuthorityProofs`)

For any members, installations, keys, generations and numbers of changes and
kills, with `Beside = FALSE` as the only hypothesis: the theorems are of the
form `~Beside => (Spec => ...)`, and section 12 shows why it is needed.
`OneExecutor` is not inductive: an installation executes on what it read
earlier, and what stops a second one is spread over six tables. The invariant
`IInv` says that a claim is of the generation in force, of the owner and of an
enrolled installation (`ClaimInForce`); that an administrative change not
concerning the claim's holder stays apart from it (`ChangesApart`); that a body
runs under an unsettled effect of its own (`RunsOpenEffect`) and workers live
where the claim is (`WorkersClaimed`); that a handoff drains the generation it
names (`Draining`); that who acknowledged has stopped (`StoppedIdle`,
`StopsIdle`); and that every effect is in the log of accepted operations
(`Recorded`), which is what keeps a replayed claim from executing again. From
it follow `WorkUnderAuthority`, `OneExecutor`, `UnresolvedPins`,
`OutsidersIdle`, and the action property `ExecutedOnce`.

## 9. RemoteRun

One run, the controller's three requests, the scheduler's pass over the record,
and the daemons with their supervisors. A generation is one accepted claim. On
the controller `run` is the record with its result files; claim and heartbeat
are one step, finish is two (files and receipt, then the completion marker), so
that the web process can die between them. `seen` is the copy the scheduler
decides on, which `record_version` makes outdated. On a host, `wk` is the
daemon's program counter, `disk` its active claim and pending result, `sup` and
`exits` the supervisors and the exit codes they recorded; these survive the
daemon. A request the daemon stopped waiting for stays in `late` and may be
handled at any later time.

Properties: `ResultIntact` (a run whose result files one generation wrote is
never granted to another, and what is finalized is the result of the generation
that still held the lease), `PollsIdle` (a host asking for work has no
supervisor left), `VerdictFinal` (an accepted result and a revoked lease are
final), `FinishedWorkDelivered` and `RunEnds`. `ResultPushed`,
`FinishedWorkKept` and `TypeOK` hold too.

Bounds: two hosts and one kill, or one host, two kills and a lost request; two
generations. Two hosts and two generations are a holder and its successor; two
kills are one in the work and one in its recovery.

Fairness: the process manager restarts daemons and a daemon goes on with what
it is doing; workloads end; finish, finalize, the deadline, the pass that sees
it and inspection happen. Nothing is said of leases, losses, uploads and kills,
so `FinishedWorkDelivered` says "while the lease is good".

Not modelled: transcript upload beyond the conflict of a second generation with
the first one's offsets, clones, credentials, capability matching.

### Proofs (`RemoteRunProofs`)

For any hosts, generations and bounds. The invariant `IInv` ties each host to
the record: the token in force is that of the last claim or revoked and a
finish being served has stored its result (`RecordOK`); a supervisor belongs to
the active claim on disk and a daemon past its recovery has none other than the
one it executes (`HostOK`); the files name granted generations, the pending one
not newer than the active one (`FilesOK`); what may still be sent as work was
pushed before (`StagedOK`, `LateOK`); and a finished execution whose lease is
good is in one of the two files or with the controller (`KeptOn`). A step of the
controller is first shown never to take anything back (`Forward`), so that the
facts about hosts survive it; a step of a host leaves the record alone.
`ResultIntact`, `PollsIdle`, `ResultPushed` and `FinishedWorkKept` follow, and
`VerdictFinal` from the same lemmas.

## 10. MergeQueue

Pull requests with an approving review. A head is a patch (a number standing for
everything the branch changes) on a version of the base; heads with the same
patch have the same git patch id. `pr` is GitHub's side, `wt` the worktree,
`runs` the completed rebases, `st` the keys of state.json that matter here
(observed head, verdict and its head, approval lineage, last reviewed diff,
running and pending reviews, head marker, check run), `line` the queue. The
controller is one process; a handler that calls git or GitHub more than once is
a sequence of steps (`step`) between which authors push, CI reports and the
base moves. The configuration is chosen initially: `current`
(automerge_require_current_base), `checks`, `ci`.

`Derived`, `EffectiveHead`, `Extends` and `Gate` translate the decisions of the
code: which heads an approval stands for and when a pull request may merge. A
review is queued, runs on a head and ends in a verdict.

`ApprovalFollowsPatch`: a head the approval is said to stand for has a patch
that a reviewer approved, whatever rebases, stale worktrees, rejected pushes
and kills lie between. `ExactHeadMerged`: where heads are merged as they are,
what is merged was approved. `PushesKept`: no rebase takes a pushed commit off
a branch. `OneHead` and `ReviewBudget` hold too when they are added to the
configuration; no run lists them.

Bounds: two tasks, one of which gets a second patch (an author's push, a
revision or a rebase that drops a commit), two versions of the base, one
counted review round, one failing push or merge or kill, and two
configurations: the default, and exact-head merging with CI. Two tasks are
needed for the queue's order and for a merge that moves the other's base.

Not modelled: stacks, retargeting and restacking (poll.py:796–1016), scratch
merges of hard tasks, the budget, tier and guarded-path gates, the retry of a
head's check, triage drafts. state.json is taken as saved between the modelled
steps.

### Proofs (`MergeQueueProofs`)

For any tasks, configurations, patches, bases, review rounds and faults.
`ApprovalFollowsPatch` is not inductive: what an approval stands for depends on
the recorded rebases, which must not claim a patch they changed; these depend on
what the running handler measured before its push; and a merge depends on the
head the gate looked at before the call. `IInv` says all of it: an entry of
state.json names heads of approved patches where it names an approval
(`EntryOK`), a recorded rebase marked as keeping the patch kept it, the worktree
and the pull request carry patches the author wrote and what is merged was
approved (`RowOK`), and the handler's locals are still what it measured
(`HandlerOK`). `Derived` says that a head lies in every set that contains the
approved one and is closed under the recorded rebases; the heads of the approved
patch are such a set, so no induction is needed. `Grows` is the part of every
step that gives `PushesKept`. `OneHead`, which counts, is not proved.

## 11. HostPool

The scale operation, the lifecycle it drives, the fleet controller, the drain
fence, the machines and the workers' claims. A pass (of the controller or of a
command) holds the admission lock from beginning to end, so passes exclude each
other; its locals are `pass`, which a kill loses. A host is a slot and a
generation, which is its operation id and the provider's idempotency token.
`cloud` has the truth about machines, which discovery shows late; `fence` is
worker-drains.json, `rec` and `gens` the lifecycle file, `op` the operation,
`cred` the live enrolments, `fleet` the configured count, backoff and breaker;
`asking` and `run` are claims and leases. A claim reads the fence in one step
and leases in the next.

Assumptions about the provider (external): a token launches one machine and is
forgotten once the machine is gone; termination is observed or takes effect
later; listing may lag behind a launch. The code's readiness check never
answers "unhealthy", so that branch of reconcile is left out. Money and
declarations are not modelled; the operation is the admitted one throughout.

`WorkDrained`: a pass terminates no machine under a run leased before the fence
was up, except past the drain's deadline or the notice, in an emergency stop, or
where the code retires surplus or superseded machines without a drain (section
12). `NoRevival`: a cleanup is final, unless a controller pass that read a count
below the admitted one drains the rest of the pool. `PoolSettles`: the pool
comes to rest with exactly the wanted machines, none, or the breaker open.

Bounds: two slots, two replacements per slot, a breaker of two; and one fault
with two claims, or two commands, or the deadline with or without claims. One
fault is a lost launch, a kill, a dead, broken or interrupted machine, a failed
termination, enrolment or revocation.

Fairness: the controller ticks and a started pass goes on; late machines are
listed, terminations, notices and the deadline take effect; a worker finishes
what it leased or its lease runs out.

### Proofs (`HostPoolProofs`)

For any number of slots, generations, commands, claims and faults. Both action
properties need to know what the running pass has established: between the
answer of the drain store and the termination the host's fence is up and no run
leased before it is left, or a deadline has passed (`TargetOK`: a lease that
slips in afterwards is marked `raced`, and machines come up only in a pass);
what is terminated without a drain is of an older generation (`StaleOK`); and a
pass in a closing operation only drains (`ClosedOK`). `BreakerOK` bounds the
failed passes the controller counts, which the type invariant needs. The first
host of a set exists because the order of the naturals is well-founded. The
proof showed that an earlier form of `NoRevival`, which looked at the configured
count during the pass, fails when the count is raised while a scale-down drains;
it now names the pass. `PoolSettles` is liveness and stays with TLC.

## 12. Properties that do not hold

Stated in the modules or obtained from a passing run by changing the constants
named; none is part of a run. Each is behaviour of the code that its comments or
documents describe differently, or that a maintainer may want to know of.

Reviews and merging:

* `ChangedPatchReviewed` (MergeQueue, default configuration, one task,
  `MaxRounds = 2`, no fault): a pre-merge rebase that folds in an author's push
  is merged without a review of it. `_after_merge_rebase_check`
  (checkruns.py:1059) runs while `check_run` is still set, so
  `_dispatch_or_defer_reviews` (review.py:169) defers the review; the gate does
  not look at pending reviews, and the queue runs before they are drained.
  rebase.py:18–21 and docs/architecture.md:656 say that a changed patch is
  reviewed again. In the same configuration a push between the candidate's
  check and its second look is merged too.

Feedback:

* `HandledOnce` without its exception: a kill between the transition of a dispatch
  and its save (dispatch.py:1301–1302) leaves the comments of the round pending in the file
  while its worker runs; when the round ends they are dispatched again.
* `FeedbackReachable`: the cursor passes comments that no poll took
  (poll.py:184).
* `FeedbackKept` without its exception: the last permitted environment stop returns
  before the feedback is restored (reap.py:1332).
* `CiFailureRouted` without its exception: a failure is recorded as handled
  before local admission refuses its analyser (poll.py:412).
* `CiVerdictKept` without its exceptions: a provider failure while results are
  routed is taken for success (poll.py:504); a kill between closing a check's
  record and marking it collected drops its verdict (checkruns.py:435).

Task rounds:

* `CancelSticks` (TaskLoop, one command): a pass that loaded the task before
  `garden cancel` writes its own transition over it (scheduler/__init__.py:1071;
  docs/operations.md:48).
* `OneWriter` counting timed-out workers: a worker past its budget is sent
  SIGTERM and not waited for, and its successor starts in the same pass
  (reap.py:265). With a kill between Popen and the save of the pid
  (runner/local.py:321) the sweep closes a live worker's record as never
  started.
* `AttemptBudget` with a kill between the save of a worker's pid and the
  transition that raises the attempts (dispatch.py:1267): the sweep closes the
  round as failed and the task is still `ready`, so it gets one round more.
* `FinishedWorkUsed` with a kill after the worker's start and before the task is
  `running`: nothing leads to the finished worker (reap.py:1613).
* `QuestionKept` with a kill between a resume dispatch and its snapshot
  (human.py:883), then an environment stop: the question is lost.
* `GoalpostsFixed` where a worker is resumed by an answer and the task edited:
  the answer replaces the snapshot with the criteria in it (human.py:882);
  dispatch.py:1220 promises that "review never silently moves its goalposts".
* A revise round before the pull request that stops for lack of quota goes to
  `ready` and starts again as a work round, without its feedback (reap.py:1380).
* A kill between the save of an outcome and its event (reap.py:450) leaves the
  run unreported: `FinishedOnce` says at most once.

State file:

* `HistoryLossless` (two historical keys, one process): archiving a task a
  second time hides its first archive (state.py:380; state.py:215).
* `pop(key, None)` of a key the process never saw counts as a change
  (state.py:145): the next save deletes what another process has put there.
* A restore from a copy loaded before another process restored and extended the
  history puts the archived value back (state.py:263).

Remote runs:

* `DaemonReturns`: a daemon that dies of an unrecoverable publication finds the
  same claim on its next start (remote_worker.py:410, 1240), although
  docs/worker-protocol.md:116 says it "cannot restart-loop on an undeliverable
  result". A 409 answer to a claim ends the daemon as well.
* `AcceptedNotTimedOut`: a pass that read the record before finish wrote the
  marker can still revoke it, since the marker is not part of the record's
  version (api.py:946).
* A daemon killed after its result was accepted quarantines it as stale; a check
  without a timeout whose finish was cut between receipt and marker is never
  finished.

Shared coordination:

* `HandoffResolves` (FairSpec): a handoff can wait for ever, for instance when
  the installation that should acknowledge is not the owner's any more;
  git_coordination.py:1496 says "draining and acknowledgement remain automatic".
* `OwnerAuthorized`, `ChangesCompletable`: a member disabled while a handoff to
  them completes owns the entity; a change whose handoff somebody else completed
  cannot be completed.
* `handoff-complete:` ids are made of a version or of a generation and can
  collide; an effect's id is one per key and generation, so a second effect of
  that kind in a generation is refused; `apply` refuses an executor's own finish
  while its member is being changed, which leaves the effect unresolved.
* `OneExecutor` with `Beside = TRUE`: cancel, launch by a page, acknowledge
  leaves a live worker behind the handoff.
* `finish_outbox` compares versions for tasks only (coordination.py:444): a
  superseded projection of a phase can be reported done.

Hosts:

* `WorkDrained` without its exceptions: `--continue` after a reduced count, and
  a machine listed late, are destroyed without a drain (core.py:404), and so are
  superseded generations (core.py:305); docs/host-scale-operation.md:168–171
  describes a drain first.
* `NoRevival` without its exception: a controller pass with waiting
  excess writes `draining` over `cleaning` (scale.py:291); the comment at
  scale.py:339 says "a cleaned operation never reprovisions the capacity it just
  retired".
* An uncertain launch that is not listed in the next pass gets a new generation,
  and a second machine. A fence left on an operation id that is used again keeps
  the new host from claiming (fleet.py:28–31). The claim's check of the fence
  and its lease are not under one lock.

## 13. Proved, checked, not modelled

Proved for every value of the constants, by the theorems of `CoordinationProofs`,
`StateProofs`, `TaskLoopProofs`, `GitStoreProofs`, `GitAuthorityProofs`,
`RemoteRunProofs`, `MergeQueueProofs` and `HostPoolProofs`: every invariant and
action property of the runs, and that GitStore implements OperationLog.

Checked by TLC only, because liveness under fairness is outside the prover's
reach: `QueuedRoundResolves` and `CommentAnswered` (PrFeedback), `RunningResolves`
and `RecordsClosed` (TaskLoop), `FinishedWorkDelivered` and `RunEnds` (RemoteRun),
`PoolSettles` (HostPool). Also with TLC stay `OneHead` and `ReviewBudget` of
MergeQueue and `TypeOK` of PrFeedback, which no run lists, and the assumptions
on constants of each instance.

Not modelled yet: what the plan has left. Not planned: web pages, CLI, TUI,
briefs, notifications, charts, onboarding, planning prompts, plugins and
configuration, which derive views, do I/O or look up values and decide no
protocol state. The whole program has some 83,000 lines, most of them of that
kind; the models cover the lines where several writers, processes or machines
meet.
