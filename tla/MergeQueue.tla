----------------------------- MODULE MergeQueue -----------------------------
(***************************************************************************)
(* Automerge (scheduler/rebase.py, queue.py, poll.py, checkruns.py): pull  *)
(* requests with an approving review wait in a queue; its head is rebased, *)
(* checked and merged, or merged as it is when the product says so.        *)
(*                                                                         *)
(* A branch head is a patch (what the PR itself changes, all commits so    *)
(* far) on a version of the base.  Two heads with the same patch have the  *)
(* same git patch id.  Of a review only what matters here is kept: a       *)
(* review is queued, runs on one head and ends in a verdict.               *)
(*                                                                         *)
(* The controller is one process.  A handler that talks to git or GitHub   *)
(* more than once is a sequence of steps (step), between which authors     *)
(* push, CI reports and the base moves.  A kill inside such a handler      *)
(* loses what the handler had not written.                                 *)
(***************************************************************************)
EXTENDS Integers, FiniteSets, Sequences

CONSTANTS
    Tasks,          \* tasks with an open pull request
    NoTask,
    Confs,          \* configurations: see ConfSet
    MaxPatch,       \* bound: MaxPatch[t], contents of the branch of t
    MaxBase,        \* bound: versions of the base
    MaxRounds,      \* review.max_rounds
    MaxFaults       \* bound: pushes and merges that fail, and kills

\* current: automerge_require_current_base; checks: pre-PR checks are
\* configured; ci: pull requests have a check rollup.
ConfSet == [current : BOOLEAN, checks : BOOLEAN, ci : BOOLEAN]

ASSUME MergeQueueAssumption ==
    /\ NoTask \notin Tasks
    /\ Confs \subseteq ConfSet
    /\ MaxPatch \in [Tasks -> Nat \ {0}]
    /\ MaxRounds \in Nat \ {0}
    /\ {MaxBase, MaxFaults} \subseteq Nat

VARIABLES
    conf,       \* the product's configuration
    base,       \* version of the base branch
    pr,         \* pr[t]: head, rollup, conflict and state of the pull request
    wt,         \* wt[t]: what the task's worktree has checked out
    runs,       \* runs[t]: completed mechanical rebases (run records)
    status,     \* status[t] of the task file
    st,         \* st[t]: the task's state: review, stop, check run, head marker
    line,       \* candidates, by automerge_ready_at
    step,       \* where the controller is in a handler of several calls
    made,       \* made[t]: contents made so far
    approved,   \* history: approved[t], the patches a reviewer approved
    merged,     \* history: merged[t], the patch that was merged
    faults      \* what remains of MaxFaults

ctl == <<status, st, line, step>>
vars == <<conf, base, pr, wt, runs, ctl, made, approved, merged, faults>>

NoHead == [p |-> 0, b |-> 0]
Heads(t) == [p : 1 .. MaxPatch[t], b : 0 .. MaxBase]
Rebases(t) == [from : Heads(t), local : Heads(t), to : Heads(t), same : BOOLEAN]
NoRebase == [from |-> NoHead, local |-> NoHead, to |-> NoHead, same |-> FALSE]
NoCheck == [on |-> FALSE, run |-> NoRebase, mh |-> FALSE]
Idle == [op |-> "idle", t |-> NoTask, mh |-> FALSE, from |-> NoHead, local |-> NoHead,
         p |-> 0, to |-> NoHead]

\* A pull request that finalize has just opened, its review queued.
Init ==
    /\ conf \in Confs
    /\ base = 0
    /\ pr = [t \in Tasks |-> [head |-> [p |-> 1, b |-> 0], open |-> TRUE, conflict |-> FALSE,
                              ci |-> IF conf.ci THEN "pending" ELSE ""]]
    /\ wt = [t \in Tasks |-> [p |-> 1, b |-> 0]]
    /\ runs = [t \in Tasks |-> {}]
    /\ status = [t \in Tasks |-> "in_review"]
    /\ st = [t \in Tasks |->
                [head |-> [p |-> 1, b |-> 0], verdict |-> "none", vhead |-> NoHead,
                 lineage |-> NoHead, diff |-> [p |-> 1, b |-> 0], run |-> NoHead,
                 pend |-> "counted", rounds |-> 0, human |-> FALSE, fb |-> FALSE,
                 agent |-> FALSE, mhead |-> FALSE, check |-> NoCheck]]
    /\ line = <<>>
    /\ step = Idle
    /\ made = [t \in Tasks |-> 1]
    /\ approved = [t \in Tasks |-> {}]
    /\ merged = [t \in Tasks |-> 0]
    /\ faults = MaxFaults

----------------------------------------------------------------------------
\* Which heads an approval stands for.

\* Mutant: what the rebase started from is not compared with the reviewed head.
ProvesUnmeasured(r) == r.same

\* The rebase of a measured head left its patch as it was.
Proves(r) == r.from = r.local /\ r.same

\* _head_is_mechanically_derived: what the loop reaches from source is in every
\* set that has source and is closed under the recorded rebases.
Derived(t, source, target) ==
    \A reachable \in SUBSET ({source, target} \cup {r.to : r \in runs[t]}) :
        /\ source \in reachable
        /\ \A r \in runs[t] : Proves(r) /\ r.from \in reachable => r.to \in reachable
        => target \in reachable

\* _effective_approved_head
EffectiveHead(t) ==
    CASE st[t].verdict = "approve" /\ Derived(t, st[t].vhead, st[t].head) -> st[t].head
      [] st[t].verdict = "approve" /\ st[t].lineage # NoHead -> st[t].lineage
      [] OTHER -> st[t].vhead

\* _extend_approved_head_lineage would accept the rebase
Extends(s, r) ==
    /\ Proves(r)
    /\ s.verdict = "approve"
    /\ r.from = IF s.lineage = NoHead THEN s.vhead ELSE s.lineage

\* _automerge_gate, for the pull request as GitHub has it now
Gate(t) ==
    /\ ~st[t].human
    /\ st[t].verdict = "approve"
    /\ conf.current \/ EffectiveHead(t) = pr[t].head
    /\ st[t].rounds >= 1
    /\ ~st[t].fb
    /\ st[t].run = NoHead
    /\ ~st[t].check.on
    /\ pr[t].ci = "success" \/ (pr[t].ci = "" /\ conf.current)
    /\ pr[t].open /\ ~pr[t].conflict

\* _head_in_flight
InFlight(t) ==
    /\ pr[t].open /\ ~pr[t].conflict /\ pr[t].ci # "failure"
    /\ ~st[t].fb /\ st[t].run = NoHead
    /\ st[t].verdict = "approve"
    /\ pr[t].ci = "pending"

----------------------------------------------------------------------------
\* Reviews: each operator gives the outcomes as pairs of state and worktree.

QueuePending(s, kind) == [s EXCEPT !.pend = IF @ = "none" THEN kind ELSE @]

\* dispatch_review: the worktree is put on the observed head.
DispatchReview(s, kind) ==
    [s |-> [s EXCEPT !.run = s.head, !.rounds = IF kind = "counted" THEN @ + 1 ELSE @],
     w |-> s.head]

\* _dispatch_or_defer_reviews: a check run or a full review_parallel defers
DispatchOrDefer(s, w, kind) ==
    {[s |-> QueuePending(s, kind), w |-> w]} \cup
    {DispatchReview(s, kind) : x \in {1} \ (IF s.check.on THEN {1} ELSE {})}

MaybeReview(s, w, kind) ==
    IF s.rounds < MaxRounds THEN DispatchOrDefer(s, w, kind)
    ELSE {[s |-> [s EXCEPT !.human = TRUE], w |-> w]}

\* _rebase_review_or_keep
ReviewOrKeep(s, w, r) ==
    CASE r.same /\ ~conf.current /\ ~Extends(s, r) ->
            LET s1 == [s EXCEPT !.lineage = NoHead]
            IN  IF s.run = NoHead /\ s.pend = "none" THEN DispatchOrDefer(s1, w, "free")
                ELSE {[s |-> s1, w |-> w]}
      [] r.same /\ (conf.current \/ Extends(s, r)) ->
            {[s |-> [s EXCEPT !.lineage = IF conf.current THEN @ ELSE r.to], w |-> w]}
      [] OTHER -> MaybeReview([s EXCEPT !.lineage = NoHead, !.diff = w], w, "counted")

\* What the continuation of a pre-merge rebase does after the review decision
HeadUnlessReviewed(o, mh) ==
    [o EXCEPT !.s.mhead = @ \/ (mh /\ o.s.run = NoHead /\ ~o.s.human)]

----------------------------------------------------------------------------
\* The queue (queue.py) and the poll.

Without(t) == SelectSeq(line, LAMBDA u : u # t)
InLine(t) == \E i \in 1 .. Len(line) : line[i] = t
\* _queue_hold (without keep) and _queue_leave
Leave(t) == line' = Without(t)
Left(s) == [s EXCEPT !.mhead = FALSE]
\* _transition to a status other than in_review drops the head marker only
ChangesRequested(s) == [s EXCEPT !.fb = TRUE, !.mhead = FALSE]

\* _rebase_and_record up to the measurements, before anything moves
Measure(t, mh) ==
    step' = [op |-> "sync", t |-> t, mh |-> mh, from |-> pr[t].head, local |-> wt[t],
             p |-> wt[t].p, to |-> NoHead]

\* _maybe_automerge
MaybeAutomerge(t, s) ==
    IF Gate(t)
    THEN /\ line' = IF InLine(t) THEN line ELSE Append(line, t)
         /\ st' = [st EXCEPT ![t] = s]
    ELSE IF s.mhead THEN /\ line' = line
                         /\ st' = [st EXCEPT ![t] = s]
    ELSE /\ Leave(t)
         /\ st' = [st EXCEPT ![t] = s]

Poll(t) ==
    LET s == [st[t] EXCEPT !.head = pr[t].head]
    IN  /\ step = Idle
        /\ status[t] \in {"in_review", "changes_requested"}
        /\ ~st[t].check.on
        /\ CASE ~pr[t].open ->
                    /\ status' = [status EXCEPT ![t] = "done"]
                    /\ st' = [st EXCEPT ![t] = [Left(s) EXCEPT !.pend = "none", !.human = FALSE, !.fb = FALSE]]
                    /\ Leave(t)
                    /\ step' = step
             [] pr[t].open /\ status[t] = "changes_requested" ->
                    /\ st' = [st EXCEPT ![t] = s]
                    /\ UNCHANGED <<status, line, step>>
             [] pr[t].open /\ status[t] = "in_review" /\ pr[t].conflict ->
                    /\ st' = [st EXCEPT ![t] = s]
                    /\ Measure(t, FALSE)
                    /\ UNCHANGED <<status, line>>
             [] pr[t].open /\ status[t] = "in_review" /\ ~pr[t].conflict /\ pr[t].ci = "failure" ->
                    /\ status' = [status EXCEPT ![t] = "changes_requested"]
                    /\ st' = [st EXCEPT ![t] = ChangesRequested(s)]
                    /\ UNCHANGED <<line, step>>
             [] OTHER ->
                    /\ MaybeAutomerge(t, s)
                    /\ UNCHANGED <<status, step>>
        /\ UNCHANGED <<conf, base, pr, wt, runs, made, approved, merged, faults>>

----------------------------------------------------------------------------
\* One pass of the queue (_run_merge_queue).

CurrentHeads == {t \in Tasks : st[t].mhead /\ status[t] = "in_review"}
HeadPending == \E t \in Tasks : st[t].check.on /\ st[t].check.mh
Candidate(t) == status[t] = "in_review" /\ ~st[t].check.on
First(t) ==
    \E i \in 1 .. Len(line) :
        /\ line[i] = t
        /\ Candidate(t)
        /\ \A j \in 1 .. i - 1 : ~Candidate(line[j])

\* _advance_merge_head with the pull request as it is now
Advance(t) ==
    IF Gate(t)
    THEN /\ step' = [Idle EXCEPT !.op = "merge", !.t = t, !.from = pr[t].head]
         /\ UNCHANGED <<st, line>>
    ELSE /\ step' = Idle
         /\ IF InFlight(t) THEN UNCHANGED <<st, line>>
            ELSE /\ st' = [st EXCEPT ![t] = Left(@)]
                 /\ Leave(t)

\* _current_merge_head clears the marker of every other task
QueueHead(t) ==
    /\ step = Idle
    /\ t \in CurrentHeads
    /\ LET s == [u \in Tasks |-> IF u # t THEN Left(st[u]) ELSE st[u]]
       IN  IF Gate(t) \/ InFlight(t)
           THEN /\ st' = s
                /\ line' = line
                /\ step' = IF Gate(t) THEN [Idle EXCEPT !.op = "merge", !.t = t, !.from = pr[t].head]
                           ELSE Idle
           ELSE /\ st' = [s EXCEPT ![t] = Left(@)]
                /\ Leave(t)
                /\ step' = Idle
    /\ UNCHANGED <<conf, base, pr, wt, runs, status, made, approved, merged, faults>>

\* _reviewed_branch_is_current
ReviewedIsCurrent(t) == wt[t] = pr[t].head /\ pr[t].head = st[t].vhead /\ st[t].vhead.b = base

\* _merge_candidate
Pick(t) ==
    /\ step = Idle
    /\ CurrentHeads = {} /\ ~HeadPending
    /\ First(t)
    /\ \/ /\ ~Gate(t)
          /\ st' = [st EXCEPT ![t] = Left(@)]
          /\ Leave(t)
          /\ step' = step
       \/ /\ Gate(t)
          /\ ~conf.current \/ ReviewedIsCurrent(t)
          /\ st' = [st EXCEPT ![t].mhead = TRUE]
          /\ step' = [Idle EXCEPT !.op = "advance", !.t = t]
          /\ line' = line
       \/ /\ Gate(t)
          /\ conf.current /\ ~ReviewedIsCurrent(t)
          /\ Measure(t, TRUE)
          /\ UNCHANGED <<st, line>>
    /\ UNCHANGED <<conf, base, pr, wt, runs, status, made, approved, merged, faults>>

\* the second look at the pull request, right after the candidate became head
AdvancePicked ==
    /\ step.op = "advance"
    /\ Advance(step.t)
    /\ UNCHANGED <<conf, base, pr, wt, runs, status, made, approved, merged, faults>>

\* Mutant: the merge call does not name the head it expects.
MergeCallAnyHead ==
    /\ step.op = "merge"
    /\ pr[step.t].open
    /\ pr' = [pr EXCEPT ![step.t].open = FALSE]
    /\ merged' = [merged EXCEPT ![step.t] = pr[step.t].head.p]
    /\ base' = IF base < MaxBase THEN base + 1 ELSE base
    /\ step' = Idle
    /\ st' = [st EXCEPT ![step.t] = Left(@)]
    /\ Leave(step.t)
    /\ UNCHANGED <<conf, wt, runs, status, made, approved, faults>>

\* _do_merge: GitHub merges only the head that the gate looked at
MergeCall ==
    LET t == step.t
    IN  /\ step.op = "merge"
        /\ pr[t].head = step.from /\ pr[t].open
        /\ pr' = [pr EXCEPT ![t].open = FALSE]
        /\ merged' = [merged EXCEPT ![t] = pr[t].head.p]
        /\ base' = IF base < MaxBase THEN base + 1 ELSE base
        /\ step' = Idle
        /\ \/ /\ st' = [st EXCEPT ![t] = Left(@)]
              /\ Leave(t)
              /\ faults' = faults
           \/ /\ faults > 0     \* killed before the queue forgets it
              /\ faults' = faults - 1
              /\ UNCHANGED <<st, line>>
        /\ UNCHANGED <<conf, wt, runs, status, made, approved>>

\* the call is refused, or fails: held with keep=True
MergeFails ==
    /\ step.op = "merge"
    /\ \/ pr[step.t].head # step.from /\ faults' = faults
       \/ pr[step.t].head = step.from /\ faults > 0 /\ faults' = faults - 1
    /\ step' = Idle
    /\ UNCHANGED <<conf, base, pr, wt, runs, status, st, line, made, approved, merged>>

----------------------------------------------------------------------------
\* The mechanical rebase (_rebase_and_record, mechanical_rebase).

Later(g, h) == IF g.p >= h.p THEN g.p ELSE h.p

\* sync_and_rebase: what the remote has is folded in, then onto the base.  A
\* commit the base already has is dropped, which makes another patch.
Sync ==
    LET t == step.t
        kept == Later(wt[t], pr[t].head)
    IN  /\ step.op = "sync"
        /\ \/ /\ step' = [step EXCEPT !.op = "push", !.to = [p |-> kept, b |-> base]]
              /\ made' = made
           \/ /\ wt[t].b # base \/ pr[t].head.b # base
              /\ made[t] < MaxPatch[t]
              /\ made' = [made EXCEPT ![t] = @ + 1]
              /\ step' = [step EXCEPT !.op = "push", !.to = [p |-> made[t] + 1, b |-> base]]
        /\ wt' = [wt EXCEPT ![t] = step'.to]
        /\ UNCHANGED <<conf, base, pr, runs, status, st, line, approved, merged, faults>>

\* A textual conflict: _dispatch_rebase_agent
SyncConflict ==
    LET t == step.t
    IN  /\ step.op = "sync"
        /\ wt[t].b # base \/ wt[t].p # pr[t].head.p
        /\ status' = [status EXCEPT ![t] = "changes_requested"]
        /\ st' = [st EXCEPT ![t] = [Left(@) EXCEPT !.agent = TRUE]]
        /\ Leave(t)
        /\ step' = Idle
        /\ UNCHANGED <<conf, base, pr, wt, runs, made, approved, merged, faults>>

\* skip_if_current, after the rebase turned out to be a no-op
AlreadyCurrent ==
    LET t == step.t
    IN  /\ step.op = "push" /\ step.mh
        /\ step.to = pr[t].head /\ step.to = st[t].diff
        /\ st' = [st EXCEPT ![t].mhead = TRUE]
        /\ step' = [Idle EXCEPT !.op = "advance", !.t = t]
        /\ UNCHANGED <<conf, base, pr, wt, runs, status, line, made, approved, merged, faults>>

Moved(q, h) == [q EXCEPT !.head = h, !.conflict = FALSE,
                         !.ci = IF q.head = h \/ ~conf.ci THEN @ ELSE "pending"]
Measured == [from |-> step.from, local |-> step.local, to |-> step.to, same |-> step.p = step.to.p]

\* Mutant: a force push without a lease.
PushUnleased ==
    LET t == step.t
    IN  /\ step.op = "push"
        /\ pr' = [pr EXCEPT ![t] = Moved(@, step.to)]
        /\ runs' = [runs EXCEPT ![t] = @ \cup {Measured}]
        /\ \E o \in ReviewOrKeep(st[t], wt[t], Measured) :
                    /\ st' = [st EXCEPT ![t] = HeadUnlessReviewed(o, step.mh).s]
                    /\ wt' = [wt EXCEPT ![t] = o.w]
        /\ step' = Idle
        /\ UNCHANGED <<conf, base, status, line, made, approved, merged, faults>>

\* The push, with the lease on the head that was measured, and what follows
\* it.  With pre-PR checks a detached check run is started; its continuation
\* is ReapCheck.
PushRebased ==
    LET t == step.t
    IN  /\ step.op = "push"
        /\ ~(step.mh /\ step.to = pr[t].head /\ step.to = st[t].diff)
        /\ pr[t].head = step.from
        /\ pr' = [pr EXCEPT ![t] = Moved(@, step.to)]
        /\ runs' = [runs EXCEPT ![t] = @ \cup {Measured}]
        /\ IF conf.checks
           THEN /\ st' = [st EXCEPT ![t].check = [on |-> TRUE, run |-> Measured, mh |-> step.mh]]
                /\ wt' = wt
           ELSE \E o \in ReviewOrKeep(st[t], wt[t], Measured) :
                    /\ st' = [st EXCEPT ![t] = HeadUnlessReviewed(o, step.mh).s]
                    /\ wt' = [wt EXCEPT ![t] = o.w]
        /\ step' = Idle
        /\ UNCHANGED <<conf, base, status, line, made, approved, merged, faults>>

\* The push is rejected by the lease or fails: the worktree stays rebased.
PushFails ==
    /\ step.op = "push"
    /\ ~(step.mh /\ step.to = pr[step.t].head /\ step.to = st[step.t].diff)
    /\ \/ pr[step.t].head # step.from /\ faults' = faults
       \/ pr[step.t].head = step.from /\ faults > 0 /\ faults' = faults - 1
    /\ step' = Idle
    /\ UNCHANGED <<conf, base, pr, wt, runs, status, st, line, made, approved, merged>>

\* Killed after the push, with or without the run record.
KilledAfterPush ==
    LET t == step.t
    IN  /\ step.op = "push" /\ faults > 0
        /\ pr[t].head = step.from
        /\ pr' = [pr EXCEPT ![t] = Moved(@, step.to)]
        /\ \/ runs' = [runs EXCEPT ![t] = @ \cup {Measured}]
           \/ runs' = runs
        /\ faults' = faults - 1
        /\ step' = Idle
        /\ UNCHANGED <<conf, base, wt, status, st, line, made, approved, merged>>

\* _after_merge_rebase_check, called while the check run is still recorded
ReapCheck(t, green) ==
    LET k == st[t].check
        clear(s) == [s EXCEPT !.check = NoCheck]
    IN  /\ step = Idle
        /\ k.on
        /\ IF green
           THEN /\ \E o \in ReviewOrKeep(st[t], wt[t], k.run) :
                      /\ st' = [st EXCEPT ![t] = clear(HeadUnlessReviewed(o, k.mh).s)]
                      /\ wt' = [wt EXCEPT ![t] = o.w]
                /\ status' = status
           ELSE /\ st' = [st EXCEPT ![t] = clear(ChangesRequested(@))]
                /\ status' = [status EXCEPT ![t] = "changes_requested"]
                /\ wt' = wt
        /\ UNCHANGED <<conf, base, pr, runs, line, step, made, approved, merged, faults>>

----------------------------------------------------------------------------
\* Reviews and revisions.

\* _audit_review_continuations, then _drain_pending_reviews, for one task
Audited(t) ==
    LET s == st[t]
        current == s.verdict = "approve" /\ EffectiveHead(t) = s.head
        s1 == IF current /\ s.pend = "counted" THEN [s EXCEPT !.pend = "none"] ELSE s
        known == s.verdict # "none" /\ (s.vhead = s.head \/ current)
    IN  IF /\ status[t] = "in_review"
           /\ s1.run = NoHead /\ s1.pend = "none" /\ ~s1.human
           /\ ~known /\ s1.rounds < MaxRounds
        THEN [s1 EXCEPT !.pend = "counted"]
        ELSE s1

Drain(t) ==
    LET s == Audited(t)
    IN  /\ step = Idle
        /\ status[t] \in {"in_review", "changes_requested"}
        /\ IF s.pend # "none" /\ ~s.human /\ ~s.check.on
           THEN \E o \in DispatchOrDefer([s EXCEPT !.pend = "none"], wt[t], s.pend) :
                    /\ st' = [st EXCEPT ![t] = o.s]
                    /\ wt' = [wt EXCEPT ![t] = o.w]
           ELSE /\ st' = [st EXCEPT ![t] = s]
                /\ wt' = wt
        /\ UNCHANGED <<conf, base, pr, runs, status, line, step, made, approved, merged, faults>>

\* reap_review: a verdict counts for a head that is, or was mechanically
\* derived from, the one it inspected
EvidenceCurrent(t) ==
    /\ Derived(t, st[t].run, st[t].head)
    /\ wt[t] \in {st[t].run, st[t].head}

ReviewEnds(t, verdict) ==
    /\ step = Idle
    /\ status[t] \in {"in_review", "changes_requested"}
    /\ ~st[t].check.on
    /\ st[t].run # NoHead
    /\ IF ~EvidenceCurrent(t)
       THEN /\ st' = [st EXCEPT ![t].run = NoHead, ![t].pend = "none"]
            /\ UNCHANGED <<status, approved>>
       ELSE LET s == [st[t] EXCEPT !.run = NoHead, !.verdict = verdict, !.vhead = st[t].run,
                                   !.lineage = NoHead, !.diff = st[t].run]
            IN  IF verdict = "approve"
                THEN /\ st' = [st EXCEPT ![t] = s]
                     /\ approved' = [approved EXCEPT ![t] = @ \cup {st[t].run.p}]
                     /\ status' = status
                ELSE /\ st' = [st EXCEPT ![t] = ChangesRequested(s)]
                     /\ status' = [status EXCEPT ![t] = "changes_requested"]
                     /\ approved' = approved
    /\ UNCHANGED <<conf, base, pr, wt, runs, line, step, made, merged, faults>>

\* A revise round, or the rebase agent, from dispatch to finalize.  It pushes
\* under a lease on the head it started from, so it ends only if nobody else
\* pushed meanwhile (TaskLoop has the rest).
Revise(t) ==
    LET n == [p |-> made[t] + 1, b |-> base]
        s == [st[t] EXCEPT !.head = n, !.fb = FALSE, !.agent = FALSE, !.diff = n]
    IN  /\ step = Idle
        /\ status[t] = "changes_requested" /\ ~st[t].check.on /\ ~st[t].human
        /\ pr[t].open
        /\ made[t] < MaxPatch[t]
        /\ made' = [made EXCEPT ![t] = @ + 1]
        /\ pr' = [pr EXCEPT ![t] = Moved(@, n)]
        /\ status' = [status EXCEPT ![t] = "in_review"]
        /\ \E o \in MaybeReview(s, n, IF st[t].agent THEN "free" ELSE "counted") :
              /\ st' = [st EXCEPT ![t] = o.s]
              /\ wt' = [wt EXCEPT ![t] = o.w]
        /\ UNCHANGED <<conf, base, runs, line, step, approved, merged, faults>>

\* review_again: the person grants one round and the review starts at once
ReviewAgain(t) ==
    /\ step = Idle
    /\ st[t].human /\ status[t] # "done" /\ ~st[t].check.on
    /\ LET s == [st[t] EXCEPT !.human = FALSE, !.rounds = IF @ >= MaxRounds THEN MaxRounds - 1 ELSE @]
           o == DispatchReview(s, "counted")
       IN  /\ st' = [st EXCEPT ![t] = o.s]
           /\ wt' = [wt EXCEPT ![t] = o.w]
    /\ UNCHANGED <<conf, base, pr, runs, status, line, step, made, approved, merged, faults>>

----------------------------------------------------------------------------
\* Everybody else.

AuthorPushes(t) ==
    /\ pr[t].open /\ made[t] < MaxPatch[t]
    /\ made' = [made EXCEPT ![t] = @ + 1]
    /\ pr' = [pr EXCEPT ![t] = Moved(@, [p |-> made[t] + 1, b |-> @.head.b])]
    /\ UNCHANGED <<conf, base, wt, runs, ctl, approved, merged, faults>>

BaseMoves ==
    /\ base < MaxBase
    /\ base' = base + 1
    /\ UNCHANGED <<conf, pr, wt, runs, ctl, made, approved, merged, faults>>

Conflicts(t) ==
    /\ pr[t].open /\ ~pr[t].conflict /\ pr[t].head.b < base
    /\ pr' = [pr EXCEPT ![t].conflict = TRUE]
    /\ UNCHANGED <<conf, base, wt, runs, ctl, made, approved, merged, faults>>

CiReports(t, result) ==
    /\ pr[t].open /\ pr[t].ci = "pending"
    /\ pr' = [pr EXCEPT ![t].ci = result]
    /\ UNCHANGED <<conf, base, wt, runs, ctl, made, approved, merged, faults>>

Controller ==
    \/ \E t \in Tasks : Poll(t) \/ QueueHead(t) \/ Pick(t) \/ Drain(t) \/ Revise(t) \/ ReviewAgain(t)
    \/ \E t \in Tasks, green \in BOOLEAN : ReapCheck(t, green)
    \/ \E t \in Tasks, v \in {"approve", "changes"} : ReviewEnds(t, v)
    \/ AdvancePicked \/ MergeCall \/ MergeFails
    \/ Sync \/ SyncConflict \/ AlreadyCurrent \/ PushRebased \/ PushFails \/ KilledAfterPush

Next ==
    \/ Controller
    \/ \E t \in Tasks : AuthorPushes(t) \/ Conflicts(t)
    \/ \E t \in Tasks, r \in {"success", "failure"} : CiReports(t, r)
    \/ BaseMoves

Spec == Init /\ [][Next]_vars

----------------------------------------------------------------------------

Rollups == {"", "pending", "success", "failure"}
PullRequests(t) == [head : Heads(t), open : BOOLEAN, conflict : BOOLEAN, ci : Rollups]
CheckRuns(t) == [on : BOOLEAN, run : Rebases(t) \cup {NoRebase}, mh : BOOLEAN]
Entries(t) ==
    [head : Heads(t), verdict : {"none", "approve", "changes"}, vhead : Heads(t) \cup {NoHead},
     lineage : Heads(t) \cup {NoHead}, diff : Heads(t), run : Heads(t) \cup {NoHead},
     pend : {"none", "counted", "free"}, rounds : Nat, human : BOOLEAN, fb : BOOLEAN,
     agent : BOOLEAN, mhead : BOOLEAN, check : CheckRuns(t)]
Rebasing(t) == [op : {"sync", "push"}, t : {t}, mh : BOOLEAN, from : Heads(t), local : Heads(t),
                p : Nat, to : Heads(t) \cup {NoHead}]
Heading(t) == [op : {"advance", "merge"}, t : {t}, mh : {FALSE}, from : Heads(t) \cup {NoHead},
               local : {NoHead}, p : {0}, to : {NoHead}]

\* What the tables and a handler's locals can hold.
TypeOK ==
    /\ conf \in Confs /\ base \in 0 .. MaxBase
    /\ DOMAIN pr = Tasks /\ \A t \in Tasks : pr[t] \in PullRequests(t)
    /\ DOMAIN wt = Tasks /\ \A t \in Tasks : wt[t] \in Heads(t)
    /\ DOMAIN runs = Tasks /\ \A t \in Tasks : runs[t] \subseteq Rebases(t)
    /\ DOMAIN st = Tasks /\ \A t \in Tasks : st[t] \in Entries(t)
    /\ status \in [Tasks -> {"in_review", "changes_requested", "done"}]
    /\ line \in Seq(Tasks)
    /\ step = Idle \/ \E t \in Tasks : step \in Rebasing(t) \cup Heading(t)
    /\ DOMAIN made = Tasks /\ \A t \in Tasks : made[t] \in 1 .. MaxPatch[t]
    /\ approved \in [Tasks -> SUBSET Nat] /\ merged \in [Tasks -> Nat]
    /\ faults \in 0 .. MaxFaults

\* Review rounds stay within review.max_rounds, except for one that was queued
\* before the last one was charged (a queued round is charged when it starts).
ReviewBudget ==
    \A t \in Tasks : st[t].rounds <= MaxRounds + (IF st[t].pend = "counted" THEN 0 ELSE 1)

\* A head that the approval is said to stand for has a patch that a reviewer
\* approved, whatever rebases, stale worktrees, rejected pushes and kills lie
\* between the review and that head (_effective_approved_head).
ApprovalFollowsPatch ==
    \A t \in Tasks :
        st[t].verdict = "approve" => EffectiveHead(t).p \in approved[t]

\* Where a product merges approved heads as they are, what is merged is a
\* patch a reviewer approved, although authors push at any time.
ExactHeadMerged ==
    \A t \in Tasks : merged[t] # 0 /\ ~conf.current => merged[t] \in approved[t]

\* A patch that a rebase changed is reviewed again before it is merged
\* (rebase.py, rule 2), also when the pre-merge rebase of the queue changed it.
ChangedPatchReviewed ==
    \A t \in Tasks : \A r \in runs[t] :
        ~r.same /\ merged[t] = r.to.p => merged[t] \in approved[t]

\* One head at a time: no second task is rebased for the queue or waits as
\* head while another one does (_merge_head_pending).
OneHead ==
    Cardinality(CurrentHeads \cup {t \in Tasks : st[t].check.on /\ st[t].check.mh}
                \cup {t \in Tasks : t = step.t /\ step.mh}) <= 1

\* What somebody pushed stays on the branch: no rebase takes a commit off the
\* pull request (sync_remote_branch, the lease of push).
PushesKept == [][\A t \in Tasks : pr'[t].head.p >= pr[t].head.p]_vars
=============================================================================
