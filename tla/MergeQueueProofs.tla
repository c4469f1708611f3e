-------------------------- MODULE MergeQueueProofs --------------------------
(***************************************************************************)
(* What an approval stands for and what is merged, for any tasks, any      *)
(* configurations, any number of patches, versions of the base and faults. *)
(***************************************************************************)
EXTENDS MergeQueue, TLAPS

-----------------------------------------------------------------------------
(* The inductive invariant.                                                *)

\* A rebase that counts as mechanical starts and ends with the same patch.
PatchKept(r) == Proves(r) => r.to.p = r.from.p

\* The approval, and what it was extended to, is of patches a reviewer approved.
EntryOK(t, s, m, ok) ==
    /\ s \in Entries(t) /\ s.head.p <= m
    /\ PatchKept(s.check.run)
    /\ s.verdict = "approve" => s.vhead.p \in ok /\ (s.lineage # NoHead => s.lineage.p \in ok)
    /\ s.rounds <= MaxRounds + (IF s.pend = "counted" THEN 0 ELSE 1)

\* Nothing is beyond the patches made, and every recorded rebase is honest.
RowOK(t) ==
    /\ made[t] \in 1 .. MaxPatch[t] /\ approved[t] \subseteq Nat /\ merged[t] \in Nat
    /\ pr[t] \in PullRequests(t) /\ pr[t].head.p <= made[t]
    /\ wt[t] \in Heads(t) /\ wt[t].p <= made[t]
    /\ runs[t] \subseteq Rebases(t) /\ \A r \in runs[t] : PatchKept(r)
    /\ EntryOK(t, st[t], made[t], approved[t])
    /\ merged[t] # 0 /\ ~conf.current => merged[t] \in approved[t]
Rows == \A t \in Tasks : RowOK(t)

\* A rebase measured the worktree it started from and leads past the head it
\* started from; a head that is to be merged as it is was approved.
HandlerOK(t) ==
    \/ /\ step \in Rebasing(t)
       /\ step.p = step.local.p /\ step.from.p <= pr[t].head.p
       /\ step.op = "push" => step.to \in Heads(t) /\ step.from.p <= step.to.p /\ step.to.p <= made[t]
    \/ /\ step \in Heading(t)
       /\ step.op = "merge" /\ ~conf.current => step.from.p \in approved[t]
StepOK == step = Idle \/ \E t \in Tasks : HandlerOK(t)

Shapes ==
    /\ DOMAIN pr = Tasks /\ DOMAIN wt = Tasks /\ DOMAIN runs = Tasks /\ DOMAIN st = Tasks
    /\ DOMAIN made = Tasks /\ DOMAIN approved = Tasks /\ DOMAIN merged = Tasks
Globals ==
    /\ conf \in Confs /\ base \in 0 .. MaxBase /\ faults \in 0 .. MaxFaults
    /\ status \in [Tasks -> {"in_review", "changes_requested", "done"}]
IInv == Globals /\ Shapes /\ Rows /\ StepOK

\* What no step takes back.
Grows ==
    \A t \in Tasks :
        /\ pr[t].head.p <= pr'[t].head.p /\ made[t] <= made'[t]
        /\ approved[t] \subseteq approved'[t]

\* A step of task t leaves the others alone.
Elsewhere(t) ==
    \A u \in Tasks \ {t} :
        /\ pr'[u] = pr[u] /\ wt'[u] = wt[u] /\ runs'[u] = runs[u] /\ st'[u] = st[u]
        /\ made'[u] = made[u] /\ approved'[u] = approved[u] /\ merged'[u] = merged[u]

-----------------------------------------------------------------------------
(* Which heads an approval stands for.                                     *)

LEMMA HeadsAre ==
  ASSUME NEW t \in Tasks
  PROVE  /\ \A h \in Heads(t) : h.p \in Nat /\ h.b \in Nat /\ h # NoHead
         /\ \A p \in 1 .. MaxPatch[t], b \in 0 .. MaxBase : [p |-> p, b |-> b] \in Heads(t)
         /\ NoHead.p = 0 /\ MaxPatch[t] \in Nat
BY MergeQueueAssumption DEF Heads, NoHead

LEMMA PrNumbers ==
  ASSUME NEW t \in Tasks, NEW q \in PullRequests(t), NEW m \in 1 .. MaxPatch[t]
  PROVE  q.head \in Heads(t) /\ q.head.p \in Nat /\ m \in Nat
<1>1. q.head \in Heads(t)
  BY DEF PullRequests
<1> QED
  BY <1>1, HeadsAre

\* A chain of rebases that each kept the patch keeps the patch.
LEMMA DerivedPatch ==
  ASSUME NEW t \in Tasks, \A r \in runs[t] : PatchKept(r), NEW source, NEW target,
         Derived(t, source, target)
  PROVE  target.p = source.p
<1> DEFINE all == {source, target} \cup {r.to : r \in runs[t]}
<1> DEFINE same == {h \in all : h.p = source.p}
<1>1. source \in same
  OBVIOUS
<1>2. ASSUME NEW r \in runs[t], Proves(r), r.from \in same PROVE r.to \in same
  <2>1. r.to.p = r.from.p /\ r.from.p = source.p
    BY <1>2 DEF PatchKept
  <2>2. r.to \in all
    OBVIOUS
  <2> QED
    BY <2>1, <2>2
<1>3. same \in SUBSET all
  OBVIOUS
<1>4. target \in same
  <2> HIDE DEF same
  <2> QED
    BY <1>1, <1>2, <1>3 DEF Derived
<1> QED
  BY <1>4

LEMMA ApprovedHead ==
  ASSUME Rows, NEW t \in Tasks, st[t].verdict = "approve"
  PROVE  EffectiveHead(t).p \in approved[t]
<1>1. st[t].vhead.p \in approved[t] /\ (st[t].lineage # NoHead => st[t].lineage.p \in approved[t])
  BY DEF Rows, RowOK, EntryOK
<1>2. Derived(t, st[t].vhead, st[t].head) => st[t].head.p = st[t].vhead.p
  BY DerivedPatch DEF Rows, RowOK
<1> QED
  BY <1>1, <1>2 DEF EffectiveHead

-----------------------------------------------------------------------------
(* The review operators keep an entry in order.                            *)

Outcomes(t) == [s : Entries(t), w : Heads(t)]
OutcomeOK(t, o, m, ok) == o \in Outcomes(t) /\ o.w.p <= m /\ EntryOK(t, o.s, m, ok)

\* A counted round may be started, or queued.
Room(s, kind) == kind = "counted" => s.rounds + (IF s.pend = "none" THEN 0 ELSE 1) <= MaxRounds

LEMMA QueueKeeps ==
  ASSUME NEW t \in Tasks, NEW s, NEW m \in Nat, NEW ok, EntryOK(t, s, m, ok),
         NEW kind \in {"counted", "free"}, Room(s, kind)
  PROVE  EntryOK(t, QueuePending(s, kind), m, ok)
BY MergeQueueAssumption DEF EntryOK, QueuePending, Entries, Room

LEMMA DispatchKeeps ==
  ASSUME NEW t \in Tasks, NEW s, NEW m \in Nat, NEW ok, EntryOK(t, s, m, ok),
         NEW kind \in {"counted", "free"}, Room(s, kind)
  PROVE  OutcomeOK(t, DispatchReview(s, kind), m, ok)
<1> DEFINE n == IF kind = "counted" THEN s.rounds + 1 ELSE s.rounds
<1>1. PICK k \in Nat : k = n /\ k <= MaxRounds + (IF s.pend = "counted" THEN 0 ELSE 1)
  BY MergeQueueAssumption DEF EntryOK, Entries, Room
<1> DEFINE z == [s EXCEPT !.run = s.head, !.rounds = k]
<1>2. DispatchReview(s, kind) = [s |-> z, w |-> s.head]
  BY <1>1 DEF DispatchReview
<1>3. z \in Entries(t) /\ z.head = s.head /\ z.check = s.check /\ z.verdict = s.verdict
      /\ z.vhead = s.vhead /\ z.lineage = s.lineage /\ z.rounds = k /\ z.pend = s.pend
  BY DEF EntryOK, Entries
<1> HIDE DEF z
<1> QED
  BY <1>1, <1>2, <1>3 DEF EntryOK, OutcomeOK, Outcomes, Entries

LEMMA DispatchOrDeferKeeps ==
  ASSUME NEW t \in Tasks, NEW s, NEW m \in Nat, NEW ok, EntryOK(t, s, m, ok),
         NEW kind \in {"counted", "free"}, Room(s, kind),
         NEW w \in Heads(t), w.p <= m, NEW o \in DispatchOrDefer(s, w, kind)
  PROVE  OutcomeOK(t, o, m, ok)
<1>1. CASE o = [s |-> QueuePending(s, kind), w |-> w]
  BY <1>1, QueueKeeps DEF OutcomeOK, Outcomes, EntryOK
<1>2. CASE o = DispatchReview(s, kind)
  BY <1>2, DispatchKeeps
<1> QED
  BY <1>1, <1>2 DEF DispatchOrDefer

LEMMA MaybeKeeps ==
  ASSUME NEW t \in Tasks, NEW s, NEW m \in Nat, NEW ok, EntryOK(t, s, m, ok),
         NEW kind \in {"counted", "free"},
         NEW w \in Heads(t), w.p <= m, NEW o \in MaybeReview(s, w, kind)
  PROVE  OutcomeOK(t, o, m, ok)
<1>1. CASE s.rounds < MaxRounds
  <2>1. Room(s, kind)
    BY <1>1, MergeQueueAssumption DEF Room, EntryOK, Entries
  <2> QED
    BY <1>1, <2>1, DispatchOrDeferKeeps DEF MaybeReview
<1>2. CASE ~(s.rounds < MaxRounds)
  <2> DEFINE z == [s EXCEPT !.human = TRUE]
  <2>1. EntryOK(t, z, m, ok)
    BY DEF EntryOK, Entries
  <2>2. o = [s |-> z, w |-> w]
    BY <1>2 DEF MaybeReview
  <2> HIDE DEF z
  <2> QED
    BY <2>1, <2>2 DEF OutcomeOK, Outcomes, EntryOK
<1> QED
  BY <1>1, <1>2

LEMMA ReviewOrKeepKeeps ==
  ASSUME NEW t \in Tasks, NEW s, NEW m \in Nat, NEW ok, EntryOK(t, s, m, ok),
         NEW r \in Rebases(t) \cup {NoRebase}, PatchKept(r),
         NEW w \in Heads(t), w.p <= m, NEW o \in ReviewOrKeep(s, w, r)
  PROVE  OutcomeOK(t, o, m, ok)
<1>1. CASE r.same /\ ~conf.current /\ ~Extends(s, r)
  <2> DEFINE s1 == [s EXCEPT !.lineage = NoHead]
  <2>1. EntryOK(t, s1, m, ok) /\ Room(s1, "free")
    BY DEF EntryOK, Entries, Room
  <2>2. o \in DispatchOrDefer(s1, w, "free") \/ o = [s |-> s1, w |-> w]
    BY <1>1 DEF ReviewOrKeep
  <2> HIDE DEF s1
  <2>3. CASE o = [s |-> s1, w |-> w]
    BY <2>1, <2>3 DEF OutcomeOK, Outcomes, EntryOK
  <2> QED
    BY <2>1, <2>2, <2>3, DispatchOrDeferKeeps
<1>2. CASE r.same /\ (conf.current \/ Extends(s, r))
  <2> DEFINE h == IF conf.current THEN s.lineage ELSE r.to
  <2> DEFINE s1 == [s EXCEPT !.lineage = h]
  <2>1. r.to \in Heads(t) \cup {NoHead}
    BY DEF Rebases, NoRebase
  <2>2. h \in Heads(t) \cup {NoHead}
    BY <2>1 DEF EntryOK, Entries
  <2>3. ~conf.current /\ s.verdict = "approve" => r.to.p \in ok
    <3>1. SUFFICES ASSUME ~conf.current, s.verdict = "approve" PROVE r.to.p \in ok
      OBVIOUS
    <3>2. Extends(s, r)
      BY <1>2, <3>1
    <3> QED
      BY <3>1, <3>2 DEF Extends, PatchKept, EntryOK
  <2>4. h # NoHead /\ s.verdict = "approve" => h.p \in ok
    BY <2>3 DEF EntryOK
  <2> HIDE DEF h
  <2>5. EntryOK(t, s1, m, ok)
    BY <2>2, <2>4 DEF EntryOK, Entries
  <2>6. o = [s |-> s1, w |-> w]
    BY <1>2 DEF ReviewOrKeep, h
  <2> HIDE DEF s1
  <2> QED
    BY <2>5, <2>6 DEF OutcomeOK, Outcomes, EntryOK
<1>3. CASE ~r.same
  <2> DEFINE s1 == [s EXCEPT !.lineage = NoHead, !.diff = w]
  <2>1. EntryOK(t, s1, m, ok)
    BY DEF EntryOK, Entries
  <2>2. o \in MaybeReview(s1, w, "counted")
    BY <1>3 DEF ReviewOrKeep
  <2> HIDE DEF s1
  <2> QED
    BY <2>1, <2>2, MaybeKeeps
<1> QED
  BY <1>1, <1>2, <1>3

LEMMA HeadUnlessReviewedKeeps ==
  ASSUME NEW t \in Tasks, NEW o, NEW m, NEW ok, OutcomeOK(t, o, m, ok), NEW mh \in BOOLEAN
  PROVE  EntryOK(t, HeadUnlessReviewed(o, mh).s, m, ok)
<1> DEFINE x == o.s.mhead \/ (mh /\ o.s.run = NoHead /\ ~o.s.human)
<1>1. x \in BOOLEAN
  OBVIOUS
<1>2. HeadUnlessReviewed(o, mh).s = [o.s EXCEPT !.mhead = x]
  BY DEF HeadUnlessReviewed, OutcomeOK, Outcomes, Entries
<1> HIDE DEF x
<1> QED
  BY <1>1, <1>2 DEF OutcomeOK, EntryOK, Entries

\* Marks and queue places do not touch what an approval stands for.
LEMMA MarksKeep ==
  ASSUME NEW t \in Tasks, NEW s, NEW m, NEW ok, EntryOK(t, s, m, ok)
  PROVE  /\ EntryOK(t, Left(s), m, ok) /\ EntryOK(t, ChangesRequested(s), m, ok)
         /\ EntryOK(t, [s EXCEPT !.mhead = TRUE], m, ok)
         /\ EntryOK(t, [s EXCEPT !.check = NoCheck], m, ok)
<1>1. NoCheck \in CheckRuns(t) /\ PatchKept(NoCheck.run)
  BY DEF NoCheck, CheckRuns, NoRebase, PatchKept, Proves, NoHead
<1> QED
  BY <1>1 DEF EntryOK, Entries, Left, ChangesRequested

-----------------------------------------------------------------------------
(* Steps of one task, and what they leave of a handler under way.          *)

LEMMA Frame ==
  ASSUME Rows, NEW t \in Tasks, Elsewhere(t), RowOK(t)', conf' = conf
  PROVE  Rows'
<1>1. ASSUME NEW u \in Tasks \ {t} PROVE RowOK(u)'
  BY <1>1 DEF Rows, RowOK, Elsewhere
<1> QED
  BY <1>1 DEF Rows

LEMMA GrowsElsewhere ==
  ASSUME IInv, NEW t \in Tasks, Elsewhere(t), pr[t].head.p <= pr'[t].head.p, made[t] <= made'[t],
         approved[t] \subseteq approved'[t]
  PROVE  Grows
<1>1. ASSUME NEW u \in Tasks PROVE pr[u].head.p \in Nat /\ made[u] \in Nat
  BY PrNumbers DEF IInv, Rows, RowOK
<1> QED
  BY <1>1 DEF Grows, Elsewhere

LEMMA HandlerStays ==
  ASSUME IInv, Rows', Grows, step' = step, conf' = conf
  PROVE  StepOK'
<1>1. CASE step = Idle
  BY <1>1 DEF StepOK
<1>2. ASSUME NEW t \in Tasks, HandlerOK(t) PROVE HandlerOK(t)'
  <2>1. pr[t].head.p \in Nat /\ made[t] \in Nat /\ pr'[t].head.p \in Nat /\ made'[t] \in Nat
    BY PrNumbers DEF IInv, Rows, RowOK
  <2>2. pr[t].head.p <= pr'[t].head.p /\ made[t] <= made'[t] /\ approved[t] \subseteq approved'[t]
    BY DEF Grows
  <2>3. CASE step \in Rebasing(t) /\ step.p = step.local.p /\ step.from.p <= pr[t].head.p
             /\ (step.op = "push" => step.to \in Heads(t) /\ step.from.p <= step.to.p /\ step.to.p <= made[t])
    <3>1. step.from.p \in Nat /\ (step.op = "push" => step.to.p \in Nat)
      BY <2>3, HeadsAre DEF Rebasing
    <3>2. step.from.p <= pr'[t].head.p /\ (step.op = "push" => step.to.p <= made'[t])
      BY <2>1, <2>2, <2>3, <3>1
    <3> QED
      BY <2>3, <3>2 DEF HandlerOK
  <2>4. CASE step \in Heading(t) /\ (step.op = "merge" /\ ~conf.current => step.from.p \in approved[t])
    BY <2>2, <2>4 DEF HandlerOK
  <2> QED
    BY <1>2, <2>3, <2>4 DEF HandlerOK
<1> QED
  BY <1>1, <1>2 DEF IInv, StepOK

\* A step that writes one task's entry and worktree, and no other table.
Local(t) ==
    /\ UNCHANGED <<conf, base, pr, runs, made, approved, merged, faults>>
    /\ DOMAIN st' = Tasks /\ DOMAIN wt' = Tasks
    /\ \A u \in Tasks \ {t} : st'[u] = st[u] /\ wt'[u] = wt[u]
    /\ status' \in [Tasks -> {"in_review", "changes_requested", "done"}]

LEMMA LocalStep ==
  ASSUME IInv, NEW t \in Tasks, Local(t),
         EntryOK(t, st'[t], made[t], approved[t]), wt'[t] \in Heads(t), wt'[t].p <= made[t]
  PROVE  Globals' /\ Shapes' /\ Rows' /\ Grows /\ (step' \in {step, Idle} => StepOK')
<1>1. Globals' /\ Shapes'
  BY DEF IInv, Globals, Shapes, Local
<1>2. Elsewhere(t)
  BY DEF Elsewhere, Local
<1>3. RowOK(t)'
  BY DEF IInv, Rows, RowOK, Local
<1>4. Rows'
  BY <1>2, <1>3, Frame DEF IInv, Local
<1>5. pr[t].head.p \in Nat /\ made[t] \in Nat
  BY PrNumbers DEF IInv, Rows, RowOK
<1>6. Grows
  BY <1>2, <1>5, GrowsElsewhere DEF Local
<1> QED
  BY <1>1, <1>4, <1>6, HandlerStays DEF StepOK, Local

LEMMA RowFacts ==
  ASSUME IInv, NEW t \in Tasks
  PROVE  /\ EntryOK(t, st[t], made[t], approved[t]) /\ st[t] \in Entries(t) /\ st[t].head.p <= made[t]
         /\ wt[t] \in Heads(t) /\ wt[t].p <= made[t] /\ wt[t].p \in Nat
         /\ pr[t].head \in Heads(t) /\ pr[t].head.p <= made[t] /\ pr[t].head.p \in Nat
         /\ made[t] \in Nat /\ made[t] \in 1 .. MaxPatch[t] /\ approved[t] \subseteq Nat
         /\ st[t].check.on \in BOOLEAN /\ st[t].check.mh \in BOOLEAN
         /\ st[t].check.run \in Rebases(t) \cup {NoRebase} /\ PatchKept(st[t].check.run)
<1>1. RowOK(t)
  BY DEF IInv, Rows
<1>2. pr[t].head \in Heads(t) /\ pr[t].head.p \in Nat /\ made[t] \in Nat
  BY <1>1, PrNumbers DEF RowOK
<1>3. wt[t] \in Heads(t) /\ wt[t].p \in Nat
  BY <1>1, HeadsAre DEF RowOK
<1>4. st[t] \in Entries(t) /\ st[t].head.p <= made[t] /\ PatchKept(st[t].check.run)
  BY <1>1 DEF RowOK, EntryOK
<1>5. st[t].check \in CheckRuns(t)
  BY <1>4 DEF Entries
<1>6. /\ st[t].check.on \in BOOLEAN /\ st[t].check.mh \in BOOLEAN
      /\ st[t].check.run \in Rebases(t) \cup {NoRebase}
  BY <1>5 DEF CheckRuns
<1> QED
  BY <1>1, <1>2, <1>3, <1>4, <1>6 DEF RowOK

-----------------------------------------------------------------------------
(* The poll and the queue.                                                 *)

\* A handler that starts to merge or to look again names an approved head.
LEMMA GateHead ==
  ASSUME IInv, NEW t \in Tasks, Gate(t)
  PROVE  ~conf.current => pr[t].head.p \in approved[t]
<1>1. st[t].verdict = "approve" /\ (conf.current \/ EffectiveHead(t) = pr[t].head)
  BY DEF Gate
<1> QED
  BY <1>1, ApprovedHead DEF IInv

LEMMA MeasureStarts ==
  ASSUME IInv, NEW t \in Tasks, NEW mh \in BOOLEAN, Measure(t, mh), UNCHANGED <<pr, made, conf>>
  PROVE  StepOK'
<1>1. step' \in Rebasing(t) /\ step'.op = "sync" /\ step'.p = step'.local.p /\ step'.from = pr[t].head
  BY RowFacts DEF Measure, Rebasing
<1> QED
  BY <1>1, RowFacts DEF StepOK, HandlerOK

LEMMA MergeStarts ==
  ASSUME IInv, NEW t \in Tasks, Gate(t), UNCHANGED <<pr, made, conf, approved>>,
         step' = [Idle EXCEPT !.op = "merge", !.t = t, !.from = pr[t].head]
  PROVE  StepOK'
<1>1. step' \in Heading(t) /\ step'.from = pr[t].head
  BY RowFacts DEF Heading, Idle
<1> QED
  BY <1>1, GateHead DEF StepOK, HandlerOK

LEMMA AdvanceStarts ==
  ASSUME NEW t \in Tasks, step' = [Idle EXCEPT !.op = "advance", !.t = t]
  PROVE  StepOK'
<1>1. step' \in Heading(t) /\ step'.op = "advance"
  BY DEF Heading, Idle
<1> QED
  BY <1>1 DEF StepOK, HandlerOK

LEMMA PollStep ==
  ASSUME IInv, NEW t \in Tasks, Poll(t)
  PROVE  IInv' /\ Grows
<1> DEFINE s == [st[t] EXCEPT !.head = pr[t].head]
<1> DEFINE closed == [Left(s) EXCEPT !.pend = "none", !.human = FALSE, !.fb = FALSE]
<1>1. EntryOK(t, s, made[t], approved[t])
  BY RowFacts DEF EntryOK, Entries
<1>2. EntryOK(t, Left(s), made[t], approved[t]) /\ EntryOK(t, ChangesRequested(s), made[t], approved[t])
  BY <1>1, MarksKeep
<1>3. EntryOK(t, closed, made[t], approved[t])
  <2> DEFINE l == Left(s)
  <2>1. EntryOK(t, l, made[t], approved[t])
    BY <1>2
  <2> HIDE DEF l
  <2> DEFINE z == [l EXCEPT !.pend = "none", !.human = FALSE, !.fb = FALSE]
  <2>2. z \in Entries(t) /\ z.head = l.head /\ z.check = l.check /\ z.verdict = l.verdict
        /\ z.vhead = l.vhead /\ z.lineage = l.lineage /\ z.rounds = l.rounds /\ z.pend = "none"
    BY <2>1 DEF EntryOK, Entries
  <2>3. l.rounds <= MaxRounds + 1
    BY <2>1, MergeQueueAssumption DEF EntryOK, Entries
  <2> HIDE DEF z
  <2>4. EntryOK(t, z, made[t], approved[t])
    BY <2>1, <2>2, <2>3 DEF EntryOK
  <2> QED
    BY <2>4 DEF l, z
<1>4. \E z \in {s, closed, ChangesRequested(s)} : st' = [st EXCEPT ![t] = z]
  BY DEF Poll, MaybeAutomerge
<1>5. status' \in [Tasks -> {"in_review", "changes_requested", "done"}]
  BY DEF Poll, IInv, Globals
<1>6. UNCHANGED <<conf, base, pr, wt, runs, made, approved, merged, faults>>
  BY DEF Poll
<1>7. step' = step \/ Measure(t, FALSE)
  BY DEF Poll
<1> HIDE DEF closed, s
<1>8. EntryOK(t, st'[t], made[t], approved[t]) /\ DOMAIN st' = Tasks /\ \A u \in Tasks \ {t} : st'[u] = st[u]
  BY <1>1, <1>2, <1>3, <1>4 DEF IInv, Shapes
<1>9. Local(t)
  BY <1>5, <1>6, <1>8 DEF Local, IInv, Shapes
<1>10. Globals' /\ Shapes' /\ Rows' /\ Grows /\ (step' \in {step, Idle} => StepOK')
  BY <1>6, <1>8, <1>9, LocalStep, RowFacts
<1>11. StepOK'
  BY <1>6, <1>7, <1>10, MeasureStarts
<1> QED
  BY <1>10, <1>11 DEF IInv

\* The marker is set or cleared.
LEMMA Marked ==
  ASSUME IInv, NEW t \in Tasks,
         st' = st \/ st' = [st EXCEPT ![t] = Left(@)] \/ st' = [st EXCEPT ![t].mhead = TRUE]
  PROVE  EntryOK(t, st'[t], made[t], approved[t]) /\ DOMAIN st' = Tasks /\ \A u \in Tasks \ {t} : st'[u] = st[u]
<1> DEFINE s == st[t]
<1>1. /\ st'[t] \in {s, Left(s), [s EXCEPT !.mhead = TRUE]}
      /\ DOMAIN st' = Tasks /\ \A u \in Tasks \ {t} : st'[u] = st[u]
  BY DEF IInv, Shapes
<1>2. EntryOK(t, s, made[t], approved[t])
  BY RowFacts
<1> HIDE DEF s
<1>3. EntryOK(t, Left(s), made[t], approved[t]) /\ EntryOK(t, [s EXCEPT !.mhead = TRUE], made[t], approved[t])
  BY <1>2, MarksKeep
<1> QED
  BY <1>1, <1>2, <1>3

LEMMA QueueHeadStep ==
  ASSUME IInv, NEW t \in Tasks, QueueHead(t)
  PROVE  IInv' /\ Grows
<1>1. UNCHANGED <<conf, base, pr, wt, runs, status, made, approved, merged, faults>>
  BY DEF QueueHead
<1>2. DOMAIN st' = Tasks /\ \A u \in Tasks : st'[u] \in {st[u], Left(st[u])}
  BY DEF QueueHead
<1>3. ASSUME NEW u \in Tasks PROVE RowOK(u)'
  <2>1. EntryOK(u, st[u], made[u], approved[u])
    BY RowFacts
  <2>2. EntryOK(u, Left(st[u]), made[u], approved[u])
    BY <2>1, MarksKeep
  <2>3. EntryOK(u, st'[u], made[u], approved[u])
    BY <1>2, <2>1, <2>2
  <2> QED
    BY <1>1, <2>3 DEF IInv, Rows, RowOK
<1>4. Globals' /\ Shapes' /\ Rows'
  BY <1>1, <1>2, <1>3 DEF IInv, Globals, Shapes, Rows
<1>5. Grows
  BY <1>1, RowFacts DEF Grows
<1>6. StepOK'
  <2>1. CASE Gate(t)
    BY <1>1, <2>1, MergeStarts DEF QueueHead
  <2>2. CASE ~Gate(t)
    BY <2>2 DEF QueueHead, StepOK
  <2> QED
    BY <2>1, <2>2
<1> QED
  BY <1>4, <1>5, <1>6 DEF IInv

LEMMA PickStep ==
  ASSUME IInv, NEW t \in Tasks, Pick(t)
  PROVE  IInv' /\ Grows
<1>1. UNCHANGED <<conf, base, pr, wt, runs, status, made, approved, merged, faults>>
  BY DEF Pick
<1>2. st' = st \/ st' = [st EXCEPT ![t] = Left(@)] \/ st' = [st EXCEPT ![t].mhead = TRUE]
  BY DEF Pick
<1>3. EntryOK(t, st'[t], made[t], approved[t]) /\ DOMAIN st' = Tasks /\ \A u \in Tasks \ {t} : st'[u] = st[u]
  BY <1>2, Marked
<1>4. Local(t)
  BY <1>1, <1>3 DEF Local, IInv, Shapes, Globals
<1>5. Globals' /\ Shapes' /\ Rows' /\ Grows /\ (step' \in {step, Idle} => StepOK')
  BY <1>1, <1>3, <1>4, LocalStep, RowFacts
<1>6. step' = step \/ Measure(t, TRUE) \/ step' = [Idle EXCEPT !.op = "advance", !.t = t]
  BY DEF Pick
<1>7. StepOK'
  BY <1>1, <1>5, <1>6, MeasureStarts, AdvanceStarts
<1> QED
  BY <1>5, <1>7 DEF IInv

\* The task a handler is about.
LEMMA Handled ==
  ASSUME IInv, step.op # "idle"
  PROVE  step.t \in Tasks /\ HandlerOK(step.t)
<1>1. PICK t \in Tasks : HandlerOK(t)
  BY DEF IInv, StepOK, Idle
<1>2. step.t = t
  BY <1>1 DEF HandlerOK, Rebasing, Heading
<1> QED
  BY <1>1, <1>2

LEMMA AdvancePickedStep ==
  ASSUME IInv, AdvancePicked
  PROVE  IInv' /\ Grows
<1>1. PICK t \in Tasks : t = step.t
  BY Handled DEF AdvancePicked
<1>2. UNCHANGED <<conf, base, pr, wt, runs, status, made, approved, merged, faults>> /\ Advance(t)
  BY <1>1 DEF AdvancePicked
<1>3. st' = st \/ st' = [st EXCEPT ![t] = Left(@)]
  BY <1>2 DEF Advance
<1>4. EntryOK(t, st'[t], made[t], approved[t]) /\ DOMAIN st' = Tasks /\ \A u \in Tasks \ {t} : st'[u] = st[u]
  BY <1>1, <1>3, Marked
<1>5. Local(t)
  BY <1>2, <1>4 DEF Local, IInv, Shapes, Globals
<1>6. Globals' /\ Shapes' /\ Rows' /\ Grows /\ (step' \in {step, Idle} => StepOK')
  BY <1>1, <1>2, <1>4, <1>5, LocalStep, RowFacts
<1>7. StepOK'
  <2>1. CASE Gate(t)
    BY <1>1, <1>2, <2>1, MergeStarts DEF Advance
  <2>2. CASE ~Gate(t)
    BY <1>2, <2>2 DEF Advance, StepOK
  <2> QED
    BY <2>1, <2>2
<1> QED
  BY <1>6, <1>7 DEF IInv

\* GitHub merges the head that the gate looked at, which was approved.
LEMMA MergeCallStep ==
  ASSUME IInv, MergeCall
  PROVE  IInv' /\ Grows
<1>1. PICK t \in Tasks : t = step.t /\ step \in Heading(t) /\ (~conf.current => step.from.p \in approved[t])
  BY Handled DEF MergeCall, HandlerOK, Rebasing
<1>2. pr[t].head = step.from /\ pr' = [pr EXCEPT ![t].open = FALSE] /\ step' = Idle
      /\ merged' = [merged EXCEPT ![t] = pr[t].head.p]
      /\ UNCHANGED <<conf, wt, runs, status, made, approved>>
  BY <1>1 DEF MergeCall
<1>3. st' = st \/ st' = [st EXCEPT ![t] = Left(@)]
  BY <1>1 DEF MergeCall
<1>4. base' \in 0 .. MaxBase /\ faults' \in 0 .. MaxFaults
  BY MergeQueueAssumption DEF MergeCall, IInv, Globals
<1>5. EntryOK(t, st'[t], made[t], approved[t]) /\ DOMAIN st' = Tasks /\ \A u \in Tasks \ {t} : st'[u] = st[u]
  BY <1>1, <1>3, Marked
<1>6. Elsewhere(t)
  BY <1>2, <1>5 DEF Elsewhere, IInv, Shapes
<1>7. Globals' /\ Shapes'
  BY <1>2, <1>4, <1>5 DEF IInv, Globals, Shapes
<1>8. pr'[t] \in PullRequests(t) /\ pr'[t].head = pr[t].head /\ merged'[t] = pr[t].head.p
  BY <1>1, <1>2 DEF IInv, Rows, RowOK, PullRequests, Shapes
<1>9. RowOK(t)'
  <2>1. RowOK(t)
    BY <1>1 DEF IInv, Rows
  <2>2. merged'[t] \in Nat /\ (~conf.current => merged'[t] \in approved[t])
    <3>1. pr[t].head.p \in Nat
      BY <1>1, RowFacts
    <3> QED
      BY <1>1, <1>2, <1>8, <3>1
  <2>3. pr'[t].head.p <= made'[t] /\ EntryOK(t, st'[t], made'[t], approved'[t])
    BY <1>2, <1>5, <1>8, <2>1 DEF RowOK
  <2> QED
    BY <1>2, <1>8, <2>1, <2>2, <2>3 DEF RowOK
<1>10. Grows
  BY <1>1, <1>2, <1>6, <1>8, RowFacts, GrowsElsewhere
<1>11. conf' = conf
  BY <1>2
<1>12. Rows'
  BY <1>1, <1>6, <1>9, <1>11, Frame DEF IInv
<1> QED
  BY <1>2, <1>7, <1>10, <1>12 DEF IInv, StepOK

LEMMA MergeFailsStep ==
  ASSUME IInv, MergeFails
  PROVE  IInv' /\ Grows
<1>1. UNCHANGED <<conf, base, pr, wt, runs, status, st, made, approved, merged>> /\ step' = Idle
  BY DEF MergeFails
<1>2. faults' \in 0 .. MaxFaults
  BY MergeQueueAssumption DEF MergeFails, IInv, Globals
<1> QED
  BY <1>1, <1>2, RowFacts DEF IInv, Globals, Shapes, Rows, RowOK, StepOK, Grows

-----------------------------------------------------------------------------
(* The mechanical rebase.                                                  *)

LEMMA SyncStep ==
  ASSUME IInv, Sync
  PROVE  IInv' /\ Grows
<1>1. PICK t \in Tasks : t = step.t /\ HandlerOK(t)
  BY Handled DEF Sync
<1>2. step.op = "sync" /\ UNCHANGED <<conf, base, pr, runs, status, st, approved, merged, faults>>
  BY DEF Sync
<1>3. step \in Rebasing(t) /\ step.p = step.local.p /\ step.from \in Heads(t) /\ step.from.p <= pr[t].head.p
  BY <1>1, <1>2 DEF HandlerOK, Rebasing, Heading
<1>4. PICK n \in 1 .. MaxPatch[t], m \in 1 .. MaxPatch[t] :
         /\ pr[t].head.p <= n /\ n <= m /\ made[t] <= m
         /\ step' = [step EXCEPT !.op = "push", !.to = [p |-> n, b |-> base]]
         /\ DOMAIN made' = Tasks /\ made'[t] = m /\ \A u \in Tasks \ {t} : made'[u] = made[u]
  <2>1. CASE /\ step' = [step EXCEPT !.op = "push", !.to = [p |-> Later(wt[t], pr[t].head), b |-> base]]
             /\ made' = made
    <3>1. PICK n \in 1 .. MaxPatch[t] : n = Later(wt[t], pr[t].head) /\ pr[t].head.p <= n /\ n <= made[t]
      <4>1. wt[t].p \in 1 .. MaxPatch[t] /\ pr[t].head.p \in 1 .. MaxPatch[t]
        BY RowFacts DEF Heads
      <4> QED
        BY <4>1, RowFacts DEF Later
    <3>2. DOMAIN made' = Tasks /\ made[t] \in 1 .. MaxPatch[t] /\ made[t] <= made[t]
      BY <2>1, RowFacts DEF IInv, Shapes
    <3> QED
      BY <2>1, <3>1, <3>2
  <2>2. CASE /\ made[t] < MaxPatch[t] /\ made' = [made EXCEPT ![t] = @ + 1]
             /\ step' = [step EXCEPT !.op = "push", !.to = [p |-> made[t] + 1, b |-> base]]
    <3>1. PICK n \in 1 .. MaxPatch[t] : n = made[t] + 1 /\ pr[t].head.p <= n /\ made[t] <= n /\ n <= n
      BY <2>2, RowFacts, HeadsAre
    <3>2. DOMAIN made' = Tasks /\ made'[t] = n /\ \A u \in Tasks \ {t} : made'[u] = made[u]
      BY <2>2, <3>1 DEF IInv, Shapes
    <3> QED
      BY <2>2, <3>1, <3>2
  <2> QED
    BY <1>1, <2>1, <2>2 DEF Sync
<1> DEFINE h == [p |-> n, b |-> base]
<1>5. h \in Heads(t) /\ h.p = n
  BY HeadsAre DEF IInv, Globals
<1>6. step' \in Rebasing(t) /\ step'.op = "push" /\ step'.to = h /\ step'.p = step'.local.p
      /\ step'.from = step.from
  BY <1>3, <1>4, <1>5 DEF Rebasing
<1> HIDE DEF h
<1>7. wt' = [wt EXCEPT ![t] = h]
  BY <1>1, <1>6 DEF Sync
<1>8. n \in Nat /\ m \in Nat /\ made'[t] = m /\ wt'[t] = h
  BY <1>4, <1>7, HeadsAre DEF IInv, Shapes
<1>9. EntryOK(t, st[t], m, approved[t])
  <2>1. st[t].head.p <= m
    <3>1. st[t].head \in Heads(t) /\ st[t].head.p <= made[t]
      BY RowFacts DEF Entries
    <3> QED
      BY <1>4, <1>8, <3>1, RowFacts, HeadsAre
  <2> QED
    BY <2>1, RowFacts DEF EntryOK
<1>10. Elsewhere(t) /\ Shapes' /\ Globals'
  BY <1>2, <1>4, <1>7 DEF Elsewhere, IInv, Shapes, Globals
<1>11. RowOK(t)'
  <2>1. RowOK(t)
    BY DEF IInv, Rows
  <2>2. pr[t].head.p <= m
    BY <1>4, <1>8, RowFacts
  <2> QED
    BY <1>2, <1>4, <1>5, <1>8, <1>9, <2>1, <2>2 DEF RowOK
<1>12. Rows'
  BY <1>2, <1>10, <1>11, Frame DEF IInv
<1>13. Grows
  BY <1>2, <1>4, <1>8, <1>10, GrowsElsewhere, RowFacts
<1>14. step.from.p <= n /\ step.from.p <= pr[t].head.p
  BY <1>3, <1>4, <1>8, RowFacts, HeadsAre
<1>15. HandlerOK(t)'
  BY <1>2, <1>4, <1>5, <1>6, <1>8, <1>14 DEF HandlerOK
<1> QED
  BY <1>10, <1>12, <1>13, <1>15 DEF IInv, StepOK

LEMMA SyncConflictStep ==
  ASSUME IInv, SyncConflict
  PROVE  IInv' /\ Grows
<1>1. PICK t \in Tasks : t = step.t
  BY Handled DEF SyncConflict
<1> DEFINE l == Left(st[t])
<1> DEFINE z == [l EXCEPT !.agent = TRUE]
<1>2. EntryOK(t, z, made[t], approved[t])
  <2>1. EntryOK(t, l, made[t], approved[t])
    BY RowFacts, MarksKeep
  <2> HIDE DEF l
  <2> QED
    BY <2>1 DEF EntryOK, Entries
<1> HIDE DEF z
<1>3. UNCHANGED <<conf, base, pr, wt, runs, made, approved, merged, faults>> /\ step' = Idle
      /\ st' = [st EXCEPT ![t] = z] /\ status' = [status EXCEPT ![t] = "changes_requested"]
  BY <1>1 DEF SyncConflict, z
<1>4. Local(t) /\ EntryOK(t, st'[t], made[t], approved[t])
  BY <1>2, <1>3 DEF Local, IInv, Shapes, Globals
<1> QED
  BY <1>3, <1>4, LocalStep, RowFacts DEF IInv

LEMMA AlreadyCurrentStep ==
  ASSUME IInv, AlreadyCurrent
  PROVE  IInv' /\ Grows
<1>1. PICK t \in Tasks : t = step.t
  BY Handled DEF AlreadyCurrent
<1>2. UNCHANGED <<conf, base, pr, wt, runs, status, made, approved, merged, faults>>
      /\ st' = [st EXCEPT ![t].mhead = TRUE] /\ step' = [Idle EXCEPT !.op = "advance", !.t = t]
  BY <1>1 DEF AlreadyCurrent
<1>3. EntryOK(t, st'[t], made[t], approved[t]) /\ DOMAIN st' = Tasks /\ \A u \in Tasks \ {t} : st'[u] = st[u]
  BY <1>2, Marked
<1>4. Local(t)
  BY <1>2, <1>3 DEF Local, IInv, Shapes, Globals
<1>5. Globals' /\ Shapes' /\ Rows' /\ Grows
  BY <1>2, <1>3, <1>4, LocalStep, RowFacts
<1> QED
  BY <1>2, <1>5, AdvanceStarts DEF IInv

\* What a push would put on the branch and on record.
LEMMA Pushed ==
  ASSUME IInv, NEW t \in Tasks, t = step.t, step.op = "push", pr[t].head = step.from
  PROVE  /\ Moved(pr[t], step.to) \in PullRequests(t) /\ Moved(pr[t], step.to).head = step.to
         /\ step.to \in Heads(t) /\ step.to.p <= made[t] /\ pr[t].head.p <= step.to.p
         /\ Measured \in Rebases(t) /\ PatchKept(Measured) /\ step.mh \in BOOLEAN
<1>1. HandlerOK(t)
  BY Handled
<1>2. /\ step \in Rebasing(t) /\ step.p = step.local.p
      /\ step.to \in Heads(t) /\ step.from.p <= step.to.p /\ step.to.p <= made[t]
  BY <1>1 DEF HandlerOK, Heading
<1>3. step.local \in Heads(t) /\ step.from \in Heads(t) /\ step.mh \in BOOLEAN
  BY <1>2 DEF Rebasing
<1>4. (step.p = step.to.p) \in BOOLEAN
  OBVIOUS
<1>5. PICK same \in BOOLEAN : same = (step.p = step.to.p)
  BY <1>4
<1>6. Measured = [from |-> step.from, local |-> step.local, to |-> step.to, same |-> same]
  BY <1>5 DEF Measured
<1>7. Measured \in Rebases(t)
  BY <1>2, <1>3, <1>6 DEF Rebases
<1>8. PatchKept(Measured)
  BY <1>2, <1>5, <1>6 DEF PatchKept, Proves
<1>9. pr[t] \in PullRequests(t)
  BY DEF IInv, Rows, RowOK
<1>10. Moved(pr[t], step.to) \in PullRequests(t) /\ Moved(pr[t], step.to).head = step.to
  BY <1>2, <1>9 DEF Moved, PullRequests, Rollups
<1> QED
  BY <1>2, <1>3, <1>7, <1>8, <1>10

\* The branch moves to the rebased head; the record may be kept, the entry and
\* the worktree follow in order.
LEMMA PushedStep ==
  ASSUME IInv, NEW t \in Tasks, t = step.t, step.op = "push", pr[t].head = step.from,
         pr' = [pr EXCEPT ![t] = Moved(@, step.to)],
         runs' = runs \/ runs' = [runs EXCEPT ![t] = @ \cup {Measured}],
         UNCHANGED <<conf, base, status, made, approved, merged>>, step' = Idle,
         faults' \in 0 .. MaxFaults,
         DOMAIN st' = Tasks, DOMAIN wt' = Tasks,
         \A u \in Tasks \ {t} : st'[u] = st[u] /\ wt'[u] = wt[u],
         EntryOK(t, st'[t], made[t], approved[t]), wt'[t] \in Heads(t), wt'[t].p <= made[t]
  PROVE  IInv' /\ Grows
<1> DEFINE q == Moved(pr[t], step.to)
<1> DEFINE r == Measured
<1>1. /\ q \in PullRequests(t) /\ q.head.p <= made[t] /\ pr[t].head.p <= q.head.p
      /\ r \in Rebases(t) /\ PatchKept(r)
  BY Pushed
<1> HIDE DEF q, r
<1>2. /\ DOMAIN pr' = Tasks /\ pr'[t] = q /\ \A u \in Tasks \ {t} : pr'[u] = pr[u]
      /\ DOMAIN runs' = Tasks /\ runs'[t] \subseteq runs[t] \cup {r} /\ \A u \in Tasks \ {t} : runs'[u] = runs[u]
  BY DEF q, r, IInv, Shapes
<1>3. Elsewhere(t) /\ Shapes' /\ Globals'
  BY <1>2 DEF Elsewhere, IInv, Shapes, Globals
<1>4. RowOK(t)'
  <2>1. RowOK(t)
    BY DEF IInv, Rows
  <2>2. runs'[t] \subseteq Rebases(t) /\ \A x \in runs'[t] : PatchKept(x)
    BY <1>1, <1>2, <2>1 DEF RowOK
  <2>3. PatchKept(st'[t].check.run)
    BY DEF EntryOK
  <2> QED
    BY <1>1, <1>2, <2>1, <2>2 DEF RowOK
<1>5. Rows'
  BY <1>3, <1>4, Frame DEF IInv
<1>6. Grows
  BY <1>1, <1>2, <1>3, GrowsElsewhere, RowFacts
<1> QED
  BY <1>3, <1>5, <1>6 DEF IInv, StepOK

LEMMA PushRebasedStep ==
  ASSUME IInv, PushRebased
  PROVE  IInv' /\ Grows
<1>1. PICK t \in Tasks : t = step.t
  BY Handled DEF PushRebased
<1> DEFINE r == Measured
<1>2. /\ step.op = "push" /\ pr[t].head = step.from /\ step' = Idle
      /\ pr' = [pr EXCEPT ![t] = Moved(@, step.to)]
      /\ runs' = [runs EXCEPT ![t] = @ \cup {Measured}]
      /\ UNCHANGED <<conf, base, status, made, approved, merged, faults>>
  BY <1>1 DEF PushRebased
<1>3. r \in Rebases(t) /\ PatchKept(r) /\ step.mh \in BOOLEAN
  BY <1>1, <1>2, Pushed
<1>4. /\ DOMAIN st' = Tasks /\ DOMAIN wt' = Tasks
      /\ \A u \in Tasks \ {t} : st'[u] = st[u] /\ wt'[u] = wt[u]
      /\ EntryOK(t, st'[t], made[t], approved[t]) /\ wt'[t] \in Heads(t) /\ wt'[t].p <= made[t]
  <2>1. CASE conf.checks
    <3>1. st' = [st EXCEPT ![t].check = [on |-> TRUE, run |-> r, mh |-> step.mh]] /\ wt' = wt
      BY <1>1, <2>1 DEF PushRebased
    <3> HIDE DEF r
    <3> DEFINE c == [on |-> TRUE, run |-> r, mh |-> step.mh]
    <3>2. c \in CheckRuns(t) /\ c.run = r
      BY <1>3 DEF CheckRuns
    <3> HIDE DEF c
    <3>3. EntryOK(t, [st[t] EXCEPT !.check = c], made[t], approved[t])
      BY <1>3, <3>2, RowFacts DEF EntryOK, Entries
    <3>4. st' = [st EXCEPT ![t].check = c]
      BY <3>1 DEF c
    <3> QED
      BY <3>1, <3>3, <3>4, RowFacts DEF IInv, Shapes
  <2>2. CASE ~conf.checks
    <3>1. PICK o \in ReviewOrKeep(st[t], wt[t], r) :
            /\ st' = [st EXCEPT ![t] = HeadUnlessReviewed(o, step.mh).s]
            /\ wt' = [wt EXCEPT ![t] = o.w]
      BY <1>1, <2>2 DEF PushRebased
    <3> HIDE DEF r
    <3>2. OutcomeOK(t, o, made[t], approved[t])
      BY <1>3, RowFacts, ReviewOrKeepKeeps
    <3>3. EntryOK(t, HeadUnlessReviewed(o, step.mh).s, made[t], approved[t])
      BY <1>3, <3>2, HeadUnlessReviewedKeeps
    <3>4. o.w \in Heads(t) /\ o.w.p <= made[t]
      BY <3>2 DEF OutcomeOK, Outcomes
    <3> QED
      BY <3>1, <3>3, <3>4 DEF IInv, Shapes
  <2> QED
    BY <2>1, <2>2
<1>5. faults' \in 0 .. MaxFaults
  BY <1>2 DEF IInv, Globals
<1> QED
  BY <1>1, <1>2, <1>4, <1>5, PushedStep

LEMMA PushFailsStep ==
  ASSUME IInv, PushFails
  PROVE  IInv' /\ Grows
<1>1. UNCHANGED <<conf, base, pr, wt, runs, status, st, made, approved, merged>> /\ step' = Idle
  BY DEF PushFails
<1>2. faults' \in 0 .. MaxFaults
  BY MergeQueueAssumption DEF PushFails, IInv, Globals
<1> QED
  BY <1>1, <1>2, RowFacts DEF IInv, Globals, Shapes, Rows, RowOK, StepOK, Grows

LEMMA KilledAfterPushStep ==
  ASSUME IInv, KilledAfterPush
  PROVE  IInv' /\ Grows
<1>1. PICK t \in Tasks : t = step.t
  BY Handled DEF KilledAfterPush
<1>2. /\ step.op = "push" /\ pr[t].head = step.from /\ step' = Idle
      /\ pr' = [pr EXCEPT ![t] = Moved(@, step.to)]
      /\ runs' = runs \/ runs' = [runs EXCEPT ![t] = @ \cup {Measured}]
      /\ UNCHANGED <<conf, base, wt, status, st, made, approved, merged>>
  BY <1>1 DEF KilledAfterPush
<1>3. faults' \in 0 .. MaxFaults
  BY MergeQueueAssumption DEF KilledAfterPush, IInv, Globals
<1>4. DOMAIN st' = Tasks /\ DOMAIN wt' = Tasks
  BY <1>2 DEF IInv, Shapes
<1>5. EntryOK(t, st'[t], made[t], approved[t]) /\ wt'[t] \in Heads(t) /\ wt'[t].p <= made[t]
  BY <1>2, RowFacts
<1> QED
  BY <1>1, <1>2, <1>3, <1>4, <1>5, PushedStep

LEMMA ReapCheckStep ==
  ASSUME IInv, NEW t \in Tasks, NEW green \in BOOLEAN, ReapCheck(t, green)
  PROVE  IInv' /\ Grows
<1> DEFINE k == st[t].check
<1>1. UNCHANGED <<conf, base, pr, runs, step, made, approved, merged, faults>>
      /\ status' \in [Tasks -> {"in_review", "changes_requested", "done"}]
  BY DEF ReapCheck, IInv, Globals
<1>2. k.run \in Rebases(t) \cup {NoRebase} /\ PatchKept(k.run) /\ k.mh \in BOOLEAN
  BY RowFacts
<1>3. PICK z, w : /\ st' = [st EXCEPT ![t] = z]
                  /\ DOMAIN wt' = Tasks /\ wt'[t] = w /\ \A u \in Tasks \ {t} : wt'[u] = wt[u]
                  /\ EntryOK(t, z, made[t], approved[t]) /\ w \in Heads(t) /\ w.p <= made[t]
  <2>1. CASE green
    <3>1. PICK o \in ReviewOrKeep(st[t], wt[t], k.run) :
            /\ st' = [st EXCEPT ![t] = [HeadUnlessReviewed(o, k.mh).s EXCEPT !.check = NoCheck]]
            /\ wt' = [wt EXCEPT ![t] = o.w]
      BY <2>1 DEF ReapCheck
    <3> HIDE DEF k
    <3>2. OutcomeOK(t, o, made[t], approved[t])
      BY <1>2, RowFacts, ReviewOrKeepKeeps
    <3> DEFINE y == HeadUnlessReviewed(o, k.mh).s
    <3>3. EntryOK(t, y, made[t], approved[t])
      BY <1>2, <3>2, HeadUnlessReviewedKeeps
    <3> HIDE DEF y
    <3>4. EntryOK(t, [y EXCEPT !.check = NoCheck], made[t], approved[t])
      BY <3>3, MarksKeep
    <3>5. o.w \in Heads(t) /\ o.w.p <= made[t]
      BY <3>2 DEF OutcomeOK, Outcomes
    <3>6. DOMAIN wt' = Tasks /\ wt'[t] = o.w /\ \A u \in Tasks \ {t} : wt'[u] = wt[u]
      BY <3>1 DEF IInv, Shapes
    <3> QED
      BY <3>1, <3>4, <3>5, <3>6 DEF y
  <2>2. CASE ~green
    <3> DEFINE y == ChangesRequested(st[t])
    <3>1. EntryOK(t, y, made[t], approved[t])
      BY RowFacts, MarksKeep
    <3>2. st' = [st EXCEPT ![t] = [y EXCEPT !.check = NoCheck]] /\ wt' = wt
      BY <2>2 DEF ReapCheck
    <3> HIDE DEF y
    <3>3. EntryOK(t, [y EXCEPT !.check = NoCheck], made[t], approved[t])
      BY <3>1, MarksKeep
    <3>4. DOMAIN wt' = Tasks
      BY <3>2 DEF IInv, Shapes
    <3> QED
      BY <3>2, <3>3, <3>4, RowFacts
  <2> QED
    BY <2>1, <2>2
<1>4. Local(t) /\ st'[t] = z /\ wt'[t] = w
  BY <1>1, <1>3 DEF Local, IInv, Shapes
<1> QED
  BY <1>1, <1>3, <1>4, LocalStep DEF IInv

-----------------------------------------------------------------------------
(* Reviews and revisions.                                                  *)

LEMMA AuditedKeeps ==
  ASSUME IInv, NEW t \in Tasks
  PROVE  EntryOK(t, Audited(t), made[t], approved[t])
<1> DEFINE s == st[t]
<1>1. EntryOK(t, s, made[t], approved[t])
  BY RowFacts
<1>2. Audited(t) \in {s, [s EXCEPT !.pend = "none"], [[s EXCEPT !.pend = "none"] EXCEPT !.pend = "counted"],
                      [s EXCEPT !.pend = "counted"]}
      /\ (Audited(t) \notin {s, [s EXCEPT !.pend = "none"]} => s.rounds < MaxRounds)
  BY <1>1 DEF Audited, EntryOK, Entries
<1> HIDE DEF s
<1>3. EntryOK(t, [s EXCEPT !.pend = "none"], made[t], approved[t])
  <2> DEFINE z == [s EXCEPT !.pend = "none"]
  <2>1. z \in Entries(t) /\ z.head = s.head /\ z.check = s.check /\ z.verdict = s.verdict
        /\ z.vhead = s.vhead /\ z.lineage = s.lineage /\ z.rounds = s.rounds /\ z.pend = "none"
    BY <1>1 DEF EntryOK, Entries
  <2>2. s.rounds <= MaxRounds + 1
    BY <1>1, MergeQueueAssumption DEF EntryOK, Entries
  <2> HIDE DEF z
  <2> QED
    BY <1>1, <2>1, <2>2 DEF EntryOK, z
<1>4. s.rounds < MaxRounds => EntryOK(t, [s EXCEPT !.pend = "counted"], made[t], approved[t])
  <2> DEFINE z == [s EXCEPT !.pend = "counted"]
  <2>1. z \in Entries(t) /\ z.head = s.head /\ z.check = s.check /\ z.verdict = s.verdict
        /\ z.vhead = s.vhead /\ z.lineage = s.lineage /\ z.rounds = s.rounds /\ z.pend = "counted"
    BY <1>1 DEF EntryOK, Entries
  <2>2. s.rounds < MaxRounds => s.rounds <= MaxRounds + 0
    BY <1>1, MergeQueueAssumption DEF EntryOK, Entries
  <2> HIDE DEF z
  <2>3. s.rounds < MaxRounds => EntryOK(t, z, made[t], approved[t])
    BY <1>1, <2>1, <2>2 DEF EntryOK
  <2> QED
    BY <2>3 DEF z
<1>5. [[s EXCEPT !.pend = "none"] EXCEPT !.pend = "counted"] = [s EXCEPT !.pend = "counted"]
  BY <1>1 DEF EntryOK, Entries
<1> QED
  BY <1>1, <1>2, <1>3, <1>4, <1>5

LEMMA DrainStep ==
  ASSUME IInv, NEW t \in Tasks, Drain(t)
  PROVE  IInv' /\ Grows
<1> DEFINE s == Audited(t)
<1>1. UNCHANGED <<conf, base, pr, runs, status, step, made, approved, merged, faults>>
  BY DEF Drain
<1>2. EntryOK(t, s, made[t], approved[t])
  BY AuditedKeeps
<1>3. /\ DOMAIN st' = Tasks /\ DOMAIN wt' = Tasks
      /\ \A u \in Tasks \ {t} : st'[u] = st[u] /\ wt'[u] = wt[u]
      /\ EntryOK(t, st'[t], made[t], approved[t]) /\ wt'[t] \in Heads(t) /\ wt'[t].p <= made[t]
  <2>1. CASE s.pend # "none" /\ ~s.human /\ ~s.check.on
    <3> DEFINE z == [s EXCEPT !.pend = "none"]
    <3>1. PICK o \in DispatchOrDefer(z, wt[t], s.pend) : st' = [st EXCEPT ![t] = o.s] /\ wt' = [wt EXCEPT ![t] = o.w]
      BY <2>1 DEF Drain
    <3> HIDE DEF s
    <3>2. z \in Entries(t) /\ z.head = s.head /\ z.check = s.check /\ z.verdict = s.verdict
          /\ z.vhead = s.vhead /\ z.lineage = s.lineage /\ z.rounds = s.rounds /\ z.pend = "none"
      BY <1>2 DEF EntryOK, Entries
    <3>3. s.pend \in {"counted", "free"}
      BY <1>2, <2>1 DEF EntryOK, Entries
    <3>4. s.rounds <= MaxRounds + 1 /\ s.rounds \in Nat
      BY <1>2, MergeQueueAssumption DEF EntryOK, Entries
    <3>5. s.pend = "counted" => s.rounds + 0 <= MaxRounds
      BY <1>2, MergeQueueAssumption DEF EntryOK, Entries
    <3> HIDE DEF z
    <3>6. EntryOK(t, z, made[t], approved[t]) /\ Room(z, s.pend)
      BY <1>2, <3>2, <3>4, <3>5 DEF EntryOK, Room
    <3>7. OutcomeOK(t, o, made[t], approved[t])
      BY <3>3, <3>6, RowFacts, DispatchOrDeferKeeps
    <3>8. EntryOK(t, o.s, made[t], approved[t]) /\ o.w \in Heads(t) /\ o.w.p <= made[t]
      BY <3>7 DEF OutcomeOK, Outcomes
    <3> QED
      BY <3>1, <3>8 DEF IInv, Shapes
  <2>2. CASE ~(s.pend # "none" /\ ~s.human /\ ~s.check.on)
    <3>1. st' = [st EXCEPT ![t] = s] /\ wt' = wt
      BY <2>2 DEF Drain
    <3> HIDE DEF s
    <3> QED
      BY <1>2, <3>1, RowFacts DEF IInv, Shapes
  <2> QED
    BY <2>1, <2>2
<1>4. Local(t)
  BY <1>1, <1>3 DEF Local, IInv, Globals
<1> QED
  BY <1>1, <1>3, <1>4, LocalStep DEF IInv

\* A verdict counts for the head the reviewer had before it.
LEMMA ReviewEndsStep ==
  ASSUME IInv, NEW t \in Tasks, NEW v \in {"approve", "changes"}, ReviewEnds(t, v)
  PROVE  IInv' /\ Grows
<1>1. UNCHANGED <<conf, base, pr, wt, runs, step, made, merged, faults>>
      /\ status' \in [Tasks -> {"in_review", "changes_requested", "done"}]
      /\ st[t].run # NoHead
  BY DEF ReviewEnds, IInv, Globals
<1> DEFINE h == st[t].run
<1>2. h \in Heads(t) /\ h.p \in Nat
  BY <1>1, RowFacts, HeadsAre DEF Entries
<1> DEFINE s == [st[t] EXCEPT !.run = NoHead, !.verdict = v, !.vhead = h, !.lineage = NoHead, !.diff = h]
<1>3. s \in Entries(t) /\ s.head = st[t].head /\ s.check = st[t].check /\ s.verdict = v
      /\ s.vhead = h /\ s.lineage = NoHead /\ s.rounds = st[t].rounds /\ s.pend = st[t].pend
  BY <1>2, RowFacts DEF Entries
<1>4. CASE ~EvidenceCurrent(t)
  <2>1. st' = [st EXCEPT ![t].run = NoHead, ![t].pend = "none"] /\ approved' = approved
    BY <1>4 DEF ReviewEnds
  <2> DEFINE z == [st[t] EXCEPT !.run = NoHead, !.pend = "none"]
  <2>2. st'[t] = z /\ DOMAIN st' = Tasks /\ \A u \in Tasks \ {t} : st'[u] = st[u]
    BY <2>1 DEF IInv, Shapes
  <2>3. z \in Entries(t) /\ z.head = st[t].head /\ z.check = st[t].check /\ z.verdict = st[t].verdict
        /\ z.vhead = st[t].vhead /\ z.lineage = st[t].lineage /\ z.rounds = st[t].rounds /\ z.pend = "none"
    BY RowFacts DEF Entries
  <2> HIDE DEF z
  <2>4. EntryOK(t, st[t], made[t], approved[t])
    BY RowFacts
  <2>5. st[t].rounds <= MaxRounds + 1
    BY <2>4, MergeQueueAssumption DEF EntryOK, Entries
  <2>6. EntryOK(t, z, made[t], approved[t])
    BY <2>3, <2>4, <2>5 DEF EntryOK
  <2>7. Local(t)
    BY <1>1, <2>1, <2>2 DEF Local, IInv, Shapes
  <2> QED
    BY <1>1, <2>2, <2>6, <2>7, LocalStep, RowFacts DEF IInv
<1>5. CASE EvidenceCurrent(t) /\ v = "approve"
  <2>1. st' = [st EXCEPT ![t] = s] /\ approved' = [approved EXCEPT ![t] = @ \cup {h.p}]
    BY <1>5 DEF ReviewEnds
  <2> HIDE DEF s, h
  <2>2. DOMAIN st' = Tasks /\ st'[t] = s /\ \A u \in Tasks \ {t} : st'[u] = st[u]
    BY <2>1 DEF IInv, Shapes
  <2>3. DOMAIN approved' = Tasks /\ approved'[t] = approved[t] \cup {h.p} /\ \A u \in Tasks \ {t} : approved'[u] = approved[u]
    BY <2>1 DEF IInv, Shapes
  <2>4. Elsewhere(t) /\ Shapes' /\ Globals'
    BY <1>1, <2>2, <2>3 DEF Elsewhere, IInv, Shapes, Globals
  <2>5. RowOK(t)
    BY DEF IInv, Rows
  <2>6. EntryOK(t, st'[t], made[t], approved'[t])
    BY <1>3, <2>2, <2>3, <2>5 DEF RowOK, EntryOK
  <2>7. RowOK(t)'
    BY <1>1, <1>2, <2>3, <2>5, <2>6 DEF RowOK
  <2>8. Rows'
    BY <1>1, <2>4, <2>7, Frame DEF IInv
  <2>9. Grows
    BY <1>1, <2>3, <2>4, GrowsElsewhere, RowFacts
  <2> QED
    BY <1>1, <2>4, <2>8, <2>9, HandlerStays DEF IInv
<1>6. CASE EvidenceCurrent(t) /\ v = "changes"
  <2>1. st' = [st EXCEPT ![t] = ChangesRequested(s)] /\ approved' = approved
    BY <1>6 DEF ReviewEnds
  <2> HIDE DEF s, h
  <2>2. EntryOK(t, st[t], made[t], approved[t])
    BY RowFacts
  <2>3. EntryOK(t, s, made[t], approved[t])
    BY <1>3, <1>6, <2>2 DEF EntryOK
  <2>4. EntryOK(t, ChangesRequested(s), made[t], approved[t])
    BY <2>3, MarksKeep
  <2>5. Local(t) /\ st'[t] = ChangesRequested(s)
    BY <1>1, <2>1 DEF Local, IInv, Shapes
  <2> QED
    BY <1>1, <2>4, <2>5, LocalStep, RowFacts DEF IInv
<1> QED
  BY <1>4, <1>5, <1>6

LEMMA ReviewAgainStep ==
  ASSUME IInv, NEW t \in Tasks, ReviewAgain(t)
  PROVE  IInv' /\ Grows
<1>1. UNCHANGED <<conf, base, pr, runs, status, step, made, approved, merged, faults>>
  BY DEF ReviewAgain
<1>2. EntryOK(t, st[t], made[t], approved[t])
  BY RowFacts
<1>3. PICK n \in Nat : n = (IF st[t].rounds >= MaxRounds THEN MaxRounds - 1 ELSE st[t].rounds) /\ n + 1 <= MaxRounds
  BY <1>2, MergeQueueAssumption DEF EntryOK, Entries
<1> DEFINE s == [st[t] EXCEPT !.human = FALSE, !.rounds = n]
<1>4. st' = [st EXCEPT ![t] = DispatchReview(s, "counted").s] /\ wt' = [wt EXCEPT ![t] = DispatchReview(s, "counted").w]
  BY <1>3 DEF ReviewAgain
<1>5. s \in Entries(t) /\ s.head = st[t].head /\ s.check = st[t].check /\ s.verdict = st[t].verdict
      /\ s.vhead = st[t].vhead /\ s.lineage = st[t].lineage /\ s.rounds = n /\ s.pend = st[t].pend
  BY <1>2 DEF EntryOK, Entries
<1> HIDE DEF s
<1>6. n <= MaxRounds + 0 /\ n <= MaxRounds + 1 /\ n + 0 <= MaxRounds
  BY <1>3, MergeQueueAssumption
<1>7. EntryOK(t, s, made[t], approved[t]) /\ Room(s, "counted")
  BY <1>2, <1>3, <1>5, <1>6 DEF EntryOK, Room
<1> DEFINE o == DispatchReview(s, "counted")
<1>8. OutcomeOK(t, o, made[t], approved[t])
  BY <1>7, RowFacts, DispatchKeeps
<1> HIDE DEF o
<1>9. EntryOK(t, o.s, made[t], approved[t]) /\ o.w \in Heads(t) /\ o.w.p <= made[t]
  BY <1>8 DEF OutcomeOK, Outcomes
<1>10. st' = [st EXCEPT ![t] = o.s] /\ wt' = [wt EXCEPT ![t] = o.w]
  BY <1>4 DEF o
<1>11. Local(t) /\ st'[t] = o.s /\ wt'[t] = o.w
  BY <1>1, <1>10 DEF Local, IInv, Shapes, Globals
<1> QED
  BY <1>1, <1>9, <1>11, LocalStep DEF IInv

\* A new patch on the branch of t, with the entry and the worktree in order.
LEMMA NewPatch ==
  ASSUME IInv, NEW t \in Tasks, NEW n \in 1 .. MaxPatch[t], NEW b \in 0 .. MaxBase, n = made[t] + 1,
         made' = [made EXCEPT ![t] = n], pr' = [pr EXCEPT ![t] = Moved(@, [p |-> n, b |-> b])],
         UNCHANGED <<conf, base, runs, step, approved, merged, faults>>,
         status' \in [Tasks -> {"in_review", "changes_requested", "done"}],
         DOMAIN st' = Tasks, DOMAIN wt' = Tasks,
         \A u \in Tasks \ {t} : st'[u] = st[u] /\ wt'[u] = wt[u],
         EntryOK(t, st'[t], n, approved[t]), wt'[t] \in Heads(t), wt'[t].p <= n
  PROVE  IInv' /\ Grows
<1> DEFINE h == [p |-> n, b |-> b]
<1> DEFINE q == Moved(pr[t], h)
<1>1. h \in Heads(t) /\ h.p = n
  BY HeadsAre
<1>2. pr' = [pr EXCEPT ![t] = q]
  OBVIOUS
<1> HIDE DEF h
<1>3. RowOK(t)
  BY DEF IInv, Rows
<1>4. q \in PullRequests(t) /\ q.head = h
  BY <1>1, <1>3 DEF RowOK, Moved, PullRequests, Rollups
<1> HIDE DEF q
<1>5. pr[t].head.p \in Nat /\ made[t] \in Nat /\ n \in Nat /\ pr[t].head.p <= n /\ made[t] <= n /\ n <= n
  BY RowFacts, HeadsAre
<1>6. /\ DOMAIN pr' = Tasks /\ pr'[t] = q /\ \A u \in Tasks \ {t} : pr'[u] = pr[u]
      /\ DOMAIN made' = Tasks /\ made'[t] = n /\ \A u \in Tasks \ {t} : made'[u] = made[u]
  BY <1>2 DEF IInv, Shapes
<1>7. Elsewhere(t) /\ Shapes' /\ Globals'
  BY <1>6 DEF Elsewhere, IInv, Shapes, Globals
<1>8. RowOK(t)'
  BY <1>1, <1>3, <1>4, <1>5, <1>6 DEF RowOK
<1>9. Rows'
  BY <1>7, <1>8, Frame DEF IInv
<1>10. Grows
  BY <1>1, <1>4, <1>5, <1>6, <1>7, GrowsElsewhere
<1> QED
  BY <1>7, <1>9, <1>10, HandlerStays DEF IInv

LEMMA ReviseStep ==
  ASSUME IInv, NEW t \in Tasks, Revise(t)
  PROVE  IInv' /\ Grows
<1>0. made[t] < MaxPatch[t]
  BY DEF Revise
<1>1. PICK n \in 1 .. MaxPatch[t] : n = made[t] + 1 /\ made[t] \in Nat /\ n \in Nat
  BY <1>0, RowFacts, HeadsAre
<1> DEFINE h == [p |-> n, b |-> base]
<1>2. h \in Heads(t) /\ h.p = n /\ base \in 0 .. MaxBase
  BY HeadsAre DEF IInv, Globals
<1> DEFINE s == [st[t] EXCEPT !.head = h, !.fb = FALSE, !.agent = FALSE, !.diff = h]
<1> DEFINE kind == IF st[t].agent THEN "free" ELSE "counted"
<1>3. /\ made' = [made EXCEPT ![t] = n] /\ pr' = [pr EXCEPT ![t] = Moved(@, h)]
      /\ status' = [status EXCEPT ![t] = "in_review"]
      /\ UNCHANGED <<conf, base, runs, step, approved, merged, faults>>
  BY <1>1 DEF Revise
<1>4. PICK o \in MaybeReview(s, h, kind) : st' = [st EXCEPT ![t] = o.s] /\ wt' = [wt EXCEPT ![t] = o.w]
  BY <1>1 DEF Revise
<1>5. s \in Entries(t) /\ s.head = h /\ s.check = st[t].check /\ s.verdict = st[t].verdict
      /\ s.vhead = st[t].vhead /\ s.lineage = st[t].lineage /\ s.rounds = st[t].rounds /\ s.pend = st[t].pend
  <2> HIDE DEF h
  <2> QED
    BY <1>2, RowFacts DEF Entries
<1>6. EntryOK(t, s, n, approved[t])
  <2> HIDE DEF s, h
  <2>1. EntryOK(t, st[t], made[t], approved[t])
    BY RowFacts
  <2> QED
    BY <1>1, <1>2, <1>5, <2>1 DEF EntryOK
<1> HIDE DEF s, h
<1>7. OutcomeOK(t, o, n, approved[t])
  <2>1. kind \in {"counted", "free"}
    OBVIOUS
  <2> HIDE DEF kind
  <2>2. h.p <= n
    BY <1>1, <1>2
  <2> QED
    BY <1>1, <1>2, <1>4, <1>6, <2>1, <2>2, MaybeKeeps
<1>8. EntryOK(t, o.s, n, approved[t]) /\ o.w \in Heads(t) /\ o.w.p <= n
  BY <1>7 DEF OutcomeOK, Outcomes
<1>9. /\ DOMAIN st' = Tasks /\ DOMAIN wt' = Tasks /\ st'[t] = o.s /\ wt'[t] = o.w
      /\ \A u \in Tasks \ {t} : st'[u] = st[u] /\ wt'[u] = wt[u]
  BY <1>4 DEF IInv, Shapes
<1>10. status' \in [Tasks -> {"in_review", "changes_requested", "done"}]
  BY <1>3 DEF IInv, Globals
<1>11. pr' = [pr EXCEPT ![t] = Moved(@, [p |-> n, b |-> base])]
  BY <1>3 DEF h
<1> QED
  BY <1>1, <1>2, <1>3, <1>8, <1>9, <1>10, <1>11, NewPatch

-----------------------------------------------------------------------------
(* Everybody else.                                                         *)

LEMMA AuthorPushesStep ==
  ASSUME IInv, NEW t \in Tasks, AuthorPushes(t)
  PROVE  IInv' /\ Grows
<1>1. PICK n \in 1 .. MaxPatch[t] : n = made[t] + 1 /\ made[t] \in Nat /\ n \in Nat
  BY RowFacts, HeadsAre DEF AuthorPushes
<1>2. PICK b \in 0 .. MaxBase : b = pr[t].head.b
  BY RowFacts DEF Heads
<1>3. /\ made' = [made EXCEPT ![t] = n] /\ pr' = [pr EXCEPT ![t] = Moved(@, [p |-> n, b |-> b])]
      /\ UNCHANGED <<conf, base, runs, step, approved, merged, faults, status, st, wt>>
  BY <1>1, <1>2 DEF AuthorPushes, ctl
<1>4. EntryOK(t, st[t], n, approved[t])
  <2>1. EntryOK(t, st[t], made[t], approved[t])
    BY RowFacts
  <2>2. st[t].head.p \in Nat
    BY RowFacts, HeadsAre DEF Entries
  <2>3. st[t].head.p <= n
    BY <1>1, <2>2, RowFacts
  <2> QED
    BY <2>1, <2>3 DEF EntryOK
<1>5. wt[t] \in Heads(t) /\ wt[t].p <= n
  BY <1>1, RowFacts
<1>6. DOMAIN st' = Tasks /\ DOMAIN wt' = Tasks /\ status' \in [Tasks -> {"in_review", "changes_requested", "done"}]
  BY <1>3 DEF IInv, Shapes, Globals
<1> QED
  BY <1>1, <1>3, <1>4, <1>5, <1>6, NewPatch

LEMMA ProviderStep ==
  ASSUME IInv, NEW t \in Tasks,
         Conflicts(t) \/ \E r \in {"success", "failure"} : CiReports(t, r)
  PROVE  IInv' /\ Grows
<1>1. UNCHANGED <<conf, base, wt, runs, status, st, step, made, approved, merged, faults>>
  BY DEF Conflicts, CiReports, ctl
<1>2. RowOK(t)
  BY DEF IInv, Rows
<1>3. /\ DOMAIN pr' = Tasks /\ \A u \in Tasks \ {t} : pr'[u] = pr[u]
      /\ pr'[t] \in PullRequests(t) /\ pr'[t].head = pr[t].head
  <2>1. pr[t] \in PullRequests(t) /\ DOMAIN pr = Tasks
    BY <1>2 DEF IInv, Shapes, RowOK
  <2>2. CASE Conflicts(t)
    BY <2>1, <2>2 DEF Conflicts, PullRequests
  <2>3. ASSUME NEW r \in {"success", "failure"}, CiReports(t, r)
        PROVE  /\ DOMAIN pr' = Tasks /\ \A u \in Tasks \ {t} : pr'[u] = pr[u]
               /\ pr'[t] \in PullRequests(t) /\ pr'[t].head = pr[t].head
    BY <2>1, <2>3 DEF CiReports, PullRequests, Rollups
  <2> QED
    BY <2>2, <2>3
<1>4. Elsewhere(t) /\ Shapes' /\ Globals'
  BY <1>1, <1>3 DEF Elsewhere, IInv, Shapes, Globals
<1>5. RowOK(t)'
  BY <1>1, <1>2, <1>3 DEF RowOK
<1>6. Rows'
  BY <1>1, <1>4, <1>5, Frame DEF IInv
<1>7. Grows
  BY <1>1, <1>3, <1>4, GrowsElsewhere, RowFacts
<1> QED
  BY <1>1, <1>4, <1>6, <1>7, HandlerStays DEF IInv

LEMMA BaseMovesStep ==
  ASSUME IInv, BaseMoves
  PROVE  IInv' /\ Grows
<1>1. UNCHANGED <<conf, pr, wt, runs, status, st, step, made, approved, merged, faults>>
  BY DEF BaseMoves, ctl
<1>2. base' \in 0 .. MaxBase
  BY MergeQueueAssumption DEF BaseMoves, IInv, Globals
<1>3. Globals' /\ Shapes' /\ Rows' /\ Grows
  BY <1>1, <1>2, RowFacts DEF IInv, Globals, Shapes, Rows, RowOK, Grows
<1> QED
  BY <1>1, <1>3, HandlerStays DEF IInv

-----------------------------------------------------------------------------
(* The theorems.                                                           *)

LEMMA InitInvariant == Init => IInv
<1> SUFFICES ASSUME Init PROVE IInv
  OBVIOUS
<1>1. Globals /\ Shapes /\ StepOK
  <2>1. MaxBase \in Nat /\ MaxFaults \in Nat
    BY MergeQueueAssumption
  <2>2. base \in 0 .. MaxBase /\ faults \in 0 .. MaxFaults
    <3>1. base = 0 /\ faults = MaxFaults
      BY DEF Init
    <3> QED
      BY <2>1, <3>1
  <2>3. conf \in Confs /\ status \in [Tasks -> {"in_review", "changes_requested", "done"}]
    BY DEF Init
  <2>4. Shapes /\ StepOK
    BY DEF Init, Shapes, StepOK
  <2> QED
    BY <2>2, <2>3, <2>4 DEF Globals
<1>2. ASSUME NEW t \in Tasks PROVE RowOK(t)
  <2> DEFINE h == [p |-> 1, b |-> 0]
  <2>1. 1 \in 1 .. MaxPatch[t] /\ 0 \in 0 .. MaxBase /\ h \in Heads(t) /\ h.p = 1
    BY MergeQueueAssumption, HeadsAre
  <2>2. NoCheck \in CheckRuns(t) /\ PatchKept(NoCheck.run)
    BY DEF NoCheck, CheckRuns, NoRebase, PatchKept, Proves, NoHead
  <2>3. wt[t] = h /\ runs[t] = {} /\ made[t] = 1 /\ approved[t] = {} /\ merged[t] = 0
    BY DEF Init
  <2>4. \E c \in {"pending", ""} : pr[t] = [head |-> h, open |-> TRUE, conflict |-> FALSE, ci |-> c]
    BY DEF Init
  <2>5. st[t] = [head |-> h, verdict |-> "none", vhead |-> NoHead, lineage |-> NoHead, diff |-> h,
                 run |-> NoHead, pend |-> "counted", rounds |-> 0, human |-> FALSE, fb |-> FALSE,
                 agent |-> FALSE, mhead |-> FALSE, check |-> NoCheck]
    BY DEF Init
  <2> HIDE DEF h
  <2>6. st[t] \in Entries(t) /\ st[t].head = h /\ st[t].check = NoCheck /\ st[t].verdict = "none"
        /\ st[t].rounds = 0 /\ st[t].pend = "counted"
    BY <2>1, <2>2, <2>5 DEF Entries
  <2>7. 0 <= MaxRounds + 0
    BY MergeQueueAssumption
  <2>8. EntryOK(t, st[t], made[t], approved[t])
    BY <2>1, <2>2, <2>3, <2>6, <2>7 DEF EntryOK
  <2>9. pr[t] \in PullRequests(t) /\ pr[t].head = h
    <3>1. PICK c \in Rollups : pr[t] = [head |-> h, open |-> TRUE, conflict |-> FALSE, ci |-> c]
      BY <2>4 DEF Rollups
    <3> QED
      BY <2>1, <3>1 DEF PullRequests
  <2> QED
    BY <2>1, <2>3, <2>8, <2>9 DEF RowOK
<1> QED
  BY <1>1, <1>2 DEF IInv, Rows

LEMMA StepInvariant == IInv /\ [Next]_vars => IInv' /\ (Grows \/ UNCHANGED vars)
<1> SUFFICES ASSUME IInv, [Next]_vars PROVE IInv' /\ (Grows \/ UNCHANGED vars)
  OBVIOUS
<1>1. CASE UNCHANGED vars
  BY <1>1 DEF vars, ctl, IInv, Globals, Shapes, Rows, RowOK, StepOK, HandlerOK
<1>2. CASE \E t \in Tasks : Poll(t) \/ QueueHead(t) \/ Pick(t) \/ Drain(t) \/ Revise(t) \/ ReviewAgain(t)
  BY <1>2, PollStep, QueueHeadStep, PickStep, DrainStep, ReviseStep, ReviewAgainStep
<1>3. CASE \/ \E t \in Tasks, green \in BOOLEAN : ReapCheck(t, green)
           \/ \E t \in Tasks, v \in {"approve", "changes"} : ReviewEnds(t, v)
  BY <1>3, ReapCheckStep, ReviewEndsStep
<1>4. CASE AdvancePicked \/ MergeCall \/ MergeFails
  BY <1>4, AdvancePickedStep, MergeCallStep, MergeFailsStep
<1>5. CASE Sync \/ SyncConflict \/ AlreadyCurrent \/ PushRebased \/ PushFails \/ KilledAfterPush
  BY <1>5, SyncStep, SyncConflictStep, AlreadyCurrentStep, PushRebasedStep, PushFailsStep, KilledAfterPushStep
<1>6. CASE \/ \E t \in Tasks : AuthorPushes(t) \/ Conflicts(t)
           \/ \E t \in Tasks, r \in {"success", "failure"} : CiReports(t, r)
           \/ BaseMoves
  BY <1>6, AuthorPushesStep, ProviderStep, BaseMovesStep
<1> QED
  BY <1>1, <1>2, <1>3, <1>4, <1>5, <1>6 DEF Next, Controller

\* The invariant that the other theorems rest on: heads, recorded rebases,
\* approvals and the handler under way stay in step whatever is pushed, rejected
\* or killed.
THEOREM QueueInvariant == Spec => []IInv
<1>1. IInv /\ [Next]_vars => IInv'
  BY StepInvariant
<1> QED
  BY <1>1, InitInvariant, PTL DEF Spec

\* An approval is only ever carried over to a head with a patch a reviewer
\* approved (_effective_approved_head).
THEOREM ApprovalHolds == Spec => []ApprovalFollowsPatch
<1>1. IInv => ApprovalFollowsPatch
  BY ApprovedHead DEF IInv, ApprovalFollowsPatch
<1> QED
  BY <1>1, QueueInvariant, PTL

\* Where heads are merged as they are, only approved patches are merged
\* (_automerge_gate, _do_merge's match_head).
THEOREM MergedApproved == Spec => []ExactHeadMerged
<1>1. IInv => ExactHeadMerged
  BY DEF IInv, Rows, RowOK, ExactHeadMerged
<1> QED
  BY <1>1, QueueInvariant, PTL

\* Counted review rounds end: at most one is charged beyond review.max_rounds.
THEOREM RoundsBounded == Spec => []ReviewBudget
<1>1. IInv => ReviewBudget
  BY DEF IInv, Rows, RowOK, EntryOK, ReviewBudget
<1> QED
  BY <1>1, QueueInvariant, PTL

\* No rebase takes a pushed commit off a pull request (sync_remote_branch, the
\* lease of push).
THEOREM PushesStay == Spec => PushesKept
<1>1. IInv /\ [Next]_vars => [\A t \in Tasks : pr'[t].head.p >= pr[t].head.p]_vars
  <2> SUFFICES ASSUME IInv, [Next]_vars, ~UNCHANGED vars, NEW t \in Tasks
               PROVE  pr'[t].head.p >= pr[t].head.p
    OBVIOUS
  <2>1. IInv' /\ Grows
    BY StepInvariant
  <2>2. pr[t].head.p \in Nat /\ pr'[t].head.p \in Nat
    BY <2>1, PrNumbers DEF IInv, Rows, RowOK
  <2> QED
    BY <2>1, <2>2 DEF Grows
<1> QED
  BY <1>1, QueueInvariant, PTL DEF Spec, PushesKept

=============================================================================
