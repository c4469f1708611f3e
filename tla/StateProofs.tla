---------------------------- MODULE StateProofs ----------------------------
(***************************************************************************)
(* What is proved of state.json and of the feedback rounds kept in it, for *)
(* every value of the constants: first PrFeedback, the life of a pull      *)
(* request's row, then StateFile, how processes share an entry of it.      *)
(***************************************************************************)
EXTENDS PrFeedback, StateFile, SequenceTheorems, WellFoundedInduction, TLAPS

-----------------------------------------------------------------------------
(* Feedback rounds: the shape of the state.                                *)

Statuses == {"in_review", "changes_requested", "running", "failed", "waiting_human"}

\* The task's and the row's entries of state.json, without the bounds TLC needs.
States ==
    [since : Nat, known : BOOLEAN, seen : SUBSET Trusted,
     prior : SUBSET Parts, keyed : SUBSET Parts, src : Nat, head : Nat,
     revs : Nat, envs : Nat, human : BOOLEAN, reserved : BOOLEAN,
     check : Nat, collected : BOOLEAN, applied : SUBSET Nat,
     ciAt : Nat, reruns : Nat, waiting : Nat]

WorkerRuns == [st : {"none", "live", "exited", "parked"}, brief : SUBSET Parts,
               fin : BOOLEAN, res : {"none", "done", "failed", "env_error"}]

CheckRuns == [st : {"live", "exited", "closed", "dangling", "cancelled"},
              head : Nat, rerun : BOOLEAN, flaky : BOOLEAN]

Observations == [ok : BOOLEAN, head : Nat, ci : {"SUCCESS", "FAILURE"}, items : SUBSET Trusted]

Provider == [posted : [Comments -> 0..MaxTime], own : 0..MaxTime, head : Nat,
             ci : {"SUCCESS", "FAILURE"}]

History == [historical : SUBSET Trusted, finished : [Trusted -> Nat],
            delivered : SUBSET Parts, analysed : SUBSET Nat, killed : BOOLEAN]

Places == {"idle", "reap", "closing", "collected", "applied", "saved", "pushed", "restored",
           "sweep", "refresh", "poll", "checking", "dispatch", "started", "transitioned",
           "audit"}

Shape ==
    /\ gh \in Provider
    /\ now \in 1..MaxTime
    /\ task \in [status : Statuses, dispatched : Nat]
    /\ disk \in States /\ mem \in States
    /\ run \in WorkerRuns
    /\ chk \in Seq(CheckRuns)
    /\ pc \in Places
    /\ obs \in Observations
    /\ left \in BoundSet
    /\ ghost \in History

\* The continuation names a check run that was started.
Pointers ==
    /\ mem.check <= Len(chk) /\ disk.check <= Len(chk)
    /\ pc \in {"closing", "collected", "applied", "saved"} => mem.check # 0

\* A nonempty set of numbers up to n has a largest one.
LEMMA LargestExists ==
  ASSUME NEW n \in Nat, NEW S, S \subseteq 0..n, S # {}
  PROVE  \E k \in S : \A j \in S : j <= k
<1> DEFINE R == OpToRel(<, Nat)
           A == {n - k : k \in S}
<1>1. IsWellFoundedOn(R, Nat)
  BY NatLessThanWellFounded
<1>2. \A a, b \in Nat : a < b => <<a, b>> \in R
  BY DEF OpToRel
<1> HIDE DEF R
<1>3. A \subseteq Nat /\ A # {}
  <2>1. \A k \in S : n - k \in Nat
    OBVIOUS
  <2>2. \E k \in S : n - k \in A
    OBVIOUS
  <2> QED
    BY <2>1, <2>2
<1> HIDE DEF A
<1>4. PICK x \in A : \A y \in A : ~ (<<y, x>> \in R)
  BY <1>1, <1>3, WFMin
<1>5. PICK k \in S : x = n - k
  BY DEF A
<1>6. ASSUME NEW j \in S PROVE j <= k
  <2>1. n - j \in A
    BY DEF A
  <2>2. n - j \in Nat /\ n - k \in Nat /\ j \in Nat /\ k \in Nat
    OBVIOUS
  <2>3. ~ (n - j < n - k)
    BY <1>2, <1>4, <1>5, <2>1, <2>2
  <2> QED
    BY <2>2, <2>3
<1> QED
  BY <1>5, <1>6

\* The provider's newest row has a time, so the cursor stays a number.
LEMMA CursorIs ==
  ASSUME Shape, NEW c \in Nat
  PROVE  HighWater \in Nat /\ AdvanceCursor(c) \in Nat
<1> DEFINE times == {gh.posted[x] : x \in Comments} \cup {gh.own}
<1>1. times \subseteq 0..MaxTime /\ times # {} /\ MaxTime \in Nat
  BY FeedbackAssumption DEF Shape, Provider
<1>2. HighWater = CHOOSE t \in times : \A u \in times : u <= t
  BY DEF HighWater
<1> HIDE DEF times
<1>3. \E t \in times : \A u \in times : u <= t
  BY <1>1, LargestExists
<1>4. HighWater \in times
  BY <1>2, <1>3
<1>5. HighWater \in Nat
  BY <1>1, <1>4
<1> QED
  BY <1>5 DEF AdvanceCursor, Larger

\* Everything but the pending feedback, and what it decides, is the same.
SameButPending(m, s) ==
    /\ m.seen = s.seen /\ m.envs = s.envs /\ m.check = s.check
    /\ m.applied = s.applied /\ m.collected = s.collected /\ m.head = s.head
    /\ m.ciAt = s.ciAt /\ m.reruns = s.reruns

\* The items are pending, and otherwise only what was pending and the CI part.
Queued(m, s, items) ==
    /\ items \subseteq Pending(m)
    /\ Pending(m) \subseteq Pending(s) \cup items \cup {CI}

\* What merge_pending_feedback does to the pending feedback, and what it leaves
\* alone.
LEMMA MergeIs ==
  ASSUME NEW s \in States, NEW head \in Nat, NEW items \in SUBSET Trusted,
         NEW note \in BOOLEAN, NEW replace \in BOOLEAN,
         NEW m, m = MergePending(s, head, items, note, replace)
  PROVE  m \in States /\ SameButPending(m, s) /\ Queued(m, s, items) /\ m.human = s.human
<1>0. CI \in Parts /\ items \subseteq Parts /\ CI \notin items
  BY FeedbackAssumption DEF CI, Parts
<1>1. CASE items = {} /\ ~note /\ ~replace
  <2>1. m = s
    BY <1>1 DEF MergePending
  <2> QED
    BY <1>1, <2>1 DEF SameButPending, Queued
<1>2. CASE ~ (items = {} /\ ~note /\ ~replace)
  <2> DEFINE kept == s.src = head \/ (s.src = 0 /\ s.head = head)
  <2>1. PICK prior : prior = IF kept THEN s.prior ELSE {}
    OBVIOUS
  <2>2. PICK keyed : keyed = (IF kept THEN s.keyed ELSE {}) \cup items
    OBVIOUS
  <2>3. PICK all : all = IF note THEN keyed \cup {CI} ELSE IF replace THEN keyed \ {CI} ELSE keyed
    OBVIOUS
  <2>4. m = [s EXCEPT !.prior = prior, !.keyed = all, !.src = head]
    BY <1>2, <2>1, <2>2, <2>3 DEF MergePending
  <2>5. prior \subseteq s.prior /\ prior \in SUBSET Parts
    BY <2>1 DEF States
  <2>6. items \subseteq keyed /\ keyed \subseteq s.keyed \cup items /\ keyed \in SUBSET Parts
    BY <1>0, <2>2 DEF States
  <2>7. items \subseteq all /\ all \subseteq s.keyed \cup items \cup {CI} /\ all \in SUBSET Parts
    BY <1>0, <2>3, <2>6
  <2> HIDE DEF kept
  <2>8. m \in States
    BY <2>4, <2>5, <2>7 DEF States
  <2>9. m.prior = prior /\ m.keyed = all
    BY <2>4 DEF States
  <2>10. SameButPending(m, s) /\ m.human = s.human
    BY <2>4 DEF States, SameButPending
  <2> QED
    BY <2>5, <2>7, <2>8, <2>9, <2>10 DEF Pending, Queued
<1> QED
  BY <1>1, <1>2

\* What _apply_feedback does: the items end in the pending feedback, nothing else
\* enters it but the CI part, and a task it leaves in review got no item.
LEMMA ApplyIs ==
  ASSUME NEW s \in States, NEW status \in Statuses, NEW head \in Nat,
         NEW items \in SUBSET Trusted, NEW note \in BOOLEAN, NEW replace \in BOOLEAN,
         NEW r, r = ApplyFeedback(s, status, head, items, note, replace)
  PROVE  /\ r.st \in States /\ r.status \in Statuses
         /\ SameButPending(r.st, s) /\ Queued(r.st, s, items)
         /\ r.status = "in_review" => items = {}
         /\ status \in {"in_review", "changes_requested"}
              => r.status \in {"in_review", "changes_requested"}
<1>1. PICK m : m = MergePending(s, head, items, note, replace)
  OBVIOUS
<1>2. m \in States /\ SameButPending(m, s) /\ Queued(m, s, items)
  BY <1>1, MergeIs
<1>3. CASE items = {} /\ ~note /\ ~replace
  <2>1. r = [st |-> s, status |-> status]
    BY <1>3 DEF ApplyFeedback
  <2> QED
    BY <1>3, <2>1 DEF SameButPending, Queued
<1>4. CASE ~ (items = {} /\ ~note /\ ~replace) /\ Pending(m) = {}
  <2>1. r = [st |-> m, status |-> IF status = "changes_requested" /\ ~s.human
                                    THEN "in_review" ELSE status]
    BY <1>1, <1>4 DEF ApplyFeedback
  <2>2. items = {}
    BY <1>2, <1>4 DEF Queued
  <2> QED
    BY <1>2, <2>1, <2>2 DEF Statuses
<1>5. CASE ~ (items = {} /\ ~note /\ ~replace) /\ Pending(m) # {} /\ status = "changes_requested"
  <2>1. r = [st |-> m, status |-> status]
    BY <1>1, <1>5 DEF ApplyFeedback
  <2> QED
    BY <1>2, <1>5, <2>1
<1>6. CASE ~ (items = {} /\ ~note /\ ~replace) /\ Pending(m) # {} /\ status # "changes_requested"
  <2>1. PICK flag \in BOOLEAN : flag = (m.human \/ m.revs >= MaxRevisions)
    BY <1>2 DEF States
  <2>2. PICK h : h = [m EXCEPT !.human = flag]
    OBVIOUS
  <2>3. r = [st |-> h, status |-> "changes_requested"]
    BY <1>1, <1>6, <2>1, <2>2 DEF ApplyFeedback
  <2>4. h \in States
    BY <1>2, <2>2 DEF States
  <2>5. SameButPending(h, m) /\ h.prior = m.prior /\ h.keyed = m.keyed
    BY <1>2, <2>2 DEF States, SameButPending
  <2>6. SameButPending(h, s) /\ Queued(h, s, items)
    BY <1>2, <2>5 DEF SameButPending, Queued, Pending
  <2> QED
    BY <1>6, <2>3, <2>4, <2>6 DEF Statuses
<1> QED
  BY <1>3, <1>4, <1>5, <1>6

\* What _after_ci_check does before the save.
LEMMA ApplyCheckIs ==
  ASSUME Shape, Pointers, ApplyCheck
  PROVE  /\ mem' \in States /\ task' \in [status : Statuses, dispatched : Nat]
         /\ obs' \in Observations
         /\ mem'.seen = mem.seen /\ mem'.envs = mem.envs /\ mem'.check = mem.check
         /\ mem'.applied = mem.applied \cup {mem.check} /\ mem'.collected = mem.collected
         /\ mem'.head = mem.head /\ mem'.ciAt = mem.ciAt
         /\ mem'.reruns = IF Current.flaky THEN mem.reruns + 1 ELSE mem.reruns
         /\ Queued(mem', mem, obs'.items) /\ obs'.items \cap mem.seen = {}
         /\ obs'.head = obs.head
         /\ task'.status = "in_review" => obs'.items = {}
         /\ task.status \in {"in_review", "changes_requested"}
         /\ task'.status \in {"in_review", "changes_requested"}
<1>1. PICK fresh : fresh = Items(mem.since) \ mem.seen
  OBVIOUS
<1>2. fresh \in SUBSET Trusted /\ fresh \cap mem.seen = {}
  BY <1>1 DEF Items
<1>3. PICK cursor \in Nat : cursor = AdvanceCursor(mem.since)
  <2>1. mem.since \in Nat
    BY DEF Shape, States
  <2> QED
    BY <2>1, CursorIs
<1>4. Current \in CheckRuns
  <2>1. mem.check \in Nat
    BY DEF Shape, States
  <2>2. mem.check # 0 /\ mem.check <= Len(chk) /\ chk \in Seq(CheckRuns)
    BY DEF Shape, Pointers, ApplyCheck
  <2>3. mem.check \in 1..Len(chk)
    BY <2>1, <2>2
  <2> QED
    BY <2>2, <2>3, ElementOfSeq DEF Current
<1>5. PICK reruns \in Nat : reruns = IF Current.flaky THEN mem.reruns + 1 ELSE mem.reruns
  <2>1. mem.reruns \in Nat
    BY DEF Shape, States
  <2> QED
    BY <2>1
<1>6. PICK waiting \in Nat : waiting = IF Current.flaky THEN Current.head ELSE mem.waiting
  BY <1>4 DEF Shape, States, CheckRuns
<1>7. PICK s : s = [mem EXCEPT !.since = cursor, !.applied = @ \cup {mem.check},
                               !.reruns = reruns, !.waiting = waiting]
  OBVIOUS
<1>0. PICK note \in BOOLEAN, replace \in BOOLEAN : note = ~Current.flaky /\ replace = TRUE
  OBVIOUS
<1>8. PICK r : r = ApplyFeedback(s, task.status, Current.head, fresh, note, replace)
  OBVIOUS
<1>9. /\ mem' = r.st /\ task' = [task EXCEPT !.status = r.status]
      /\ obs' = [obs EXCEPT !.items = fresh]
      /\ task.status \in {"in_review", "changes_requested"}
  BY <1>0, <1>1, <1>3, <1>5, <1>6, <1>7, <1>8 DEF ApplyCheck, CheckObsolete
<1>10. s \in States
  BY <1>7 DEF Shape, States
<1>11. /\ s.seen = mem.seen /\ s.envs = mem.envs /\ s.check = mem.check
       /\ s.applied = mem.applied \cup {mem.check} /\ s.collected = mem.collected
       /\ s.head = mem.head /\ s.ciAt = mem.ciAt /\ s.prior = mem.prior /\ s.keyed = mem.keyed
  BY <1>7 DEF Shape, States
<1>16. s.reruns = IF Current.flaky THEN mem.reruns + 1 ELSE mem.reruns
  <2>1. s.reruns = reruns
    BY <1>7 DEF Shape, States
  <2> QED
    BY <1>5, <2>1
<1>12. task.status \in Statuses /\ Current.head \in Nat
  BY <1>4 DEF Shape, CheckRuns
<1>13. /\ r.st \in States /\ r.status \in Statuses
       /\ SameButPending(r.st, s) /\ Queued(r.st, s, fresh)
       /\ r.status = "in_review" => fresh = {}
       /\ task.status \in {"in_review", "changes_requested"}
              => r.status \in {"in_review", "changes_requested"}
  BY <1>2, <1>8, <1>10, <1>12, ApplyIs
<1>14. obs' \in Observations /\ obs'.items = fresh /\ obs'.head = obs.head
  BY <1>2, <1>9 DEF Shape, Observations
<1>15. task' \in [status : Statuses, dispatched : Nat] /\ task'.status = r.status
  BY <1>9, <1>13 DEF Shape
<1> QED
  <2>1. mem'.reruns = s.reruns
    BY <1>9, <1>13 DEF SameButPending
  <2>2. mem'.reruns = IF Current.flaky THEN mem.reruns + 1 ELSE mem.reruns
    BY <1>16, <2>1
  <2> QED
    BY <1>2, <1>9, <1>11, <1>13, <1>14, <1>15, <2>2 DEF SameButPending, Queued, Pending

\* What the poll notes of the rollup.
LEMMA CiObservedIs ==
  ASSUME Shape
  PROVE  /\ CiObserved \in States
         /\ CiObserved.seen = mem.seen /\ CiObserved.envs = mem.envs
         /\ CiObserved.check = mem.check /\ CiObserved.applied = mem.applied
         /\ CiObserved.collected = mem.collected /\ CiObserved.head = obs.head
         /\ CiObserved.prior = mem.prior /\ CiObserved.keyed = mem.keyed
         /\ CiObserved.reruns = mem.reruns
         /\ \/ CiObserved.ciAt \in {mem.ciAt, 0}
            \/ CiFailure /\ CiObserved.ciAt = obs.head
<1>1. PICK at \in Nat : at = IF CiFailure THEN obs.head
                            ELSE IF obs.ci = "FAILURE" /\ mem.waiting = obs.head THEN 0
                            ELSE mem.ciAt
  BY DEF Shape, States, Observations
<1>2. CiObserved = [mem EXCEPT !.head = obs.head, !.waiting = 0, !.ciAt = at]
  BY <1>1 DEF CiObserved
<1>3. obs.head \in Nat
  BY DEF Shape, Observations
<1>4. CiObserved \in States
  BY <1>2, <1>3 DEF Shape, States
<1>5. CiObserved.ciAt = at
  BY <1>2 DEF Shape, States
<1>6. /\ CiObserved.seen = mem.seen /\ CiObserved.envs = mem.envs
      /\ CiObserved.check = mem.check /\ CiObserved.applied = mem.applied
      /\ CiObserved.collected = mem.collected /\ CiObserved.head = obs.head
      /\ CiObserved.prior = mem.prior /\ CiObserved.keyed = mem.keyed
      /\ CiObserved.reruns = mem.reruns
  BY <1>2 DEF Shape, States
<1> QED
  BY <1>1, <1>4, <1>5, <1>6

\* What the poll does when the failure, if any, is not analysed.
LEMMA PollAppliesIs ==
  ASSUME Shape, PollApplies
  PROVE  /\ mem' \in States /\ task' \in [status : Statuses, dispatched : Nat]
         /\ mem'.seen = mem.seen \cup obs.items /\ mem'.envs = mem.envs
         /\ mem'.check = 0 /\ mem.check = 0 /\ mem'.applied = mem.applied
         /\ mem'.reruns = mem.reruns
         /\ mem'.ciAt \in {mem.ciAt, 0} \/ (~Analyser /\ mem'.ciAt = obs.head)
         /\ Queued(mem', mem, obs.items)
         /\ task'.status = "in_review" => obs.items = {}
         /\ task.status = "in_review" /\ pc = "poll"
         /\ task'.status \in {"in_review", "changes_requested"}
<1>0. PICK note \in BOOLEAN, replace \in BOOLEAN : note = CiFailure /\ replace = FALSE
  BY DEF CiFailure
<1>1. PICK r : r = ApplyFeedback(CiObserved, task.status, obs.head, obs.items, note, replace)
  OBVIOUS
<1>2. /\ mem' = [r.st EXCEPT !.seen = @ \cup obs.items]
      /\ task' = [task EXCEPT !.status = r.status]
      /\ task.status = "in_review" /\ pc = "poll" /\ mem.check = 0
      /\ CiFailure => ~Analyser
  BY <1>0, <1>1 DEF PollApplies, RememberFeedback, InReviewFlow, CiAnalysed
<1>3. PICK s \in States : s = CiObserved
  BY CiObservedIs
<1>4. task.status \in Statuses /\ obs.head \in Nat /\ obs.items \in SUBSET Trusted
  BY DEF Shape, Observations
<1>5. /\ r.st \in States /\ r.status \in Statuses
      /\ SameButPending(r.st, s) /\ Queued(r.st, s, obs.items)
      /\ r.status = "in_review" => obs.items = {}
      /\ task.status \in {"in_review", "changes_requested"}
              => r.status \in {"in_review", "changes_requested"}
  BY <1>1, <1>3, <1>4, ApplyIs
<1>6. /\ s.seen = mem.seen /\ s.envs = mem.envs /\ s.check = mem.check
      /\ s.applied = mem.applied /\ s.prior = mem.prior /\ s.keyed = mem.keyed
      /\ s.reruns = mem.reruns
      /\ s.ciAt \in {mem.ciAt, 0} \/ (CiFailure /\ s.ciAt = obs.head)
  BY <1>3, CiObservedIs
<1>7. mem' \in States
  BY <1>2, <1>4, <1>5 DEF States
<1>8. /\ mem'.seen = r.st.seen \cup obs.items /\ mem'.envs = r.st.envs
      /\ mem'.check = r.st.check /\ mem'.applied = r.st.applied /\ mem'.ciAt = r.st.ciAt
      /\ mem'.prior = r.st.prior /\ mem'.keyed = r.st.keyed /\ mem'.reruns = r.st.reruns
  BY <1>2, <1>5 DEF States
<1>9. task' \in [status : Statuses, dispatched : Nat] /\ task'.status = r.status
  BY <1>2, <1>5 DEF Shape
<1> QED
  BY <1>2, <1>5, <1>6, <1>7, <1>8, <1>9 DEF SameButPending, Queued, Pending

-----------------------------------------------------------------------------
(* Feedback rounds: what each step does to the entry.                      *)

\* What the invariants read of an entry of state.json.
Reads(m, seen, pending, envs, check, applied, collected, head, ciAt) ==
    /\ m \in States
    /\ m.seen = seen /\ Pending(m) = pending /\ m.envs = envs
    /\ m.check = check /\ m.applied = applied /\ m.collected = collected
    /\ m.head = head /\ m.ciAt = ciAt

\* reap_check drops the continuation.
LEMMA ClearReads ==
  ASSUME Shape, ForgetCheck \/ DropCheck \/ CheckPrUnknown
  PROVE  Reads(mem', mem.seen, Pending(mem), mem.envs, 0, mem.applied, FALSE, mem.head, mem.ciAt)
<1>1. mem \in States /\ mem' = [mem EXCEPT !.check = 0, !.collected = FALSE]
  BY DEF Shape, ForgetCheck, DropCheck, CheckPrUnknown
<1> QED
  BY <1>1 DEF States, Reads, Pending

\* reap_check marks the continuation collected.
LEMMA CollectReads ==
  ASSUME Shape, MarkCollected
  PROVE  Reads(mem', mem.seen, Pending(mem), mem.envs, mem.check, mem.applied, TRUE,
               mem.head, mem.ciAt)
<1>1. mem \in States /\ mem' = [mem EXCEPT !.collected = TRUE]
  BY DEF Shape, MarkCollected
<1> QED
  BY <1>1 DEF States, Reads, Pending

\* The identities are remembered and the continuation cleared.
LEMMA FinishReads ==
  ASSUME Shape, FinishCheck
  PROVE  Reads(mem', mem.seen \cup obs.items, Pending(mem), mem.envs, 0, mem.applied, FALSE,
               mem.head, mem.ciAt)
<1>1. PICK s : s = [mem EXCEPT !.check = 0, !.collected = FALSE]
  OBVIOUS
<1>2. mem' = [s EXCEPT !.seen = @ \cup obs.items] /\ obs.items \in SUBSET Trusted
  BY <1>1 DEF FinishCheck, RememberFeedback, Shape, Observations
<1>3. Reads(s, mem.seen, Pending(mem), mem.envs, 0, mem.applied, FALSE, mem.head, mem.ciAt)
  BY <1>1 DEF Shape, States, Reads, Pending
<1> QED
  BY <1>2, <1>3 DEF States, Reads, Pending

\* A worker run that was reaped resets the count of environment stops.
LEMMA ResetReads ==
  ASSUME Shape, PushRevision \/ FailRevision
  PROVE  Reads(mem', mem.seen, Pending(mem), 0, mem.check, mem.applied, mem.collected,
               mem.head, mem.ciAt)
<1>1. mem \in States /\ mem' = [mem EXCEPT !.envs = 0]
  BY DEF Shape, PushRevision, FailRevision
<1> QED
  BY <1>1 DEF States, Reads, Pending

\* The pull request is updated for the head that was pushed.
LEMMA UpdateReads ==
  ASSUME Shape, UpdatePr
  PROVE  Reads(mem', mem.seen, Pending(mem), mem.envs, mem.check, mem.applied, mem.collected,
               gh.head, mem.ciAt)
<1>1. mem \in States /\ mem' = [mem EXCEPT !.head = gh.head] /\ gh.head \in Nat
  BY DEF Shape, UpdatePr, Provider
<1> QED
  BY <1>1 DEF States, Reads, Pending

\* An environment stop counts, and below the cap restores the round's feedback.
LEMMA RestoreReads ==
  ASSUME Shape, EnvStop
  PROVE  /\ mem.envs + 1 >= EnvCap
              => Reads(mem', mem.seen, Pending(mem), mem.envs + 1, mem.check, mem.applied,
                       mem.collected, mem.head, mem.ciAt)
         /\ ~ (mem.envs + 1 >= EnvCap)
              => Reads(mem', mem.seen, run.brief, mem.envs + 1, mem.check, mem.applied,
                       mem.collected, mem.head, mem.ciAt)
<1>1. mem \in States /\ run.brief \in SUBSET Parts /\ mem' = RestoredState(mem)
  BY DEF Shape, WorkerRuns, EnvStop
<1>2. mem.envs \in Nat /\ mem.revs \in Nat
  BY <1>1 DEF States
<1>3. PICK n \in Nat : n = mem.envs + 1
  BY <1>2
<1>4. PICK revs \in Nat : revs = Larger(0, mem.revs - 1)
  BY <1>2 DEF Larger
<1>5. CASE mem.envs + 1 >= EnvCap
  <2>1. mem' = [mem EXCEPT !.envs = n, !.human = TRUE]
    BY <1>1, <1>3, <1>5 DEF RestoredState
  <2>2. Reads(mem', mem.seen, Pending(mem), n, mem.check, mem.applied,
              mem.collected, mem.head, mem.ciAt)
    BY <1>1, <2>1 DEF States, Reads, Pending
  <2> QED
    BY <1>3, <1>5, <2>2
<1>6. CASE ~ (mem.envs + 1 >= EnvCap)
  <2>1. mem' = [mem EXCEPT !.envs = n, !.revs = revs, !.prior = run.brief, !.keyed = {},
                           !.src = 0]
    BY <1>1, <1>3, <1>4, <1>6 DEF RestoredState
  <2>3. mem' \in States
    <3>1. PICK s : s = [mem EXCEPT !.envs = n, !.revs = revs]
      OBVIOUS
    <3>2. s \in States
      BY <1>1, <3>1 DEF States
    <3>3. PICK brief \in SUBSET Parts : brief = run.brief
      BY <1>1
    <3>4. mem' = [s EXCEPT !.prior = brief, !.keyed = {}, !.src = 0]
      BY <2>1, <3>1, <3>3
    <3> QED
      BY <3>2, <3>4 DEF States
  <2>4. mem'.prior = run.brief /\ mem'.keyed = {} /\ mem'.envs = n
    BY <1>1, <2>1 DEF States
  <2>5. /\ mem'.seen = mem.seen /\ mem'.check = mem.check /\ mem'.applied = mem.applied
        /\ mem'.collected = mem.collected /\ mem'.head = mem.head /\ mem'.ciAt = mem.ciAt
    BY <1>1, <2>1 DEF States
  <2>2. Reads(mem', mem.seen, run.brief, n, mem.check, mem.applied,
              mem.collected, mem.head, mem.ciAt)
    BY <2>3, <2>4, <2>5 DEF Reads, Pending
  <2> QED
    BY <1>3, <1>6, <2>2
<1> QED
  BY <1>5, <1>6

\* The first observation takes what is not newer than the dispatch as history.
LEMMA RefreshReads ==
  ASSUME Shape, RefreshOpenPrs
  PROVE  \E history \in SUBSET Trusted :
           /\ Reads(mem', mem.seen \cup history, Pending(mem), mem.envs, mem.check, mem.applied,
                    mem.collected, mem.head, mem.ciAt)
           /\ ghost' = [ghost EXCEPT !.historical = @ \cup history]
           /\ obs' \in Observations /\ obs'.head = gh.head
           /\ obs'.items \cap (mem.seen \cup history) = {}
<1>1. PICK history : history = IF mem.known THEN {}
                               ELSE {c \in Items(mem.since) : gh.posted[c] <= task.dispatched}
  OBVIOUS
<1>2. history \in SUBSET Trusted
  BY <1>1 DEF Items
<1>3. PICK cursor \in Nat : cursor = IF mem.known THEN mem.since ELSE task.dispatched
  BY DEF Shape, States
<1>4. PICK since \in Nat : since = IF HighWater = 0 THEN mem.since ELSE AdvanceCursor(cursor)
  <2>1. mem.since \in Nat
    BY DEF Shape, States
  <2>2. AdvanceCursor(cursor) \in Nat
    BY CursorIs
  <2> QED
    BY <2>1, <2>2
<1>5. PICK items \in SUBSET Trusted : items = Items(mem.since) \ (mem.seen \cup history)
  BY DEF Items
<1>6. /\ mem' = [mem EXCEPT !.known = TRUE, !.seen = mem.seen \cup history, !.since = since]
      /\ obs' = [ok |-> TRUE, head |-> gh.head, ci |-> gh.ci, items |-> items]
      /\ ghost' = [ghost EXCEPT !.historical = @ \cup history]
  BY <1>1, <1>3, <1>4, <1>5 DEF RefreshOpenPrs
<1>7. obs' \in Observations /\ obs'.head = gh.head /\ obs'.items = items
  BY <1>6 DEF Shape, Provider, Observations
<1>8. Reads(mem', mem.seen \cup history, Pending(mem), mem.envs, mem.check, mem.applied,
            mem.collected, mem.head, mem.ciAt)
  BY <1>2, <1>6 DEF Shape, States, Reads, Pending
<1> QED
  BY <1>2, <1>5, <1>6, <1>7, <1>8

\* A poll that looks at no feedback may still note the head.
LEMMA SkipReads ==
  ASSUME Shape, PollSkips
  PROVE  \/ mem' = mem
         \/ /\ mem.check = 0
            /\ Reads(mem', mem.seen, Pending(mem), mem.envs, mem.check, mem.applied,
                     mem.collected, obs.head, mem.ciAt)
<1>1. mem \in States /\ obs.head \in Nat
  BY DEF Shape, Observations
<1>2. mem' = mem \/ (mem.check = 0 /\ mem' = [mem EXCEPT !.head = obs.head])
  BY DEF PollSkips
<1>3. mem' = [mem EXCEPT !.head = obs.head]
        => Reads(mem', mem.seen, Pending(mem), mem.envs, mem.check, mem.applied,
                 mem.collected, obs.head, mem.ciAt)
  BY <1>1 DEF States, Reads, Pending
<1> QED
  BY <1>2, <1>3

\* Where a failing rollup leaves the record of handled failures.
LEMMA ObservedReads ==
  ASSUME Shape
  PROVE  \E at \in Nat :
           /\ at \in {mem.ciAt, 0} \/ at = obs.head
           /\ Reads(CiObserved, mem.seen, Pending(mem), mem.envs, mem.check, mem.applied,
                    mem.collected, obs.head, at)
<1>1. PICK at : at = CiObserved.ciAt
  OBVIOUS
<1>2. at \in Nat
  BY <1>1, CiObservedIs DEF States
<1> QED
  BY <1>1, <1>2, CiObservedIs DEF Reads, Pending

\* The analyser's run becomes the task's continuation.
LEMMA StartsReads ==
  ASSUME Shape, PollStartsCheck
  PROVE  \E at \in Nat :
           /\ at \in {mem.ciAt, 0} \/ at = obs.head
           /\ Reads(mem', mem.seen, Pending(mem), mem.envs, Len(chk) + 1, mem.applied, FALSE,
                    obs.head, at)
<1>1. PICK at \in Nat :
           /\ at \in {mem.ciAt, 0} \/ at = obs.head
           /\ Reads(CiObserved, mem.seen, Pending(mem), mem.envs, mem.check, mem.applied,
                    mem.collected, obs.head, at)
  BY ObservedReads
<1>2. PICK k \in Nat : k = Len(chk) + 1
  BY LenProperties DEF Shape
<1>3. PICK s : s = CiObserved
  OBVIOUS
<1>4. mem' = [s EXCEPT !.check = k, !.collected = FALSE]
  BY <1>2, <1>3 DEF PollStartsCheck
<1>5. Reads(mem', mem.seen, Pending(mem), mem.envs, k, mem.applied, FALSE, obs.head, at)
  BY <1>1, <1>3, <1>4 DEF States, Reads, Pending
<1> QED
  BY <1>1, <1>2, <1>5

\* A dispatch takes the whole pending feedback.
LEMMA DispatchReads ==
  ASSUME Shape, DispatchStart
  PROVE  Reads(mem', mem.seen, {}, mem.envs, mem.check, mem.applied, mem.collected,
               mem.head, mem.ciAt)
<1>1. mem \in States /\ mem.revs \in Nat
  BY DEF Shape, States
<1>2. PICK n \in Nat : n = mem.revs + 1
  BY <1>1
<1>3. mem' = [mem EXCEPT !.revs = n, !.prior = {}, !.keyed = {}, !.src = 0]
  BY <1>2 DEF DispatchStart
<1> QED
  BY <1>1, <1>3 DEF States, Reads, Pending

\* The audit only flags the task.
LEMMA AuditReads ==
  ASSUME Shape, TickEnd
  PROVE  Reads(mem', mem.seen, Pending(mem), mem.envs, mem.check, mem.applied, mem.collected,
               mem.head, mem.ciAt)
<1>1. mem \in States
  BY DEF Shape
<1>2. PICK flag \in BOOLEAN : flag = (mem.human \/ Stuck(mem))
  OBVIOUS
<1>3. mem' = [mem EXCEPT !.human = flag]
  BY <1>2 DEF TickEnd
<1> QED
  BY <1>1, <1>3 DEF States, Reads, Pending

\* retry keeps the feedback, or leaves its own note.
LEMMA RetryReads ==
  ASSUME Shape, Retry
  PROVE  \E pending \in SUBSET Parts :
           /\ Pending(disk) \subseteq pending /\ pending \subseteq Pending(disk) \cup {Note}
           /\ Reads(disk', disk.seen, pending, disk.envs, disk.check, disk.applied,
                    disk.collected, disk.head, disk.ciAt)
<1>1. disk \in States /\ disk.revs \in Nat /\ MaxRevisions \in Nat \ {0}
  BY FeedbackAssumption DEF Shape, States
<1>2. PICK revs \in Nat : revs = IF disk.revs >= MaxRevisions THEN MaxRevisions - 1
                                 ELSE disk.revs
  BY <1>1
<1>3. PICK s : s = [disk EXCEPT !.human = FALSE, !.revs = revs]
  OBVIOUS
<1>4. disk' = IF Pending(disk) = {} THEN [s EXCEPT !.prior = {Note}] ELSE s
  BY <1>2, <1>3 DEF Retry
<1>5. Reads(s, disk.seen, Pending(disk), disk.envs, disk.check, disk.applied,
            disk.collected, disk.head, disk.ciAt)
  BY <1>1, <1>3 DEF States, Reads, Pending
<1>6. CASE Pending(disk) # {}
  <2>1. Pending(disk) \in SUBSET Parts
    BY <1>1 DEF Pending, States
  <2> QED
    BY <1>4, <1>5, <1>6, <2>1
<1>7. CASE Pending(disk) = {}
  <2>1. s.keyed = {} /\ {Note} \in SUBSET Parts /\ disk' = [s EXCEPT !.prior = {Note}]
    BY <1>4, <1>5, <1>7 DEF Reads, Pending, Parts
  <2>2. Reads(disk', disk.seen, {Note}, disk.envs, disk.check, disk.applied,
              disk.collected, disk.head, disk.ciAt)
    BY <1>5, <2>1 DEF States, Reads, Pending
  <2> QED
    BY <1>7, <2>1, <2>2
<1> QED
  BY <1>6, <1>7

\* A reservation and its end only flip the flag.
LEMMA ReserveReads ==
  ASSUME Shape, ReserveManual \/ ReturnToAutomation
  PROVE  Reads(disk', disk.seen, Pending(disk), disk.envs, disk.check, disk.applied,
               disk.collected, disk.head, disk.ciAt)
<1>1. disk \in States
  BY DEF Shape
<1>2. PICK flag \in BOOLEAN : disk' = [disk EXCEPT !.reserved = flag]
  BY DEF ReserveManual, ReturnToAutomation
<1> QED
  BY <1>1, <1>2 DEF States, Reads, Pending

-----------------------------------------------------------------------------
(* Feedback rounds: the shape is kept.                                     *)

\* The shape of what lies outside the entry.
OuterShape ==
    /\ gh \in Provider /\ now \in 1..MaxTime
    /\ task \in [status : Statuses, dispatched : Nat]
    /\ run \in WorkerRuns /\ chk \in Seq(CheckRuns)
    /\ pc \in Places /\ obs \in Observations
    /\ left \in BoundSet /\ ghost \in History

\* Changing one check run keeps the list one.
LEMMA CheckUpdated ==
  ASSUME NEW q \in Seq(CheckRuns), NEW new, DOMAIN new = DOMAIN q,
         new = [k \in DOMAIN q |-> new[k]],
         \A k \in DOMAIN q : new[k] \in CheckRuns
  PROVE  new \in Seq(CheckRuns) /\ Len(new) = Len(q)
<1>1. Len(q) \in Nat /\ DOMAIN q = 1..Len(q)
  BY LenProperties
<1>2. new \in [1..Len(q) -> CheckRuns]
  BY <1>1
<1>3. new \in Seq(CheckRuns)
  BY <1>1, <1>2, IsASeq
<1>4. Len(new) = Len(q)
  BY <1>1, <1>3, LenProperties
<1> QED
  BY <1>3, <1>4

\* A push gives the branch a new head, whose rollup has not failed yet.
LEMMA HeadPushed ==
  ASSUME NEW g \in Provider
  PROVE  /\ [g EXCEPT !.head = @ + 1, !.ci = "SUCCESS"] \in Provider
         /\ [g EXCEPT !.head = @ + 1, !.ci = "SUCCESS"].head = g.head + 1
<1>1. g.head \in Nat
  BY DEF Provider
<1>2. PICK n \in Nat : n = g.head + 1
  BY <1>1
<1>3. [g EXCEPT !.head = @ + 1, !.ci = "SUCCESS"] = [g EXCEPT !.head = n, !.ci = "SUCCESS"]
  BY <1>2
<1> QED
  BY <1>2, <1>3 DEF Provider

\* GitHub, the clock, operators' pushes and the processes keep the shape.
LEMMA OutsideShape ==
  ASSUME Shape, World \/ Exits
  PROVE  OuterShape' /\ UNCHANGED <<mem, disk, pc, task, obs, ghost>> /\ Len(chk') = Len(chk)
<1>0. OuterShape /\ MaxTime \in Nat
  BY FeedbackAssumption DEF Shape, OuterShape
<1>1. CASE Clock
  <2>1. now' \in 1..MaxTime
    BY <1>0, <1>1 DEF Clock, OuterShape
  <2> QED
    BY <1>0, <1>1, <2>1 DEF Clock, OuterShape
<1>2. ASSUME NEW c \in Comments, Comment(c)
      PROVE  OuterShape' /\ UNCHANGED <<mem, disk, pc, task, obs, ghost, chk>>
  <2>1. now \in 0..MaxTime
    BY <1>0 DEF OuterShape
  <2>2. gh' \in Provider
    BY <1>0, <1>2, <2>1 DEF Comment, OuterShape, Provider
  <2> QED
    BY <1>0, <1>2, <2>2 DEF Comment, OuterShape
<1>3. ASSUME NEW result \in {"SUCCESS", "FAILURE"}, CiFinishes(result)
      PROVE  OuterShape' /\ UNCHANGED <<mem, disk, pc, task, obs, ghost, chk>>
  <2>1. gh' \in Provider
    BY <1>0, <1>3 DEF CiFinishes, OuterShape, Provider
  <2> QED
    BY <1>0, <1>3, <2>1 DEF CiFinishes, OuterShape
<1>4. CASE HumanPush
  <2>1. gh' \in Provider
    BY <1>0, <1>4, HeadPushed DEF HumanPush, OuterShape
  <2>2. left' \in BoundSet
    <3>1. left.human \in Nat /\ left.human > 0
      BY <1>0, <1>4 DEF HumanPush, OuterShape, BoundSet
    <3>2. PICK n \in Nat : n = left.human - 1
      BY <3>1
    <3> QED
      BY <1>0, <1>4, <3>2 DEF HumanPush, OuterShape, BoundSet
  <2> QED
    BY <1>0, <1>4, <2>1, <2>2 DEF HumanPush, OuterShape
<1>5. ASSUME NEW result \in {"done", "failed", "env_error"}, WorkerExits(result)
      PROVE  OuterShape' /\ UNCHANGED <<mem, disk, pc, task, obs, ghost, chk>>
  <2>1. run' \in WorkerRuns
    BY <1>0, <1>5 DEF WorkerExits, OuterShape, WorkerRuns
  <2>2. left' \in BoundSet
    <3>1. left.env \in Nat /\ (result = "env_error" => left.env > 0)
      BY <1>0, <1>5 DEF WorkerExits, OuterShape, BoundSet
    <3>2. PICK n \in Nat : n = left.env - (IF result = "env_error" THEN 1 ELSE 0)
      BY <3>1
    <3> QED
      BY <1>0, <1>5, <3>2 DEF WorkerExits, OuterShape, BoundSet
  <2> QED
    BY <1>0, <1>5, <2>1, <2>2 DEF WorkerExits, OuterShape
<1>6. ASSUME NEW k \in DOMAIN chk, NEW flaky \in BOOLEAN, CheckExits(k, flaky)
      PROVE  OuterShape' /\ UNCHANGED <<mem, disk, pc, task, obs, ghost>> /\ Len(chk') = Len(chk)
  <2>1. chk \in Seq(CheckRuns) /\ \A j \in DOMAIN chk : chk[j] \in CheckRuns
    BY <1>0, LenProperties, ElementOfSeq DEF OuterShape
  <2>2. PICK rec : rec = [chk[k] EXCEPT !.st = "exited", !.flaky = flaky]
    OBVIOUS
  <2>3. rec \in CheckRuns
    BY <2>1, <2>2 DEF CheckRuns
  <2>4. chk' = [chk EXCEPT ![k] = rec]
    BY <1>6, <2>1, <2>2 DEF CheckExits
  <2>5. chk' \in Seq(CheckRuns) /\ Len(chk') = Len(chk)
    BY <2>1, <2>3, <2>4, CheckUpdated
  <2> QED
    BY <1>0, <1>6, <2>5 DEF CheckExits, OuterShape
<1> QED
  BY <1>1, <1>2, <1>3, <1>4, <1>5, <1>6 DEF World, Exits

\* Every step of a pass keeps the shape.
LEMMA ReapShape ==
  ASSUME Shape, Pointers, Reap
  PROVE  Shape'
<1>0. /\ {"idle", "reap", "closing", "collected", "applied", "saved", "pushed", "restored",
          "sweep", "refresh"} \subseteq Places
      /\ Statuses = {"in_review", "changes_requested", "running", "failed", "waiting_human"}
      /\ NoRun \in WorkerRuns
  BY DEF Places, Statuses, NoRun, WorkerRuns
<1>00. \A j \in DOMAIN chk : chk[j] \in CheckRuns
  BY LenProperties, ElementOfSeq DEF Shape
<1>1. CASE ReapNothing
  <2>1. run' \in WorkerRuns
    BY <1>1 DEF ReapNothing, Shape, WorkerRuns
  <2> QED
    BY <1>0, <1>1, <2>1 DEF ReapNothing, Shape
<1>2. CASE ForgetCheck \/ DropCheck \/ CheckPrUnknown
  <2>1. mem' \in States
    BY <1>2, ClearReads DEF Reads
  <2> QED
    BY <1>0, <1>2, <2>1 DEF ForgetCheck, DropCheck, CheckPrUnknown, Shape
<1>3. CASE CloseCheck
  <2>1. mem.check \in DOMAIN chk
    <3>1. mem.check \in Nat /\ chk \in Seq(CheckRuns)
      BY DEF Shape, States
    <3>2. mem.check # 0 /\ mem.check <= Len(chk)
      BY <1>3 DEF CloseCheck, Pointers
    <3> QED
      BY <3>1, <3>2, LenProperties
  <2>2. PICK rec : rec = [chk[mem.check] EXCEPT !.st = "closed"]
    OBVIOUS
  <2>3. rec \in CheckRuns
    BY <1>00, <2>1, <2>2 DEF CheckRuns
  <2>4. chk' = [chk EXCEPT ![mem.check] = rec]
    BY <1>3, <2>2 DEF CloseCheck
  <2>5. chk' \in Seq(CheckRuns)
    <3>1. chk \in Seq(CheckRuns)
      BY DEF Shape
    <3> QED
      BY <1>00, <2>1, <2>3, <2>4, <3>1, CheckUpdated
  <2> QED
    BY <1>0, <1>3, <2>5 DEF CloseCheck, Shape
<1>4. CASE MarkCollected
  <2>1. mem' \in States
    BY <1>4, CollectReads DEF Reads
  <2> QED
    BY <1>0, <1>4, <2>1 DEF MarkCollected, Shape
<1>5. CASE RerouteCheck \/ CheckProviderFails
  BY <1>0, <1>5 DEF RerouteCheck, CheckProviderFails, Shape
<1>6. CASE ApplyCheck
  BY <1>0, <1>6, ApplyCheckIs DEF ApplyCheck, Shape
<1>7. CASE SaveCheck
  BY <1>0, <1>7 DEF SaveCheck, Shape
<1>8. CASE FinishCheck
  <2>1. mem' \in States
    BY <1>8, FinishReads DEF Reads
  <2> QED
    BY <1>0, <1>8, <2>1 DEF FinishCheck, Shape
<1>9. CASE PushRevision
  <2>1. mem' \in States
    BY <1>9, ResetReads DEF Reads
  <2>2. gh' \in Provider
    BY <1>9, HeadPushed DEF PushRevision, Shape
  <2>3. run' \in WorkerRuns
    BY <1>9 DEF PushRevision, Shape, WorkerRuns
  <2> QED
    BY <1>0, <1>9, <2>1, <2>2, <2>3 DEF PushRevision, Shape
<1>10. CASE UpdatePr
  <2>1. mem' \in States
    BY <1>10, UpdateReads DEF Reads
  <2>2. gh' \in Provider
    <3>1. now \in 0..MaxTime
      BY FeedbackAssumption DEF Shape
    <3> QED
      BY <1>10, <3>1 DEF UpdatePr, Shape, Provider
  <2>3. task' \in [status : Statuses, dispatched : Nat]
    BY <1>0, <1>10 DEF UpdatePr, Shape
  <2>4. ghost' \in History
    <3>1. run.brief \in SUBSET Parts /\ ghost.finished \in [Trusted -> Nat]
      BY DEF Shape, WorkerRuns, History
    <3>2. PICK f : f = [c \in Trusted |-> IF c \in run.brief THEN ghost.finished[c] + 1
                                          ELSE ghost.finished[c]]
      OBVIOUS
    <3>3. f \in [Trusted -> Nat]
      BY <3>1, <3>2
    <3>4. ghost' = [ghost EXCEPT !.finished = f, !.delivered = @ \cup run.brief]
      BY <1>10, <3>2 DEF UpdatePr
    <3> QED
      BY <3>1, <3>3, <3>4 DEF Shape, History
  <2> QED
    BY <1>0, <1>10, <2>1, <2>2, <2>3, <2>4 DEF UpdatePr, Shape
<1>11. CASE FailRevision
  <2>1. mem' \in States
    BY <1>11, ResetReads DEF Reads
  <2>2. task' \in [status : Statuses, dispatched : Nat]
    BY <1>0, <1>11 DEF FailRevision, Shape
  <2>3. ghost' \in History
    <3>1. run.brief \in SUBSET Parts
      BY DEF Shape, WorkerRuns
    <3> QED
      BY <1>11, <3>1 DEF FailRevision, Shape, History
  <2> QED
    BY <1>0, <1>11, <2>1, <2>2, <2>3 DEF FailRevision, Shape
<1>12. CASE EnvStop
  <2>1. mem' \in States
    BY <1>12, RestoreReads DEF Reads
  <2>2. run' \in WorkerRuns
    BY <1>12 DEF EnvStop, Shape, WorkerRuns
  <2> QED
    BY <1>0, <1>12, <2>1, <2>2 DEF EnvStop, Shape
<1>13. CASE EnvStopTransition
  <2>1. task' \in [status : Statuses, dispatched : Nat]
    BY <1>0, <1>13 DEF EnvStopTransition, Shape
  <2> QED
    BY <1>0, <1>13, <2>1 DEF EnvStopTransition, Shape
<1>14. CASE Sweep
  <2>1. \A k \in DOMAIN chk : chk'[k] \in CheckRuns
    BY <1>00, <1>14 DEF Sweep, CheckRuns
  <2>2. chk' \in Seq(CheckRuns)
    <3>1. chk \in Seq(CheckRuns) /\ DOMAIN chk' = DOMAIN chk
          /\ chk' = [k \in DOMAIN chk |-> chk'[k]]
      BY <1>14 DEF Shape, Sweep
    <3> QED
      BY <2>1, <3>1, CheckUpdated
  <2>3. run' \in WorkerRuns
    BY <1>0, <1>14 DEF Sweep, Shape
  <2> QED
    BY <1>0, <1>14, <2>2, <2>3 DEF Sweep, Shape
<1> QED
  BY <1>1, <1>2, <1>3, <1>4, <1>5, <1>6, <1>7, <1>8, <1>9, <1>10, <1>11, <1>12, <1>13, <1>14
  DEF Reap

\* The poll keeps the shape of the state.
LEMMA PollShape ==
  ASSUME Shape, Pointers, Poll
  PROVE  Shape'
<1>0. {"poll", "dispatch", "checking"} \subseteq Places
  BY DEF Places
<1>1. CASE RefreshFails \/ SaveCheckPointer
  BY <1>0, <1>1 DEF RefreshFails, SaveCheckPointer, Shape
<1>2. CASE RefreshOpenPrs
  <2>1. PICK history \in SUBSET Trusted :
           /\ mem' \in States /\ ghost' = [ghost EXCEPT !.historical = @ \cup history]
           /\ obs' \in Observations
    BY <1>2, RefreshReads DEF Reads
  <2>2. ghost' \in History
    BY <2>1 DEF Shape, History
  <2> QED
    BY <1>0, <1>2, <2>1, <2>2 DEF RefreshOpenPrs, Shape
<1>3. CASE PollSkips
  <2>1. mem' \in States
    BY <1>3, SkipReads DEF Reads, Shape
  <2> QED
    BY <1>0, <1>3, <2>1 DEF PollSkips, Shape
<1>4. CASE PollApplies
  BY <1>0, <1>4, PollAppliesIs DEF PollApplies, Shape
<1>5. CASE PollStartsCheck
  <2>1. mem' \in States
    BY <1>5, StartsReads DEF Reads
  <2>2. NewCheck(obs.head, MayRerun) \in CheckRuns /\ obs.head \in Nat
    BY DEF NewCheck, MayRerun, CheckRuns, Shape, Observations
  <2>3. chk' \in Seq(CheckRuns)
    BY <1>5, <2>2, AppendProperties DEF PollStartsCheck, Shape
  <2>4. left' \in BoundSet
    <3>1. left.checks \in Nat /\ left.checks > 0
      BY <1>5 DEF PollStartsCheck, Shape, BoundSet
    <3>2. PICK n \in Nat : n = left.checks - 1
      BY <3>1
    <3> QED
      BY <1>5, <3>2 DEF PollStartsCheck, Shape, BoundSet
  <2>5. ghost' \in History
    BY <1>5, <2>2 DEF PollStartsCheck, Shape, History
  <2> QED
    BY <1>0, <1>5, <2>1, <2>3, <2>4, <2>5 DEF PollStartsCheck, Shape
<1>6. CASE PollDefersCheck
  <2>1. mem' \in States
    BY <1>6, CiObservedIs DEF PollDefersCheck
  <2> QED
    BY <1>0, <1>6, <2>1 DEF PollDefersCheck, Shape
<1> QED
  BY <1>1, <1>2, <1>3, <1>4, <1>5, <1>6 DEF Poll

\* So do the start of a pass, the dispatch of a round, the pass's end and a kill.
LEMMA DispatchShape ==
  ASSUME Shape, Pointers, TickStart \/ Dispatch \/ TickEnd \/ Crash
  PROVE  Shape'
<1>0. /\ {"idle", "reap", "audit", "started", "transitioned"} \subseteq Places
      /\ "running" \in Statuses /\ NoObs \in Observations
  BY DEF Places, Statuses, NoObs, Observations
<1>1. CASE TickStart
  BY <1>0, <1>1 DEF TickStart, Shape
<1>2. CASE DispatchNothing \/ DispatchSave
  BY <1>0, <1>2 DEF DispatchNothing, DispatchSave, Shape
<1>3. CASE DispatchStart
  <2>1. mem' \in States
    BY <1>3, DispatchReads DEF Reads
  <2>2. run' \in WorkerRuns
    <3>1. Pending(mem) \in SUBSET Parts
      BY DEF Pending, Shape, States
    <3> QED
      BY <1>3, <3>1 DEF DispatchStart, WorkerRuns
  <2>3. left' \in BoundSet
    <3>1. left.runs \in Nat /\ left.runs > 0
      BY <1>3 DEF DispatchStart, Shape, BoundSet
    <3>2. PICK n \in Nat : n = left.runs - 1
      BY <3>1
    <3> QED
      BY <1>3, <3>2 DEF DispatchStart, Shape, BoundSet
  <2> QED
    BY <1>0, <1>3, <2>1, <2>2, <2>3 DEF DispatchStart, Shape
<1>4. CASE DispatchTransition
  <2>1. now \in Nat
    BY FeedbackAssumption DEF Shape
  <2> QED
    BY <1>0, <1>4, <2>1 DEF DispatchTransition, Shape
<1>5. CASE TickEnd
  <2>1. mem' \in States
    BY <1>5, AuditReads DEF Reads
  <2> QED
    BY <1>0, <1>5, <2>1 DEF TickEnd, Shape
<1>6. CASE Crash
  <2>1. left' \in BoundSet
    <3>1. left.crash \in Nat /\ left.crash > 0
      BY <1>6 DEF Crash, Shape, BoundSet
    <3>2. PICK n \in Nat : n = left.crash - 1
      BY <3>1
    <3> QED
      BY <1>6, <3>2 DEF Crash, Shape, BoundSet
  <2>2. ghost' \in History
    BY <1>6 DEF Crash, Shape, History
  <2> QED
    BY <1>0, <1>6, <2>1, <2>2 DEF Crash, Shape
<1> QED
  BY <1>1, <1>2, <1>3, <1>4, <1>5, <1>6 DEF Dispatch

\* So do the operator's commands.
LEMMA OperatorShape ==
  ASSUME Shape, Operator
  PROVE  Shape' /\ Len(chk') = Len(chk)
<1>1. left.human > 0 => [left EXCEPT !.human = @ - 1] \in BoundSet
  <2>1. left.human \in Nat
    BY DEF Shape, BoundSet
  <2>2. ASSUME left.human > 0 PROVE [left EXCEPT !.human = @ - 1] \in BoundSet
    <3>1. PICK n \in Nat : n = left.human - 1
      BY <2>1, <2>2
    <3> QED
      BY <3>1 DEF Shape, BoundSet
  <2> QED
    BY <2>2
<1>2. CASE Retry
  <2>1. disk' \in States
    BY <1>2, RetryReads DEF Reads
  <2>2. \A j \in DOMAIN chk : chk[j] \in CheckRuns
    BY LenProperties, ElementOfSeq DEF Shape
  <2>3. \A k \in DOMAIN chk : chk'[k] \in CheckRuns
    BY <1>2, <2>2 DEF Retry, CheckRuns
  <2>4. chk' \in Seq(CheckRuns) /\ Len(chk') = Len(chk)
    <3>1. chk \in Seq(CheckRuns) /\ DOMAIN chk' = DOMAIN chk
          /\ chk' = [k \in DOMAIN chk |-> chk'[k]]
      BY <1>2 DEF Shape, Retry
    <3> QED
      BY <2>3, <3>1, CheckUpdated
  <2>5. NoRun \in WorkerRuns /\ "changes_requested" \in Statuses
    BY DEF NoRun, WorkerRuns, Statuses
  <2>6. task' \in [status : Statuses, dispatched : Nat]
    BY <1>2, <2>5 DEF Retry, Shape
  <2>7. run' \in WorkerRuns
    BY <1>2, <2>5 DEF Retry, Shape
  <2>8. mem' \in States /\ left' \in BoundSet
    BY <1>1, <1>2, <2>1 DEF Retry
  <2> QED
    BY <1>2, <2>1, <2>4, <2>6, <2>7, <2>8 DEF Retry, Shape
<1>3. CASE ReserveManual \/ ReturnToAutomation
  <2>1. disk' \in States
    BY <1>3, ReserveReads DEF Reads
  <2>2. mem' \in States /\ left' \in BoundSet
    BY <1>1, <1>3, <2>1 DEF ReserveManual, ReturnToAutomation, Shape
  <2> QED
    BY <1>3, <2>1, <2>2 DEF ReserveManual, ReturnToAutomation, Shape
<1> QED
  BY <1>2, <1>3 DEF Operator

\* Every step keeps the shape of the state.
LEMMA ShapeStep ==
  ASSUME Shape, Pointers, [Next]_vars
  PROVE  Shape'
<1>1. CASE UNCHANGED vars
  BY <1>1 DEF Shape, vars
<1>2. CASE World \/ Exits
  <2>1. OuterShape' /\ UNCHANGED <<mem, disk>>
    BY <1>2, OutsideShape
  <2> QED
    BY <2>1 DEF Shape, OuterShape
<1> QED
  BY <1>1, <1>2, ReapShape, PollShape, DispatchShape, OperatorShape DEF Next, Tick

-----------------------------------------------------------------------------
(* Feedback rounds: where the pass is.                                     *)

\* Where the copy equals the file.
Steady == {"idle", "reap", "closing", "collected", "saved", "restored"}

\* What is known of the pass, the task and its worker run wherever the controller
\* is, and whenever it is killed.
Control ==
    /\ pc \in Steady => mem = disk
    /\ mem.envs = disk.envs
    /\ disk.seen \subseteq mem.seen
    /\ pc = "started" => task.status = "changes_requested" /\ mem.check = 0 /\ run.st # "none"
    /\ pc \in {"pushed", "restored"} =>
         task.status = "running" /\ mem.check = 0 /\ run.st \in {"exited", "parked"}
    /\ pc = "pushed" => run.res = "done"
    /\ pc \in {"applied", "saved"} =>
         /\ task.status \in {"in_review", "changes_requested"}
         /\ mem.check \in mem.applied
         /\ obs.items \subseteq Pending(mem)
         /\ task.status = "in_review" => obs.items = {}
    /\ task.status = "running" => run.st # "none"
    /\ run.st = "parked" => task.status = "running"
    /\ run.res = "env_error" => run.st \in {"exited", "parked"}

\* Every step keeps it.
LEMMA ControlStep ==
  ASSUME Shape, Pointers, Control, [Next]_vars
  PROVE  Control'
<1>0. task \in [status : Statuses, dispatched : Nat] /\ run \in WorkerRuns
  BY DEF Shape
<1>1. CASE UNCHANGED vars
  BY <1>1 DEF Control, Steady, WorkerRuns, vars
<1>2. CASE Clock \/ HumanPush
  BY <1>0, <1>2 DEF Control, Steady, WorkerRuns, Clock, HumanPush
<1>3. ASSUME NEW c \in Comments, Comment(c) PROVE Control'
  BY <1>0, <1>3 DEF Control, Steady, WorkerRuns, Comment
<1>4. ASSUME NEW result \in {"SUCCESS", "FAILURE"}, CiFinishes(result) PROVE Control'
  BY <1>0, <1>4 DEF Control, Steady, WorkerRuns, CiFinishes
<1>5. ASSUME NEW result \in {"done", "failed", "env_error"}, WorkerExits(result) PROVE Control'
  BY <1>0, <1>5 DEF Control, Steady, WorkerRuns, WorkerExits
<1>6. ASSUME NEW k \in DOMAIN chk, NEW flaky \in BOOLEAN, CheckExits(k, flaky) PROVE Control'
  BY <1>0, <1>6 DEF Control, Steady, WorkerRuns, CheckExits
<1>7. CASE ReapNothing
  BY <1>0, <1>7 DEF Control, Steady, WorkerRuns, ReapNothing, Reapable
<1>8. CASE ForgetCheck \/ DropCheck \/ CheckPrUnknown
  <2>1. Reads(mem', mem.seen, Pending(mem), mem.envs, 0, mem.applied, FALSE, mem.head, mem.ciAt)
    BY <1>8, ClearReads
  <2> QED
    BY <1>0, <1>8, <2>1
    DEF Control, Steady, WorkerRuns, ForgetCheck, DropCheck, CheckPrUnknown, Reads
<1>9. CASE CloseCheck
  BY <1>0, <1>9 DEF Control, Steady, WorkerRuns, CloseCheck
<1>10. CASE MarkCollected
  <2>1. Reads(mem', mem.seen, Pending(mem), mem.envs, mem.check, mem.applied, TRUE,
              mem.head, mem.ciAt)
    BY <1>10, CollectReads
  <2> QED
    BY <1>0, <1>10, <2>1 DEF Control, Steady, WorkerRuns, MarkCollected, Reads
<1>11. CASE RerouteCheck \/ CheckProviderFails
  BY <1>0, <1>11 DEF Control, Steady, WorkerRuns, RerouteCheck, CheckProviderFails
<1>12. CASE ApplyCheck
  BY <1>0, <1>12, ApplyCheckIs DEF Control, Steady, WorkerRuns, ApplyCheck, Reads, Queued
<1>13. CASE SaveCheck
  BY <1>0, <1>13 DEF Control, Steady, WorkerRuns, SaveCheck
<1>14. CASE FinishCheck
  <2>1. Reads(mem', mem.seen \cup obs.items, Pending(mem), mem.envs, 0, mem.applied, FALSE,
              mem.head, mem.ciAt)
    BY <1>14, FinishReads
  <2> QED
    BY <1>0, <1>14, <2>1 DEF Control, Steady, WorkerRuns, FinishCheck, Reads
<1>15. CASE PushRevision
  <2>1. Reads(mem', mem.seen, Pending(mem), 0, mem.check, mem.applied, mem.collected,
              mem.head, mem.ciAt)
    BY <1>15, ResetReads
  <2> QED
    BY <1>0, <1>15, <2>1 DEF Control, Steady, WorkerRuns, PushRevision, Reapable, Reads
<1>16. CASE UpdatePr
  <2>1. Reads(mem', mem.seen, Pending(mem), mem.envs, mem.check, mem.applied,
              mem.collected, gh.head, mem.ciAt)
    BY <1>16, UpdateReads
  <2> QED
    BY <1>0, <1>16, <2>1 DEF Control, Steady, WorkerRuns, UpdatePr, NoRun, Reads
<1>17. CASE FailRevision
  <2>1. Reads(mem', mem.seen, Pending(mem), 0, mem.check, mem.applied, mem.collected,
              mem.head, mem.ciAt)
    BY <1>17, ResetReads
  <2> QED
    BY <1>0, <1>17, <2>1 DEF Control, Steady, WorkerRuns, FailRevision, Reapable, NoRun, Reads
<1>18. CASE EnvStop
  <2>1. PICK pending \in {Pending(mem), run.brief} :
         /\ Reads(mem', mem.seen, pending, mem.envs + 1, mem.check, mem.applied,
                  mem.collected, mem.head, mem.ciAt)
         /\ pending = run.brief \/ mem.envs + 1 >= EnvCap
    BY <1>18, RestoreReads
  <2> QED
    BY <1>0, <1>18, <2>1 DEF Control, Steady, WorkerRuns, EnvStop, Reapable, Reads
<1>19. CASE EnvStopTransition
  BY <1>0, <1>19 DEF Control, Steady, WorkerRuns, EnvStopTransition, NoRun
<1>20. CASE Sweep
  BY <1>0, <1>20 DEF Control, Steady, WorkerRuns, Sweep, NoRun
<1>21. CASE RefreshFails
  BY <1>0, <1>21 DEF Control, Steady, WorkerRuns, RefreshFails
<1>22. CASE RefreshOpenPrs
  <2>1. PICK history \in SUBSET Trusted :
         Reads(mem', mem.seen \cup history, Pending(mem), mem.envs, mem.check, mem.applied,
                 mem.collected, mem.head, mem.ciAt)
        /\ ghost' = [ghost EXCEPT !.historical = @ \cup history]
        /\ obs'.items \cap (mem.seen \cup history) = {}
        /\ obs'.head = gh.head
    BY <1>22, RefreshReads
  <2> QED
    BY <1>0, <1>22, <2>1 DEF Control, Steady, WorkerRuns, RefreshOpenPrs, Reads
<1>23. CASE PollSkips
  BY <1>0, <1>23, SkipReads DEF Control, Steady, WorkerRuns, PollSkips, Reads, Queued
<1>24. CASE PollApplies
  BY <1>0, <1>24, PollAppliesIs DEF Control, Steady, WorkerRuns, PollApplies, Reads, Queued
<1>25. CASE PollStartsCheck
  <2>1. PICK at \in Nat :
         Reads(mem', mem.seen, Pending(mem), mem.envs, Len(chk) + 1, mem.applied, FALSE,
               obs.head, at)
         /\ (at \in {mem.ciAt, 0} \/ at = obs.head)
    BY <1>25, StartsReads
  <2> QED
    BY <1>0, <1>25, <2>1 DEF Control, Steady, WorkerRuns, PollStartsCheck, InReviewFlow, Reads
<1>26. CASE PollDefersCheck
  <2>1. PICK at \in Nat :
         Reads(CiObserved, mem.seen, Pending(mem), mem.envs, mem.check, mem.applied,
               mem.collected, obs.head, at)
    BY <1>26, ObservedReads
  <2> QED
    BY <1>0, <1>26, <2>1 DEF Control, Steady, WorkerRuns, PollDefersCheck, InReviewFlow, Reads
<1>27. CASE SaveCheckPointer
  BY <1>0, <1>27 DEF Control, Steady, WorkerRuns, SaveCheckPointer
<1>28. CASE TickStart
  BY <1>0, <1>28 DEF Control, Steady, WorkerRuns, TickStart
<1>29. CASE DispatchNothing
  BY <1>0, <1>29 DEF Control, Steady, WorkerRuns, DispatchNothing
<1>30. CASE DispatchStart
  <2>1. Reads(mem', mem.seen, {}, mem.envs, mem.check, mem.applied, mem.collected,
              mem.head, mem.ciAt)
    BY <1>30, DispatchReads
  <2> QED
    BY <1>0, <1>30, <2>1
    DEF Control, Steady, WorkerRuns, DispatchStart, Dispatchable, RunInFlight, Reads
<1>31. CASE DispatchTransition
  BY <1>0, <1>31 DEF Control, Steady, WorkerRuns, DispatchTransition
<1>32. CASE DispatchSave
  BY <1>0, <1>32 DEF Control, Steady, WorkerRuns, DispatchSave
<1>33. CASE TickEnd
  <2>1. Reads(mem', mem.seen, Pending(mem), mem.envs, mem.check, mem.applied,
              mem.collected, mem.head, mem.ciAt)
    BY <1>33, AuditReads
  <2> QED
    BY <1>0, <1>33, <2>1 DEF Control, Steady, WorkerRuns, TickEnd, Reads
<1>34. CASE Crash
  BY <1>0, <1>34 DEF Control, Steady, WorkerRuns, Crash
<1>35. CASE Retry
  <2>1. PICK pending \in SUBSET Parts :
         /\ Pending(disk) \subseteq pending /\ pending \subseteq Pending(disk) \cup {Note}
         /\ Reads(disk', disk.seen, pending, disk.envs, disk.check, disk.applied,
                  disk.collected, disk.head, disk.ciAt)
    BY <1>35, RetryReads
  <2> QED
    BY <1>0, <1>35, <2>1 DEF Control, Steady, WorkerRuns, Retry, NoRun, RunInFlight, Reads
<1>36. CASE ReserveManual \/ ReturnToAutomation
  <2>1. Reads(disk', disk.seen, Pending(disk), disk.envs, disk.check, disk.applied,
              disk.collected, disk.head, disk.ciAt)
    BY <1>36, ReserveReads
  <2> QED
    BY <1>0, <1>36, <2>1 DEF Control, Steady, WorkerRuns, ReserveManual, ReturnToAutomation, Reads
<1> QED
  BY <1>1, <1>2, <1>3, <1>4, <1>5, <1>6, <1>7, <1>8, <1>9, <1>10, <1>11, <1>12, <1>13, <1>14,
     <1>15, <1>16, <1>17, <1>18, <1>19, <1>20, <1>21, <1>22, <1>23, <1>24, <1>25, <1>26, <1>27,
     <1>28, <1>29, <1>30, <1>31, <1>32, <1>33, <1>34, <1>35, <1>36
  DEF Next, Tick, Reap, Poll, Dispatch, World, Exits, Operator

\* A list's length is known from its domain.
LEMMA SameLength ==
  ASSUME NEW m \in Nat, NEW n \in Nat, 1..m = 1..n
  PROVE  m = n
<1>1. m \in 1..m \/ m = 0
  OBVIOUS
<1>2. n \in 1..n \/ n = 0
  OBVIOUS
<1> QED
  BY <1>1, <1>2

\* The steps that touch the list of check runs.
LEMMA ChecksTouched ==
  ASSUME [Next]_vars
  PROVE  \/ PollStartsCheck \/ Sweep \/ Retry \/ CloseCheck \/ UNCHANGED chk
         \/ \E k \in DOMAIN chk, flaky \in BOOLEAN : CheckExits(k, flaky)
<1>1. Reap => Sweep \/ CloseCheck \/ UNCHANGED chk
  BY DEF Reap, ReapNothing, ForgetCheck, MarkCollected, RerouteCheck, DropCheck,
         CheckPrUnknown, CheckProviderFails, ApplyCheck, SaveCheck, FinishCheck, PushRevision,
         UpdatePr, FailRevision, EnvStop, EnvStopTransition
<1>2. Poll => PollStartsCheck \/ UNCHANGED chk
  BY DEF Poll, RefreshFails, RefreshOpenPrs, PollSkips, PollApplies, PollDefersCheck,
         SaveCheckPointer
<1>3. Dispatch \/ TickStart \/ TickEnd \/ Crash => UNCHANGED chk
  BY DEF Dispatch, DispatchNothing, DispatchStart, DispatchTransition, DispatchSave,
         TickStart, TickEnd, Crash
<1>4. World => UNCHANGED chk
  BY DEF World, Clock, Comment, CiFinishes, HumanPush
<1>5. Exits => UNCHANGED chk \/ \E k \in DOMAIN chk, flaky \in BOOLEAN : CheckExits(k, flaky)
  BY DEF Exits, WorkerExits
<1>6. Operator => Retry \/ UNCHANGED chk
  BY DEF Operator, ReserveManual, ReturnToAutomation
<1>7. UNCHANGED vars => UNCHANGED chk
  BY DEF vars
<1> QED
  BY <1>1, <1>2, <1>3, <1>4, <1>5, <1>6, <1>7 DEF Next, Tick

\* The list of check runs only grows, and keeps the heads it was started for.
LEMMA ChecksGrow ==
  ASSUME Shape, Pointers, [Next]_vars
  PROVE  /\ \/ Len(chk') = Len(chk) /\ \A k \in DOMAIN chk : chk'[k].head = chk[k].head
            \/ PollStartsCheck
         /\ DOMAIN chk = 1..Len(chk) /\ Len(chk) \in Nat
         /\ DOMAIN chk' = 1..Len(chk') /\ Len(chk') \in Nat
<1>0. chk \in Seq(CheckRuns) /\ chk' \in Seq(CheckRuns)
  BY ShapeStep DEF Shape
<1>1. /\ DOMAIN chk = 1..Len(chk) /\ Len(chk) \in Nat
      /\ DOMAIN chk' = 1..Len(chk') /\ Len(chk') \in Nat
  BY <1>0, LenProperties
<1>2. \A k \in DOMAIN chk : chk[k] \in CheckRuns
  BY <1>0, <1>1, ElementOfSeq
<1> DEFINE Kept == Len(chk') = Len(chk) /\ \A k \in DOMAIN chk : chk'[k].head = chk[k].head
<1>3. ASSUME UNCHANGED chk PROVE Kept
  BY <1>3
<1>4. ASSUME NEW k \in DOMAIN chk, NEW flaky \in BOOLEAN, CheckExits(k, flaky) PROVE Kept
  <2>1. DOMAIN chk' = DOMAIN chk
    BY <1>4 DEF CheckExits
  <2>2. \A j \in DOMAIN chk : chk'[j].head = chk[j].head
    BY <1>2, <1>4 DEF CheckExits, CheckRuns
  <2> QED
    BY <1>1, <2>1, <2>2, SameLength
<1>5. ASSUME CloseCheck PROVE Kept
  <2>1. DOMAIN chk' = DOMAIN chk
    BY <1>5 DEF CloseCheck
  <2>2. \A j \in DOMAIN chk : chk'[j].head = chk[j].head
    BY <1>2, <1>5 DEF CloseCheck, CheckRuns
  <2> QED
    BY <1>1, <2>1, <2>2, SameLength
<1>6. ASSUME Sweep \/ Retry PROVE Kept
  <2>1. DOMAIN chk' = DOMAIN chk
    BY <1>6 DEF Sweep, Retry
  <2>2. \A j \in DOMAIN chk : chk'[j].head = chk[j].head
    BY <1>2, <1>6 DEF Sweep, Retry, CheckRuns
  <2> QED
    BY <1>1, <2>1, <2>2, SameLength
<1> HIDE DEF Kept
<1>8. Kept \/ PollStartsCheck
  BY <1>3, <1>4, <1>5, <1>6, ChecksTouched
<1> QED
  BY <1>1, <1>8 DEF Kept

\* The continuation keeps naming a run that was started.
LEMMA PointersStep ==
  ASSUME Shape, Pointers, [Next]_vars
  PROVE  Pointers'
<1>0. mem.check \in Nat /\ disk.check \in Nat
  BY DEF Shape, States
<1>00. /\ Len(chk) \in Nat /\ Len(chk') \in Nat
       /\ Len(chk') = Len(chk) \/ PollStartsCheck
       /\ PollStartsCheck => Len(chk') = Len(chk) + 1
  <2>1. PollStartsCheck => Len(chk') = Len(chk) + 1
    BY AppendProperties DEF Shape, PollStartsCheck
  <2> QED
    BY <2>1, ChecksGrow
<1>1. CASE UNCHANGED vars
  BY <1>1 DEF Pointers, vars
<1>2. CASE Clock \/ HumanPush
  BY <1>0, <1>00, <1>2 DEF Pointers, Clock, HumanPush
<1>3. ASSUME NEW c \in Comments, Comment(c) PROVE Pointers'
  BY <1>0, <1>00, <1>3 DEF Pointers, Comment
<1>4. ASSUME NEW result \in {"SUCCESS", "FAILURE"}, CiFinishes(result) PROVE Pointers'
  BY <1>0, <1>00, <1>4 DEF Pointers, CiFinishes
<1>5. ASSUME NEW result \in {"done", "failed", "env_error"}, WorkerExits(result) PROVE Pointers'
  BY <1>0, <1>00, <1>5 DEF Pointers, WorkerExits
<1>6. ASSUME NEW k \in DOMAIN chk, NEW flaky \in BOOLEAN, CheckExits(k, flaky) PROVE Pointers'
  BY <1>0, <1>00, <1>6 DEF Pointers, CheckExits
<1>7. CASE ReapNothing
  BY <1>0, <1>00, <1>7 DEF Pointers, ReapNothing, Reapable
<1>8. CASE ForgetCheck \/ DropCheck \/ CheckPrUnknown
  <2>1. Reads(mem', mem.seen, Pending(mem), mem.envs, 0, mem.applied, FALSE, mem.head, mem.ciAt)
    BY <1>8, ClearReads
  <2> QED
    BY <1>0, <1>00, <1>8, <2>1 DEF Pointers, ForgetCheck, DropCheck, CheckPrUnknown, Reads
<1>9. CASE CloseCheck
  BY <1>0, <1>00, <1>9 DEF Pointers, CloseCheck
<1>10. CASE MarkCollected
  <2>1. Reads(mem', mem.seen, Pending(mem), mem.envs, mem.check, mem.applied, TRUE,
              mem.head, mem.ciAt)
    BY <1>10, CollectReads
  <2> QED
    BY <1>0, <1>00, <1>10, <2>1 DEF Pointers, MarkCollected, Reads
<1>11. CASE RerouteCheck \/ CheckProviderFails
  BY <1>0, <1>00, <1>11 DEF Pointers, RerouteCheck, CheckProviderFails
<1>12. CASE ApplyCheck
  BY <1>0, <1>00, <1>12, ApplyCheckIs DEF Pointers, ApplyCheck, Reads, Queued
<1>13. CASE SaveCheck
  BY <1>0, <1>00, <1>13 DEF Pointers, SaveCheck
<1>14. CASE FinishCheck
  <2>1. Reads(mem', mem.seen \cup obs.items, Pending(mem), mem.envs, 0, mem.applied, FALSE,
              mem.head, mem.ciAt)
    BY <1>14, FinishReads
  <2> QED
    BY <1>0, <1>00, <1>14, <2>1 DEF Pointers, FinishCheck, Reads
<1>15. CASE PushRevision
  <2>1. Reads(mem', mem.seen, Pending(mem), 0, mem.check, mem.applied, mem.collected,
              mem.head, mem.ciAt)
    BY <1>15, ResetReads
  <2> QED
    BY <1>0, <1>00, <1>15, <2>1 DEF Pointers, PushRevision, Reapable, Reads
<1>16. CASE UpdatePr
  <2>1. Reads(mem', mem.seen, Pending(mem), mem.envs, mem.check, mem.applied,
              mem.collected, gh.head, mem.ciAt)
    BY <1>16, UpdateReads
  <2> QED
    BY <1>0, <1>00, <1>16, <2>1 DEF Pointers, UpdatePr, NoRun, Reads
<1>17. CASE FailRevision
  <2>1. Reads(mem', mem.seen, Pending(mem), 0, mem.check, mem.applied, mem.collected,
              mem.head, mem.ciAt)
    BY <1>17, ResetReads
  <2> QED
    BY <1>0, <1>00, <1>17, <2>1 DEF Pointers, FailRevision, Reapable, NoRun, Reads
<1>18. CASE EnvStop
  <2>1. PICK pending \in {Pending(mem), run.brief} :
         /\ Reads(mem', mem.seen, pending, mem.envs + 1, mem.check, mem.applied,
                  mem.collected, mem.head, mem.ciAt)
         /\ pending = run.brief \/ mem.envs + 1 >= EnvCap
    BY <1>18, RestoreReads
  <2> QED
    BY <1>0, <1>00, <1>18, <2>1 DEF Pointers, EnvStop, Reapable, Reads
<1>19. CASE EnvStopTransition
  BY <1>0, <1>00, <1>19 DEF Pointers, EnvStopTransition, NoRun
<1>20. CASE Sweep
  BY <1>0, <1>00, <1>20 DEF Pointers, Sweep, NoRun
<1>21. CASE RefreshFails
  BY <1>0, <1>00, <1>21 DEF Pointers, RefreshFails
<1>22. CASE RefreshOpenPrs
  <2>1. PICK history \in SUBSET Trusted :
         Reads(mem', mem.seen \cup history, Pending(mem), mem.envs, mem.check, mem.applied,
                 mem.collected, mem.head, mem.ciAt)
        /\ ghost' = [ghost EXCEPT !.historical = @ \cup history]
        /\ obs'.items \cap (mem.seen \cup history) = {}
        /\ obs'.head = gh.head
    BY <1>22, RefreshReads
  <2> QED
    BY <1>0, <1>00, <1>22, <2>1 DEF Pointers, RefreshOpenPrs, Reads
<1>23. CASE PollSkips
  BY <1>0, <1>00, <1>23, SkipReads DEF Pointers, PollSkips, Reads, Queued
<1>24. CASE PollApplies
  BY <1>0, <1>00, <1>24, PollAppliesIs DEF Pointers, PollApplies, Reads, Queued
<1>25. CASE PollStartsCheck
  <2>1. PICK at \in Nat :
         Reads(mem', mem.seen, Pending(mem), mem.envs, Len(chk) + 1, mem.applied, FALSE,
               obs.head, at)
         /\ (at \in {mem.ciAt, 0} \/ at = obs.head)
    BY <1>25, StartsReads
  <2> QED
    BY <1>0, <1>00, <1>25, <2>1 DEF Pointers, PollStartsCheck, InReviewFlow, Reads
<1>26. CASE PollDefersCheck
  <2>1. PICK at \in Nat :
         Reads(CiObserved, mem.seen, Pending(mem), mem.envs, mem.check, mem.applied,
               mem.collected, obs.head, at)
    BY <1>26, ObservedReads
  <2> QED
    BY <1>0, <1>00, <1>26, <2>1 DEF Pointers, PollDefersCheck, InReviewFlow, Reads
<1>27. CASE SaveCheckPointer
  BY <1>0, <1>00, <1>27 DEF Pointers, SaveCheckPointer
<1>28. CASE TickStart
  BY <1>0, <1>00, <1>28 DEF Pointers, TickStart
<1>29. CASE DispatchNothing
  BY <1>0, <1>00, <1>29 DEF Pointers, DispatchNothing
<1>30. CASE DispatchStart
  <2>1. Reads(mem', mem.seen, {}, mem.envs, mem.check, mem.applied, mem.collected,
              mem.head, mem.ciAt)
    BY <1>30, DispatchReads
  <2> QED
    BY <1>0, <1>00, <1>30, <2>1 DEF Pointers, DispatchStart, Dispatchable, RunInFlight, Reads
<1>31. CASE DispatchTransition
  BY <1>0, <1>00, <1>31 DEF Pointers, DispatchTransition
<1>32. CASE DispatchSave
  BY <1>0, <1>00, <1>32 DEF Pointers, DispatchSave
<1>33. CASE TickEnd
  <2>1. Reads(mem', mem.seen, Pending(mem), mem.envs, mem.check, mem.applied,
              mem.collected, mem.head, mem.ciAt)
    BY <1>33, AuditReads
  <2> QED
    BY <1>0, <1>00, <1>33, <2>1 DEF Pointers, TickEnd, Reads
<1>34. CASE Crash
  BY <1>0, <1>00, <1>34 DEF Pointers, Crash
<1>35. CASE Retry
  <2>1. PICK pending \in SUBSET Parts :
         /\ Pending(disk) \subseteq pending /\ pending \subseteq Pending(disk) \cup {Note}
         /\ Reads(disk', disk.seen, pending, disk.envs, disk.check, disk.applied,
                  disk.collected, disk.head, disk.ciAt)
    BY <1>35, RetryReads
  <2> QED
    BY <1>0, <1>00, <1>35, <2>1 DEF Pointers, Retry, NoRun, RunInFlight, Reads
<1>36. CASE ReserveManual \/ ReturnToAutomation
  <2>1. Reads(disk', disk.seen, Pending(disk), disk.envs, disk.check, disk.applied,
              disk.collected, disk.head, disk.ciAt)
    BY <1>36, ReserveReads
  <2> QED
    BY <1>0, <1>00, <1>36, <2>1 DEF Pointers, ReserveManual, ReturnToAutomation, Reads
<1> QED
  BY <1>1, <1>2, <1>3, <1>4, <1>5, <1>6, <1>7, <1>8, <1>9, <1>10, <1>11, <1>12, <1>13, <1>14,
     <1>15, <1>16, <1>17, <1>18, <1>19, <1>20, <1>21, <1>22, <1>23, <1>24, <1>25, <1>26, <1>27,
     <1>28, <1>29, <1>30, <1>31, <1>32, <1>33, <1>34, <1>35, <1>36
  DEF Next, Tick, Reap, Poll, Dispatch, World, Exits, Operator

-----------------------------------------------------------------------------
(* Feedback rounds: a seen comment is accounted for.                       *)

\* The cap on environment stops was reached only by a task that is, or is about to
\* be, handed to a person.
Capped ==
    disk.envs >= EnvCap => \/ task.status = "waiting_human"
                           \/ task.status = "running" /\ run.res = "env_error"

\* Every step keeps it.
LEMMA CappedStep ==
  ASSUME Shape, Pointers, Control, Capped, [Next]_vars
  PROVE  Capped'
<1>0. /\ task \in [status : Statuses, dispatched : Nat] /\ run \in WorkerRuns
      /\ EnvCap \in Nat \ {0}
  BY FeedbackAssumption DEF Shape
<1>00. mem.envs \in Nat /\ disk.envs \in Nat
  BY DEF Shape, States
<1>1. CASE UNCHANGED vars
  BY <1>1 DEF Control, Steady, Capped, WorkerRuns, vars
<1>2. CASE Clock \/ HumanPush
  BY <1>0, <1>00, <1>2 DEF Control, Steady, Capped, WorkerRuns, Clock, HumanPush
<1>3. ASSUME NEW c \in Comments, Comment(c) PROVE Capped'
  BY <1>0, <1>00, <1>3 DEF Control, Steady, Capped, WorkerRuns, Comment
<1>4. ASSUME NEW result \in {"SUCCESS", "FAILURE"}, CiFinishes(result) PROVE Capped'
  BY <1>0, <1>00, <1>4 DEF Control, Steady, Capped, WorkerRuns, CiFinishes
<1>5. ASSUME NEW result \in {"done", "failed", "env_error"}, WorkerExits(result) PROVE Capped'
  BY <1>0, <1>00, <1>5 DEF Control, Steady, Capped, WorkerRuns, WorkerExits
<1>6. ASSUME NEW k \in DOMAIN chk, NEW flaky \in BOOLEAN, CheckExits(k, flaky) PROVE Capped'
  BY <1>0, <1>00, <1>6 DEF Control, Steady, Capped, WorkerRuns, CheckExits
<1>7. CASE ReapNothing
  BY <1>0, <1>00, <1>7 DEF Control, Steady, Capped, WorkerRuns, ReapNothing, Reapable
<1>8. CASE ForgetCheck \/ DropCheck \/ CheckPrUnknown
  <2>1. Reads(mem', mem.seen, Pending(mem), mem.envs, 0, mem.applied, FALSE, mem.head, mem.ciAt)
    BY <1>8, ClearReads
  <2> QED
    BY <1>0, <1>00, <1>8, <2>1
    DEF Control, Steady, Capped, WorkerRuns, ForgetCheck, DropCheck, CheckPrUnknown, Reads
<1>9. CASE CloseCheck
  BY <1>0, <1>00, <1>9 DEF Control, Steady, Capped, WorkerRuns, CloseCheck
<1>10. CASE MarkCollected
  <2>1. Reads(mem', mem.seen, Pending(mem), mem.envs, mem.check, mem.applied, TRUE,
              mem.head, mem.ciAt)
    BY <1>10, CollectReads
  <2> QED
    BY <1>0, <1>00, <1>10, <2>1 DEF Control, Steady, Capped, WorkerRuns, MarkCollected, Reads
<1>11. CASE RerouteCheck \/ CheckProviderFails
  BY <1>0, <1>00, <1>11 DEF Control, Steady, Capped, WorkerRuns, RerouteCheck, CheckProviderFails
<1>12. CASE ApplyCheck
  BY <1>0, <1>00, <1>12, ApplyCheckIs
  DEF Control, Steady, Capped, WorkerRuns, ApplyCheck, Reads, Queued
<1>13. CASE SaveCheck
  BY <1>0, <1>00, <1>13 DEF Control, Steady, Capped, WorkerRuns, SaveCheck
<1>14. CASE FinishCheck
  <2>1. Reads(mem', mem.seen \cup obs.items, Pending(mem), mem.envs, 0, mem.applied, FALSE,
              mem.head, mem.ciAt)
    BY <1>14, FinishReads
  <2> QED
    BY <1>0, <1>00, <1>14, <2>1 DEF Control, Steady, Capped, WorkerRuns, FinishCheck, Reads
<1>15. CASE PushRevision
  <2>1. Reads(mem', mem.seen, Pending(mem), 0, mem.check, mem.applied, mem.collected,
              mem.head, mem.ciAt)
    BY <1>15, ResetReads
  <2> QED
    BY <1>0, <1>00, <1>15, <2>1
    DEF Control, Steady, Capped, WorkerRuns, PushRevision, Reapable, Reads
<1>16. CASE UpdatePr
  <2>1. Reads(mem', mem.seen, Pending(mem), mem.envs, mem.check, mem.applied,
              mem.collected, gh.head, mem.ciAt)
    BY <1>16, UpdateReads
  <2> QED
    BY <1>0, <1>00, <1>16, <2>1 DEF Control, Steady, Capped, WorkerRuns, UpdatePr, NoRun, Reads
<1>17. CASE FailRevision
  <2>1. Reads(mem', mem.seen, Pending(mem), 0, mem.check, mem.applied, mem.collected,
              mem.head, mem.ciAt)
    BY <1>17, ResetReads
  <2> QED
    BY <1>0, <1>00, <1>17, <2>1
    DEF Control, Steady, Capped, WorkerRuns, FailRevision, Reapable, NoRun, Reads
<1>18. CASE EnvStop
  <2>1. PICK pending \in {Pending(mem), run.brief} :
         /\ Reads(mem', mem.seen, pending, mem.envs + 1, mem.check, mem.applied,
                  mem.collected, mem.head, mem.ciAt)
         /\ pending = run.brief \/ mem.envs + 1 >= EnvCap
    BY <1>18, RestoreReads
  <2> QED
    BY <1>0, <1>00, <1>18, <2>1 DEF Control, Steady, Capped, WorkerRuns, EnvStop, Reapable, Reads
<1>19. CASE EnvStopTransition
  BY <1>0, <1>00, <1>19 DEF Control, Steady, Capped, WorkerRuns, EnvStopTransition, NoRun
<1>20. CASE Sweep
  BY <1>0, <1>00, <1>20 DEF Control, Steady, Capped, WorkerRuns, Sweep, NoRun
<1>21. CASE RefreshFails
  BY <1>0, <1>00, <1>21 DEF Control, Steady, Capped, WorkerRuns, RefreshFails
<1>22. CASE RefreshOpenPrs
  <2>1. PICK history \in SUBSET Trusted :
         Reads(mem', mem.seen \cup history, Pending(mem), mem.envs, mem.check, mem.applied,
                 mem.collected, mem.head, mem.ciAt)
        /\ ghost' = [ghost EXCEPT !.historical = @ \cup history]
        /\ obs'.items \cap (mem.seen \cup history) = {}
        /\ obs'.head = gh.head
    BY <1>22, RefreshReads
  <2> QED
    BY <1>0, <1>00, <1>22, <2>1 DEF Control, Steady, Capped, WorkerRuns, RefreshOpenPrs, Reads
<1>23. CASE PollSkips
  BY <1>0, <1>00, <1>23, SkipReads DEF Control, Steady, Capped, WorkerRuns, PollSkips, Reads, Queued
<1>24. CASE PollApplies
  BY <1>0, <1>00, <1>24, PollAppliesIs
  DEF Control, Steady, Capped, WorkerRuns, PollApplies, Reads, Queued
<1>25. CASE PollStartsCheck
  <2>1. PICK at \in Nat :
         Reads(mem', mem.seen, Pending(mem), mem.envs, Len(chk) + 1, mem.applied, FALSE,
               obs.head, at)
         /\ (at \in {mem.ciAt, 0} \/ at = obs.head)
    BY <1>25, StartsReads
  <2> QED
    BY <1>0, <1>00, <1>25, <2>1
    DEF Control, Steady, Capped, WorkerRuns, PollStartsCheck, InReviewFlow, Reads
<1>26. CASE PollDefersCheck
  <2>1. PICK at \in Nat :
         Reads(CiObserved, mem.seen, Pending(mem), mem.envs, mem.check, mem.applied,
               mem.collected, obs.head, at)
    BY <1>26, ObservedReads
  <2> QED
    BY <1>0, <1>00, <1>26, <2>1
    DEF Control, Steady, Capped, WorkerRuns, PollDefersCheck, InReviewFlow, Reads
<1>27. CASE SaveCheckPointer
  BY <1>0, <1>00, <1>27 DEF Control, Steady, Capped, WorkerRuns, SaveCheckPointer
<1>28. CASE TickStart
  BY <1>0, <1>00, <1>28 DEF Control, Steady, Capped, WorkerRuns, TickStart
<1>29. CASE DispatchNothing
  BY <1>0, <1>00, <1>29 DEF Control, Steady, Capped, WorkerRuns, DispatchNothing
<1>30. CASE DispatchStart
  <2>1. Reads(mem', mem.seen, {}, mem.envs, mem.check, mem.applied, mem.collected,
              mem.head, mem.ciAt)
    BY <1>30, DispatchReads
  <2> QED
    BY <1>0, <1>00, <1>30, <2>1
    DEF Control, Steady, Capped, WorkerRuns, DispatchStart, Dispatchable, RunInFlight, Reads
<1>31. CASE DispatchTransition
  BY <1>0, <1>00, <1>31 DEF Control, Steady, Capped, WorkerRuns, DispatchTransition
<1>32. CASE DispatchSave
  BY <1>0, <1>00, <1>32 DEF Control, Steady, Capped, WorkerRuns, DispatchSave
<1>33. CASE TickEnd
  <2>1. Reads(mem', mem.seen, Pending(mem), mem.envs, mem.check, mem.applied,
              mem.collected, mem.head, mem.ciAt)
    BY <1>33, AuditReads
  <2> QED
    BY <1>0, <1>00, <1>33, <2>1 DEF Control, Steady, Capped, WorkerRuns, TickEnd, Reads
<1>34. CASE Crash
  BY <1>0, <1>00, <1>34 DEF Control, Steady, Capped, WorkerRuns, Crash
<1>35. CASE Retry
  <2>1. PICK pending \in SUBSET Parts :
         /\ Pending(disk) \subseteq pending /\ pending \subseteq Pending(disk) \cup {Note}
         /\ Reads(disk', disk.seen, pending, disk.envs, disk.check, disk.applied,
                  disk.collected, disk.head, disk.ciAt)
    BY <1>35, RetryReads
  <2> QED
    BY <1>0, <1>00, <1>35, <2>1
    DEF Control, Steady, Capped, WorkerRuns, Retry, NoRun, RunInFlight, Reads
<1>36. CASE ReserveManual \/ ReturnToAutomation
  <2>1. Reads(disk', disk.seen, Pending(disk), disk.envs, disk.check, disk.applied,
              disk.collected, disk.head, disk.ciAt)
    BY <1>36, ReserveReads
  <2> QED
    BY <1>0, <1>00, <1>36, <2>1
    DEF Control, Steady, Capped, WorkerRuns, ReserveManual, ReturnToAutomation, Reads
<1> QED
  BY <1>1, <1>2, <1>3, <1>4, <1>5, <1>6, <1>7, <1>8, <1>9, <1>10, <1>11, <1>12, <1>13, <1>14,
     <1>15, <1>16, <1>17, <1>18, <1>19, <1>20, <1>21, <1>22, <1>23, <1>24, <1>25, <1>26, <1>27,
     <1>28, <1>29, <1>30, <1>31, <1>32, <1>33, <1>34, <1>35, <1>36
  DEF Next, Tick, Reap, Poll, Dispatch, World, Exits, Operator

\* Comments that were taken as history or reached a worker that ended.
Done == ghost.historical \cup ghost.delivered

\* What an entry has seen, by where the task is: in review, and while a verdict is
\* still to be applied, nothing is under way; in a round, the brief has the rest.
Accounted(s) ==
    /\ task.status = "in_review" => s.seen \subseteq Done
    /\ s.check # 0 /\ s.check \notin s.applied => s.seen \subseteq Done
    /\ task.status = "running" => s.seen \subseteq Done \cup run.brief

\* FeedbackKept with what makes it inductive: it is claimed of the copy as well,
\* and of a dispatch between its three writes.
KeptInv ==
    disk.envs < EnvCap =>
      /\ Accounted(mem) /\ Accounted(disk)
      /\ task.status # "running" => disk.seen \subseteq Done \cup Pending(disk)
      /\ task.status # "running" /\ pc # "started" => mem.seen \subseteq Done \cup Pending(mem)
      /\ pc = "started" => mem.seen \subseteq Done \cup run.brief
      /\ pc = "restored" => mem.seen \subseteq Done \cup Pending(mem)

\* Every step keeps it.
LEMMA KeptStep ==
  ASSUME Shape, Pointers, Control, Capped, KeptInv, [Next]_vars
  PROVE  KeptInv'
<1>0. /\ task \in [status : Statuses, dispatched : Nat] /\ run \in WorkerRuns
      /\ ghost \in History
      /\ EnvCap \in Nat \ {0}
  BY FeedbackAssumption DEF Shape
<1>00. mem.envs \in Nat /\ disk.envs \in Nat
  BY DEF Shape, States
<1>1. CASE UNCHANGED vars
  BY <1>1 DEF Control, Steady, Capped, KeptInv, Accounted, Done, WorkerRuns, History, vars
<1>2. CASE Clock \/ HumanPush
  BY <1>0, <1>00, <1>2
  DEF Control, Steady, Capped, KeptInv, Accounted, Done, WorkerRuns, History, Clock, HumanPush
<1>3. ASSUME NEW c \in Comments, Comment(c) PROVE KeptInv'
  BY <1>0, <1>00, <1>3
  DEF Control, Steady, Capped, KeptInv, Accounted, Done, WorkerRuns, History, Comment
<1>4. ASSUME NEW result \in {"SUCCESS", "FAILURE"}, CiFinishes(result) PROVE KeptInv'
  BY <1>0, <1>00, <1>4
  DEF Control, Steady, Capped, KeptInv, Accounted, Done, WorkerRuns, History, CiFinishes
<1>5. ASSUME NEW result \in {"done", "failed", "env_error"}, WorkerExits(result) PROVE KeptInv'
  BY <1>0, <1>00, <1>5
  DEF Control, Steady, Capped, KeptInv, Accounted, Done, WorkerRuns, History, WorkerExits
<1>6. ASSUME NEW k \in DOMAIN chk, NEW flaky \in BOOLEAN, CheckExits(k, flaky) PROVE KeptInv'
  BY <1>0, <1>00, <1>6
  DEF Control, Steady, Capped, KeptInv, Accounted, Done, WorkerRuns, History, CheckExits
<1>7. CASE ReapNothing
  BY <1>0, <1>00, <1>7
  DEF Control, Steady, Capped, KeptInv, Accounted, Done, WorkerRuns, History, ReapNothing,
      Reapable
<1>8. CASE ForgetCheck \/ DropCheck \/ CheckPrUnknown
  <2>1. Reads(mem', mem.seen, Pending(mem), mem.envs, 0, mem.applied, FALSE, mem.head, mem.ciAt)
    BY <1>8, ClearReads
  <2> QED
    BY <1>0, <1>00, <1>8, <2>1
    DEF Control, Steady, Capped, KeptInv, Accounted, Done, WorkerRuns, History, ForgetCheck,
        DropCheck, CheckPrUnknown, Reads
<1>9. CASE CloseCheck
  BY <1>0, <1>00, <1>9
  DEF Control, Steady, Capped, KeptInv, Accounted, Done, WorkerRuns, History, CloseCheck
<1>10. CASE MarkCollected
  <2>1. Reads(mem', mem.seen, Pending(mem), mem.envs, mem.check, mem.applied, TRUE,
              mem.head, mem.ciAt)
    BY <1>10, CollectReads
  <2> QED
    BY <1>0, <1>00, <1>10, <2>1
    DEF Control, Steady, Capped, KeptInv, Accounted, Done, WorkerRuns, History, MarkCollected,
        Reads
<1>11. CASE RerouteCheck \/ CheckProviderFails
  BY <1>0, <1>00, <1>11
  DEF Control, Steady, Capped, KeptInv, Accounted, Done, WorkerRuns, History, RerouteCheck,
      CheckProviderFails
<1>12. CASE ApplyCheck
  <2>1. /\ mem'.seen = mem.seen /\ mem'.envs = mem.envs /\ mem'.check = mem.check
        /\ mem'.applied = mem.applied \cup {mem.check}
        /\ task.status \in {"in_review", "changes_requested"}
        /\ task'.status \in {"in_review", "changes_requested"}
    BY <1>12, ApplyCheckIs
  <2>2. pc' = "applied" /\ UNCHANGED <<disk, run, ghost>> /\ mem = disk /\ mem.check # 0
        /\ mem.check \notin mem.applied
    BY <1>12 DEF ApplyCheck, CheckObsolete, Control, Steady, Pointers
  <2> QED
    BY <2>1, <2>2 DEF KeptInv, Accounted, Done
<1>13. CASE SaveCheck
  BY <1>0, <1>00, <1>13
  DEF Control, Steady, Capped, KeptInv, Accounted, Done, WorkerRuns, History, SaveCheck
<1>14. CASE FinishCheck
  <2>1. Reads(mem', mem.seen \cup obs.items, Pending(mem), mem.envs, 0, mem.applied, FALSE,
              mem.head, mem.ciAt)
    BY <1>14, FinishReads
  <2> QED
    BY <1>0, <1>00, <1>14, <2>1
    DEF Control, Steady, Capped, KeptInv, Accounted, Done, WorkerRuns, History, FinishCheck,
        Reads
<1>15. CASE PushRevision
  <2>1. Reads(mem', mem.seen, Pending(mem), 0, mem.check, mem.applied, mem.collected,
              mem.head, mem.ciAt)
    BY <1>15, ResetReads
  <2> QED
    BY <1>0, <1>00, <1>15, <2>1
    DEF Control, Steady, Capped, KeptInv, Accounted, Done, WorkerRuns, History, PushRevision,
        Reapable, Reads
<1>16. CASE UpdatePr
  <2>1. Reads(mem', mem.seen, Pending(mem), mem.envs, mem.check, mem.applied,
              mem.collected, gh.head, mem.ciAt)
    BY <1>16, UpdateReads
  <2> QED
    BY <1>0, <1>00, <1>16, <2>1
    DEF Control, Steady, Capped, KeptInv, Accounted, Done, WorkerRuns, History, UpdatePr, NoRun,
        Reads
<1>17. CASE FailRevision
  <2>1. Reads(mem', mem.seen, Pending(mem), 0, mem.check, mem.applied, mem.collected,
              mem.head, mem.ciAt)
    BY <1>17, ResetReads
  <2> QED
    BY <1>0, <1>00, <1>17, <2>1
    DEF Control, Steady, Capped, KeptInv, Accounted, Done, WorkerRuns, History, FailRevision,
        Reapable, NoRun, Reads
<1>18. CASE EnvStop
  <2>1. PICK pending \in {Pending(mem), run.brief} :
         /\ Reads(mem', mem.seen, pending, mem.envs + 1, mem.check, mem.applied,
                  mem.collected, mem.head, mem.ciAt)
         /\ pending = run.brief \/ mem.envs + 1 >= EnvCap
    BY <1>18, RestoreReads
  <2> QED
    BY <1>0, <1>00, <1>18, <2>1
    DEF Control, Steady, Capped, KeptInv, Accounted, Done, WorkerRuns, History, EnvStop,
        Reapable, Reads
<1>19. CASE EnvStopTransition
  BY <1>0, <1>00, <1>19
  DEF Control, Steady, Capped, KeptInv, Accounted, Done, WorkerRuns, History, EnvStopTransition,
      NoRun
<1>20. CASE Sweep
  BY <1>0, <1>00, <1>20
  DEF Control, Steady, Capped, KeptInv, Accounted, Done, WorkerRuns, History, Sweep, NoRun
<1>21. CASE RefreshFails
  BY <1>0, <1>00, <1>21
  DEF Control, Steady, Capped, KeptInv, Accounted, Done, WorkerRuns, History, RefreshFails
<1>22. CASE RefreshOpenPrs
  <2>1. PICK history \in SUBSET Trusted :
         Reads(mem', mem.seen \cup history, Pending(mem), mem.envs, mem.check, mem.applied,
               mem.collected, mem.head, mem.ciAt)
         /\ ghost' = [ghost EXCEPT !.historical = @ \cup history]
    BY <1>22, RefreshReads
  <2>2. Done' = Done \cup history
    BY <1>0, <2>1 DEF Done, History
  <2>3. pc = "refresh" /\ pc' = "poll" /\ UNCHANGED <<disk, run, task>>
    BY <1>22 DEF RefreshOpenPrs
  <2> QED
    BY <2>1, <2>2, <2>3 DEF KeptInv, Accounted, Reads
<1>23. CASE PollSkips
  BY <1>0, <1>00, <1>23, SkipReads
  DEF Control, Steady, Capped, KeptInv, Accounted, Done, WorkerRuns, History, PollSkips, Reads,
      Queued
<1>24. CASE PollApplies
  BY <1>0, <1>00, <1>24, PollAppliesIs
  DEF Control, Steady, Capped, KeptInv, Accounted, Done, WorkerRuns, History, PollApplies,
      Reads, Queued
<1>25. CASE PollStartsCheck
  <2>1. PICK at \in Nat :
         Reads(mem', mem.seen, Pending(mem), mem.envs, Len(chk) + 1, mem.applied, FALSE,
               obs.head, at)
         /\ (at \in {mem.ciAt, 0} \/ at = obs.head)
    BY <1>25, StartsReads
  <2> QED
    BY <1>0, <1>00, <1>25, <2>1
    DEF Control, Steady, Capped, KeptInv, Accounted, Done, WorkerRuns, History, PollStartsCheck,
        InReviewFlow, Reads
<1>26. CASE PollDefersCheck
  <2>1. PICK at \in Nat :
         Reads(CiObserved, mem.seen, Pending(mem), mem.envs, mem.check, mem.applied,
               mem.collected, obs.head, at)
    BY <1>26, ObservedReads
  <2> QED
    BY <1>0, <1>00, <1>26, <2>1
    DEF Control, Steady, Capped, KeptInv, Accounted, Done, WorkerRuns, History, PollDefersCheck,
        InReviewFlow, Reads
<1>27. CASE SaveCheckPointer
  BY <1>0, <1>00, <1>27
  DEF Control, Steady, Capped, KeptInv, Accounted, Done, WorkerRuns, History, SaveCheckPointer
<1>28. CASE TickStart
  BY <1>0, <1>00, <1>28
  DEF Control, Steady, Capped, KeptInv, Accounted, Done, WorkerRuns, History, TickStart
<1>29. CASE DispatchNothing
  BY <1>0, <1>00, <1>29
  DEF Control, Steady, Capped, KeptInv, Accounted, Done, WorkerRuns, History, DispatchNothing
<1>30. CASE DispatchStart
  <2>1. Reads(mem', mem.seen, {}, mem.envs, mem.check, mem.applied, mem.collected,
              mem.head, mem.ciAt)
    BY <1>30, DispatchReads
  <2> QED
    BY <1>0, <1>00, <1>30, <2>1
    DEF Control, Steady, Capped, KeptInv, Accounted, Done, WorkerRuns, History, DispatchStart,
        Dispatchable, RunInFlight, Reads
<1>31. CASE DispatchTransition
  BY <1>0, <1>00, <1>31
  DEF Control, Steady, Capped, KeptInv, Accounted, Done, WorkerRuns, History, DispatchTransition
<1>32. CASE DispatchSave
  BY <1>0, <1>00, <1>32
  DEF Control, Steady, Capped, KeptInv, Accounted, Done, WorkerRuns, History, DispatchSave
<1>33. CASE TickEnd
  <2>1. Reads(mem', mem.seen, Pending(mem), mem.envs, mem.check, mem.applied,
              mem.collected, mem.head, mem.ciAt)
    BY <1>33, AuditReads
  <2> QED
    BY <1>0, <1>00, <1>33, <2>1
    DEF Control, Steady, Capped, KeptInv, Accounted, Done, WorkerRuns, History, TickEnd, Reads
<1>34. CASE Crash
  BY <1>0, <1>00, <1>34
  DEF Control, Steady, Capped, KeptInv, Accounted, Done, WorkerRuns, History, Crash
<1>35. CASE Retry
  <2>1. PICK pending \in SUBSET Parts :
         /\ Pending(disk) \subseteq pending /\ pending \subseteq Pending(disk) \cup {Note}
         /\ Reads(disk', disk.seen, pending, disk.envs, disk.check, disk.applied,
                  disk.collected, disk.head, disk.ciAt)
    BY <1>35, RetryReads
  <2> QED
    BY <1>0, <1>00, <1>35, <2>1
    DEF Control, Steady, Capped, KeptInv, Accounted, Done, WorkerRuns, History, Retry, NoRun,
        RunInFlight, Reads
<1>36. CASE ReserveManual \/ ReturnToAutomation
  <2>1. Reads(disk', disk.seen, Pending(disk), disk.envs, disk.check, disk.applied,
              disk.collected, disk.head, disk.ciAt)
    BY <1>36, ReserveReads
  <2> QED
    BY <1>0, <1>00, <1>36, <2>1
    DEF Control, Steady, Capped, KeptInv, Accounted, Done, WorkerRuns, History, ReserveManual,
        ReturnToAutomation, Reads
<1> QED
  BY <1>1, <1>2, <1>3, <1>4, <1>5, <1>6, <1>7, <1>8, <1>9, <1>10, <1>11, <1>12, <1>13, <1>14,
     <1>15, <1>16, <1>17, <1>18, <1>19, <1>20, <1>21, <1>22, <1>23, <1>24, <1>25, <1>26, <1>27,
     <1>28, <1>29, <1>30, <1>31, <1>32, <1>33, <1>34, <1>35, <1>36
  DEF Next, Tick, Reap, Poll, Dispatch, World, Exits, Operator

-----------------------------------------------------------------------------
(* Feedback rounds: a comment is worked on once.                           *)

\* Comments that were in the brief of a round that finished.
Past == {c \in Trusted : ghost.finished[c] # 0}

\* HandledOnce with what makes it inductive, as long as nothing was killed: what is
\* pending or in a brief was seen, what was seen is not taken again, and what was
\* worked on is in neither.
OnceInv ==
    ~ghost.killed =>
      /\ task.status = "running" /\ pc # "restored" => Pending(mem) = {}
      /\ pc = "restored" => Pending(mem) \subseteq run.brief
      /\ pc = "started" => Pending(mem) = {}
      /\ run.st # "none" => task.status = "running" \/ pc = "started"
      /\ Pending(mem) \cap Trusted
           \subseteq mem.seen \cup (IF pc \in {"applied", "saved"} THEN obs.items ELSE {})
      /\ run.st # "none" => run.brief \cap Trusted \subseteq mem.seen /\ Past \cap run.brief = {}
      /\ Past \subseteq mem.seen /\ Past \cap Pending(mem) = {}
      /\ pc \in {"poll", "applied", "saved"} => obs.items \cap mem.seen = {}
      /\ \A c \in Trusted : ghost.finished[c] <= 1

\* Every step keeps it.
LEMMA OnceStep ==
  ASSUME Shape, Pointers, Control, OnceInv, [Next]_vars
  PROVE  OnceInv'
<1>0. /\ task \in [status : Statuses, dispatched : Nat] /\ run \in WorkerRuns
      /\ ghost \in History
      /\ CI \notin Trusted /\ Note \notin Trusted
  BY FeedbackAssumption DEF Shape, CI, Note
<1>1. CASE UNCHANGED vars
  BY <1>1 DEF Control, Steady, OnceInv, Past, WorkerRuns, History, vars
<1>2. CASE Clock \/ HumanPush
  BY <1>0, <1>2 DEF Control, Steady, OnceInv, Past, WorkerRuns, History, Clock, HumanPush
<1>3. ASSUME NEW c \in Comments, Comment(c) PROVE OnceInv'
  BY <1>0, <1>3 DEF Control, Steady, OnceInv, Past, WorkerRuns, History, Comment
<1>4. ASSUME NEW result \in {"SUCCESS", "FAILURE"}, CiFinishes(result) PROVE OnceInv'
  BY <1>0, <1>4 DEF Control, Steady, OnceInv, Past, WorkerRuns, History, CiFinishes
<1>5. ASSUME NEW result \in {"done", "failed", "env_error"}, WorkerExits(result) PROVE OnceInv'
  BY <1>0, <1>5 DEF Control, Steady, OnceInv, Past, WorkerRuns, History, WorkerExits
<1>6. ASSUME NEW k \in DOMAIN chk, NEW flaky \in BOOLEAN, CheckExits(k, flaky) PROVE OnceInv'
  BY <1>0, <1>6 DEF Control, Steady, OnceInv, Past, WorkerRuns, History, CheckExits
<1>7. CASE ReapNothing
  BY <1>0, <1>7 DEF Control, Steady, OnceInv, Past, WorkerRuns, History, ReapNothing, Reapable
<1>8. CASE ForgetCheck \/ DropCheck \/ CheckPrUnknown
  <2>1. Reads(mem', mem.seen, Pending(mem), mem.envs, 0, mem.applied, FALSE, mem.head, mem.ciAt)
    BY <1>8, ClearReads
  <2> QED
    BY <1>0, <1>8, <2>1
    DEF Control, Steady, OnceInv, Past, WorkerRuns, History, ForgetCheck, DropCheck,
        CheckPrUnknown, Reads
<1>9. CASE CloseCheck
  BY <1>0, <1>9 DEF Control, Steady, OnceInv, Past, WorkerRuns, History, CloseCheck
<1>10. CASE MarkCollected
  <2>1. Reads(mem', mem.seen, Pending(mem), mem.envs, mem.check, mem.applied, TRUE,
              mem.head, mem.ciAt)
    BY <1>10, CollectReads
  <2> QED
    BY <1>0, <1>10, <2>1
    DEF Control, Steady, OnceInv, Past, WorkerRuns, History, MarkCollected, Reads
<1>11. CASE RerouteCheck \/ CheckProviderFails
  BY <1>0, <1>11
  DEF Control, Steady, OnceInv, Past, WorkerRuns, History, RerouteCheck, CheckProviderFails
<1>12. CASE ApplyCheck
  <2>1. /\ mem'.seen = mem.seen /\ Queued(mem', mem, obs'.items) /\ obs'.items \cap mem.seen = {}
        /\ task'.status # "running" /\ task.status # "running"
    BY <1>12, ApplyCheckIs
  <2>2. pc = "collected" /\ pc' = "applied" /\ UNCHANGED <<run, ghost>>
    BY <1>12 DEF ApplyCheck
  <2>3. Past' = Past
    BY <2>2 DEF Past
  <2>4. Pending(mem') \cap Trusted \subseteq (Pending(mem) \cap Trusted) \cup obs'.items
    BY <1>0, <2>1 DEF Queued
  <2>5. Past \subseteq Trusted
    BY DEF Past
  <2> QED
    BY <2>1, <2>2, <2>3, <2>4, <2>5 DEF OnceInv
<1>13. CASE SaveCheck
  BY <1>0, <1>13 DEF Control, Steady, OnceInv, Past, WorkerRuns, History, SaveCheck
<1>14. CASE FinishCheck
  <2>1. Reads(mem', mem.seen \cup obs.items, Pending(mem), mem.envs, 0, mem.applied, FALSE,
              mem.head, mem.ciAt)
    BY <1>14, FinishReads
  <2> QED
    BY <1>0, <1>14, <2>1 DEF Control, Steady, OnceInv, Past, WorkerRuns, History, FinishCheck, Reads
<1>15. CASE PushRevision
  <2>1. Reads(mem', mem.seen, Pending(mem), 0, mem.check, mem.applied, mem.collected,
              mem.head, mem.ciAt)
    BY <1>15, ResetReads
  <2> QED
    BY <1>0, <1>15, <2>1
    DEF Control, Steady, OnceInv, Past, WorkerRuns, History, PushRevision, Reapable, Reads
<1>16. CASE UpdatePr
  <2>1. Reads(mem', mem.seen, Pending(mem), mem.envs, mem.check, mem.applied,
              mem.collected, gh.head, mem.ciAt)
    BY <1>16, UpdateReads
  <2> QED
    BY <1>0, <1>16, <2>1
    DEF Control, Steady, OnceInv, Past, WorkerRuns, History, UpdatePr, NoRun, Reads
<1>17. CASE FailRevision
  <2>1. Reads(mem', mem.seen, Pending(mem), 0, mem.check, mem.applied, mem.collected,
              mem.head, mem.ciAt)
    BY <1>17, ResetReads
  <2> QED
    BY <1>0, <1>17, <2>1
    DEF Control, Steady, OnceInv, Past, WorkerRuns, History, FailRevision, Reapable, NoRun,
        Reads
<1>18. CASE EnvStop
  <2>1. PICK pending \in {Pending(mem), run.brief} :
         /\ Reads(mem', mem.seen, pending, mem.envs + 1, mem.check, mem.applied,
                  mem.collected, mem.head, mem.ciAt)
         /\ pending = run.brief \/ mem.envs + 1 >= EnvCap
    BY <1>18, RestoreReads
  <2> QED
    BY <1>0, <1>18, <2>1
    DEF Control, Steady, OnceInv, Past, WorkerRuns, History, EnvStop, Reapable, Reads
<1>19. CASE EnvStopTransition
  BY <1>0, <1>19 DEF Control, Steady, OnceInv, Past, WorkerRuns, History, EnvStopTransition, NoRun
<1>20. CASE Sweep
  BY <1>0, <1>20 DEF Control, Steady, OnceInv, Past, WorkerRuns, History, Sweep, NoRun
<1>21. CASE RefreshFails
  BY <1>0, <1>21 DEF Control, Steady, OnceInv, Past, WorkerRuns, History, RefreshFails
<1>22. CASE RefreshOpenPrs
  <2>1. PICK history \in SUBSET Trusted :
         Reads(mem', mem.seen \cup history, Pending(mem), mem.envs, mem.check, mem.applied,
               mem.collected, mem.head, mem.ciAt)
         /\ ghost' = [ghost EXCEPT !.historical = @ \cup history]
         /\ obs'.items \cap (mem.seen \cup history) = {}
    BY <1>22, RefreshReads
  <2>2. ghost'.finished = ghost.finished /\ ghost'.killed = ghost.killed
    BY <1>0, <2>1 DEF History
  <2>3. Past' = Past
    BY <2>2 DEF Past
  <2>4. pc = "refresh" /\ pc' = "poll" /\ UNCHANGED <<run, task>>
    BY <1>22 DEF RefreshOpenPrs
  <2> QED
    BY <2>1, <2>2, <2>3, <2>4 DEF OnceInv, Reads
<1>23. CASE PollSkips
  BY <1>0, <1>23, SkipReads
  DEF Control, Steady, OnceInv, Past, WorkerRuns, History, PollSkips, Reads, Queued
<1>24. CASE PollApplies
  <2>1. /\ mem'.seen = mem.seen \cup obs.items /\ Queued(mem', mem, obs.items)
        /\ task'.status # "running" /\ task.status = "in_review" /\ pc = "poll"
    BY <1>24, PollAppliesIs
  <2>2. pc' = "dispatch" /\ UNCHANGED <<run, ghost, obs>>
    BY <1>24 DEF PollApplies
  <2>3. Past' = Past
    BY <2>2 DEF Past
  <2>4. Pending(mem') \cap Trusted \subseteq (Pending(mem) \cap Trusted) \cup obs.items
    BY <1>0, <2>1 DEF Queued
  <2>5. Past \subseteq Trusted
    BY DEF Past
  <2> QED
    BY <2>1, <2>2, <2>3, <2>4, <2>5 DEF OnceInv
<1>25. CASE PollStartsCheck
  <2>1. PICK at \in Nat :
         Reads(mem', mem.seen, Pending(mem), mem.envs, Len(chk) + 1, mem.applied, FALSE,
               obs.head, at)
         /\ (at \in {mem.ciAt, 0} \/ at = obs.head)
    BY <1>25, StartsReads
  <2> QED
    BY <1>0, <1>25, <2>1
    DEF Control, Steady, OnceInv, Past, WorkerRuns, History, PollStartsCheck, InReviewFlow,
        Reads
<1>26. CASE PollDefersCheck
  <2>1. PICK at \in Nat :
         Reads(CiObserved, mem.seen, Pending(mem), mem.envs, mem.check, mem.applied,
               mem.collected, obs.head, at)
    BY <1>26, ObservedReads
  <2> QED
    BY <1>0, <1>26, <2>1
    DEF Control, Steady, OnceInv, Past, WorkerRuns, History, PollDefersCheck, InReviewFlow,
        Reads
<1>27. CASE SaveCheckPointer
  BY <1>0, <1>27 DEF Control, Steady, OnceInv, Past, WorkerRuns, History, SaveCheckPointer
<1>28. CASE TickStart
  BY <1>0, <1>28 DEF Control, Steady, OnceInv, Past, WorkerRuns, History, TickStart
<1>29. CASE DispatchNothing
  BY <1>0, <1>29 DEF Control, Steady, OnceInv, Past, WorkerRuns, History, DispatchNothing
<1>30. CASE DispatchStart
  <2>1. Reads(mem', mem.seen, {}, mem.envs, mem.check, mem.applied, mem.collected,
              mem.head, mem.ciAt)
    BY <1>30, DispatchReads
  <2> QED
    BY <1>0, <1>30, <2>1
    DEF Control, Steady, OnceInv, Past, WorkerRuns, History, DispatchStart, Dispatchable,
        RunInFlight, Reads
<1>31. CASE DispatchTransition
  BY <1>0, <1>31 DEF Control, Steady, OnceInv, Past, WorkerRuns, History, DispatchTransition
<1>32. CASE DispatchSave
  BY <1>0, <1>32 DEF Control, Steady, OnceInv, Past, WorkerRuns, History, DispatchSave
<1>33. CASE TickEnd
  <2>1. Reads(mem', mem.seen, Pending(mem), mem.envs, mem.check, mem.applied,
              mem.collected, mem.head, mem.ciAt)
    BY <1>33, AuditReads
  <2> QED
    BY <1>0, <1>33, <2>1 DEF Control, Steady, OnceInv, Past, WorkerRuns, History, TickEnd, Reads
<1>34. CASE Crash
  BY <1>0, <1>34 DEF Control, Steady, OnceInv, Past, WorkerRuns, History, Crash
<1>35. CASE Retry
  <2>1. PICK pending \in SUBSET Parts :
         /\ Pending(disk) \subseteq pending /\ pending \subseteq Pending(disk) \cup {Note}
         /\ Reads(disk', disk.seen, pending, disk.envs, disk.check, disk.applied,
                  disk.collected, disk.head, disk.ciAt)
    BY <1>35, RetryReads
  <2> QED
    BY <1>0, <1>35, <2>1
    DEF Control, Steady, OnceInv, Past, WorkerRuns, History, Retry, NoRun, RunInFlight, Reads
<1>36. CASE ReserveManual \/ ReturnToAutomation
  <2>1. Reads(disk', disk.seen, Pending(disk), disk.envs, disk.check, disk.applied,
              disk.collected, disk.head, disk.ciAt)
    BY <1>36, ReserveReads
  <2> QED
    BY <1>0, <1>36, <2>1
    DEF Control, Steady, OnceInv, Past, WorkerRuns, History, ReserveManual, ReturnToAutomation,
        Reads
<1> QED
  BY <1>1, <1>2, <1>3, <1>4, <1>5, <1>6, <1>7, <1>8, <1>9, <1>10, <1>11, <1>12, <1>13, <1>14,
     <1>15, <1>16, <1>17, <1>18, <1>19, <1>20, <1>21, <1>22, <1>23, <1>24, <1>25, <1>26, <1>27,
     <1>28, <1>29, <1>30, <1>31, <1>32, <1>33, <1>34, <1>35, <1>36
  DEF Next, Tick, Reap, Poll, Dispatch, World, Exits, Operator

-----------------------------------------------------------------------------
(* Feedback rounds: a handled CI failure was analysed.                     *)

\* CiFailureRouted with what makes it inductive: it is claimed of the copy as well.
RoutedInv ==
    Analyser /\ ~left.pressure =>
      mem.ciAt \in ghost.analysed \cup {0} /\ disk.ciAt \in ghost.analysed \cup {0}

\* Every step keeps it.
LEMMA RoutedStep ==
  ASSUME Shape, Pointers, RoutedInv, [Next]_vars
  PROVE  RoutedInv'
<1>0. left \in BoundSet /\ ghost \in History
  BY DEF Shape
<1>1. CASE UNCHANGED vars
  BY <1>1 DEF RoutedInv, BoundSet, History, vars
<1>2. CASE Clock \/ HumanPush
  BY <1>0, <1>2 DEF RoutedInv, BoundSet, History, Clock, HumanPush
<1>3. ASSUME NEW c \in Comments, Comment(c) PROVE RoutedInv'
  BY <1>0, <1>3 DEF RoutedInv, BoundSet, History, Comment
<1>4. ASSUME NEW result \in {"SUCCESS", "FAILURE"}, CiFinishes(result) PROVE RoutedInv'
  BY <1>0, <1>4 DEF RoutedInv, BoundSet, History, CiFinishes
<1>5. ASSUME NEW result \in {"done", "failed", "env_error"}, WorkerExits(result) PROVE RoutedInv'
  BY <1>0, <1>5 DEF RoutedInv, BoundSet, History, WorkerExits
<1>6. ASSUME NEW k \in DOMAIN chk, NEW flaky \in BOOLEAN, CheckExits(k, flaky) PROVE RoutedInv'
  BY <1>0, <1>6 DEF RoutedInv, BoundSet, History, CheckExits
<1>7. CASE ReapNothing
  BY <1>0, <1>7 DEF RoutedInv, BoundSet, History, ReapNothing, Reapable
<1>8. CASE ForgetCheck \/ DropCheck \/ CheckPrUnknown
  <2>1. Reads(mem', mem.seen, Pending(mem), mem.envs, 0, mem.applied, FALSE, mem.head, mem.ciAt)
    BY <1>8, ClearReads
  <2> QED
    BY <1>0, <1>8, <2>1
    DEF RoutedInv, BoundSet, History, ForgetCheck, DropCheck, CheckPrUnknown, Reads
<1>9. CASE CloseCheck
  BY <1>0, <1>9 DEF RoutedInv, BoundSet, History, CloseCheck
<1>10. CASE MarkCollected
  <2>1. Reads(mem', mem.seen, Pending(mem), mem.envs, mem.check, mem.applied, TRUE,
              mem.head, mem.ciAt)
    BY <1>10, CollectReads
  <2> QED
    BY <1>0, <1>10, <2>1 DEF RoutedInv, BoundSet, History, MarkCollected, Reads
<1>11. CASE RerouteCheck \/ CheckProviderFails
  BY <1>0, <1>11 DEF RoutedInv, BoundSet, History, RerouteCheck, CheckProviderFails
<1>12. CASE ApplyCheck
  BY <1>0, <1>12, ApplyCheckIs DEF RoutedInv, BoundSet, History, ApplyCheck, Reads, Queued
<1>13. CASE SaveCheck
  BY <1>0, <1>13 DEF RoutedInv, BoundSet, History, SaveCheck
<1>14. CASE FinishCheck
  <2>1. Reads(mem', mem.seen \cup obs.items, Pending(mem), mem.envs, 0, mem.applied, FALSE,
              mem.head, mem.ciAt)
    BY <1>14, FinishReads
  <2> QED
    BY <1>0, <1>14, <2>1 DEF RoutedInv, BoundSet, History, FinishCheck, Reads
<1>15. CASE PushRevision
  <2>1. Reads(mem', mem.seen, Pending(mem), 0, mem.check, mem.applied, mem.collected,
              mem.head, mem.ciAt)
    BY <1>15, ResetReads
  <2> QED
    BY <1>0, <1>15, <2>1 DEF RoutedInv, BoundSet, History, PushRevision, Reapable, Reads
<1>16. CASE UpdatePr
  <2>1. Reads(mem', mem.seen, Pending(mem), mem.envs, mem.check, mem.applied,
              mem.collected, gh.head, mem.ciAt)
    BY <1>16, UpdateReads
  <2> QED
    BY <1>0, <1>16, <2>1 DEF RoutedInv, BoundSet, History, UpdatePr, NoRun, Reads
<1>17. CASE FailRevision
  <2>1. Reads(mem', mem.seen, Pending(mem), 0, mem.check, mem.applied, mem.collected,
              mem.head, mem.ciAt)
    BY <1>17, ResetReads
  <2> QED
    BY <1>0, <1>17, <2>1 DEF RoutedInv, BoundSet, History, FailRevision, Reapable, NoRun, Reads
<1>18. CASE EnvStop
  <2>1. PICK pending \in {Pending(mem), run.brief} :
         /\ Reads(mem', mem.seen, pending, mem.envs + 1, mem.check, mem.applied,
                  mem.collected, mem.head, mem.ciAt)
         /\ pending = run.brief \/ mem.envs + 1 >= EnvCap
    BY <1>18, RestoreReads
  <2> QED
    BY <1>0, <1>18, <2>1 DEF RoutedInv, BoundSet, History, EnvStop, Reapable, Reads
<1>19. CASE EnvStopTransition
  BY <1>0, <1>19 DEF RoutedInv, BoundSet, History, EnvStopTransition, NoRun
<1>20. CASE Sweep
  BY <1>0, <1>20 DEF RoutedInv, BoundSet, History, Sweep, NoRun
<1>21. CASE RefreshFails
  BY <1>0, <1>21 DEF RoutedInv, BoundSet, History, RefreshFails
<1>22. CASE RefreshOpenPrs
  <2>1. PICK history \in SUBSET Trusted :
         Reads(mem', mem.seen \cup history, Pending(mem), mem.envs, mem.check, mem.applied,
                 mem.collected, mem.head, mem.ciAt)
        /\ ghost' = [ghost EXCEPT !.historical = @ \cup history]
        /\ obs'.items \cap (mem.seen \cup history) = {}
        /\ obs'.head = gh.head
    BY <1>22, RefreshReads
  <2> QED
    BY <1>0, <1>22, <2>1 DEF RoutedInv, BoundSet, History, RefreshOpenPrs, Reads
<1>23. CASE PollSkips
  BY <1>0, <1>23, SkipReads DEF RoutedInv, BoundSet, History, PollSkips, Reads, Queued
<1>24. CASE PollApplies
  BY <1>0, <1>24, PollAppliesIs DEF RoutedInv, BoundSet, History, PollApplies, Reads, Queued
<1>25. CASE PollStartsCheck
  <2>1. PICK at \in Nat :
         Reads(mem', mem.seen, Pending(mem), mem.envs, Len(chk) + 1, mem.applied, FALSE,
               obs.head, at)
         /\ (at \in {mem.ciAt, 0} \/ at = obs.head)
    BY <1>25, StartsReads
  <2> QED
    BY <1>0, <1>25, <2>1 DEF RoutedInv, BoundSet, History, PollStartsCheck, InReviewFlow, Reads
<1>26. CASE PollDefersCheck
  <2>1. PICK at \in Nat :
         Reads(CiObserved, mem.seen, Pending(mem), mem.envs, mem.check, mem.applied,
               mem.collected, obs.head, at)
    BY <1>26, ObservedReads
  <2> QED
    BY <1>0, <1>26, <2>1 DEF RoutedInv, BoundSet, History, PollDefersCheck, InReviewFlow, Reads
<1>27. CASE SaveCheckPointer
  BY <1>0, <1>27 DEF RoutedInv, BoundSet, History, SaveCheckPointer
<1>28. CASE TickStart
  BY <1>0, <1>28 DEF RoutedInv, BoundSet, History, TickStart
<1>29. CASE DispatchNothing
  BY <1>0, <1>29 DEF RoutedInv, BoundSet, History, DispatchNothing
<1>30. CASE DispatchStart
  <2>1. Reads(mem', mem.seen, {}, mem.envs, mem.check, mem.applied, mem.collected,
              mem.head, mem.ciAt)
    BY <1>30, DispatchReads
  <2> QED
    BY <1>0, <1>30, <2>1
    DEF RoutedInv, BoundSet, History, DispatchStart, Dispatchable, RunInFlight, Reads
<1>31. CASE DispatchTransition
  BY <1>0, <1>31 DEF RoutedInv, BoundSet, History, DispatchTransition
<1>32. CASE DispatchSave
  BY <1>0, <1>32 DEF RoutedInv, BoundSet, History, DispatchSave
<1>33. CASE TickEnd
  <2>1. Reads(mem', mem.seen, Pending(mem), mem.envs, mem.check, mem.applied,
              mem.collected, mem.head, mem.ciAt)
    BY <1>33, AuditReads
  <2> QED
    BY <1>0, <1>33, <2>1 DEF RoutedInv, BoundSet, History, TickEnd, Reads
<1>34. CASE Crash
  BY <1>0, <1>34 DEF RoutedInv, BoundSet, History, Crash
<1>35. CASE Retry
  <2>1. PICK pending \in SUBSET Parts :
         /\ Pending(disk) \subseteq pending /\ pending \subseteq Pending(disk) \cup {Note}
         /\ Reads(disk', disk.seen, pending, disk.envs, disk.check, disk.applied,
                  disk.collected, disk.head, disk.ciAt)
    BY <1>35, RetryReads
  <2> QED
    BY <1>0, <1>35, <2>1 DEF RoutedInv, BoundSet, History, Retry, NoRun, RunInFlight, Reads
<1>36. CASE ReserveManual \/ ReturnToAutomation
  <2>1. Reads(disk', disk.seen, Pending(disk), disk.envs, disk.check, disk.applied,
              disk.collected, disk.head, disk.ciAt)
    BY <1>36, ReserveReads
  <2> QED
    BY <1>0, <1>36, <2>1 DEF RoutedInv, BoundSet, History, ReserveManual, ReturnToAutomation, Reads
<1> QED
  BY <1>1, <1>2, <1>3, <1>4, <1>5, <1>6, <1>7, <1>8, <1>9, <1>10, <1>11, <1>12, <1>13, <1>14,
     <1>15, <1>16, <1>17, <1>18, <1>19, <1>20, <1>21, <1>22, <1>23, <1>24, <1>25, <1>26, <1>27,
     <1>28, <1>29, <1>30, <1>31, <1>32, <1>33, <1>34, <1>35, <1>36
  DEF Next, Tick, Reap, Poll, Dispatch, World, Exits, Operator

-----------------------------------------------------------------------------
(* Feedback rounds: a verdict is not lost.                                 *)

\* Check runs are started for heads the provider showed, and the continuation of
\* an entry is for the head the entry has.
Heads ==
    /\ \A k \in DOMAIN chk : chk[k].head <= gh.head
    /\ obs.head <= gh.head
    /\ mem.check # 0 => mem.head = chk[mem.check].head
    /\ disk.check # 0 => disk.head = chk[disk.check].head

\* The provider's head is a number and never goes back.
LEMMA HeadGrows ==
  ASSUME Shape, [Next]_vars
  PROVE  /\ gh.head \in Nat /\ gh'.head \in Nat
         /\ gh'.head = gh.head \/ gh'.head = gh.head + 1
<1>0. gh \in Provider /\ gh.head \in Nat
  BY DEF Shape, Provider
<1> DEFINE Grows == gh'.head = gh.head \/ gh'.head = gh.head + 1
<1>1. ASSUME HumanPush \/ PushRevision PROVE Grows
  BY <1>0, <1>1, HeadPushed DEF HumanPush, PushRevision
<1>2. ASSUME UpdatePr PROVE Grows
  BY <1>0, <1>2 DEF UpdatePr, Provider
<1>3. ASSUME NEW c \in Comments, Comment(c) PROVE Grows
  BY <1>0, <1>3 DEF Comment, Provider
<1>4. ASSUME NEW result \in {"SUCCESS", "FAILURE"}, CiFinishes(result) PROVE Grows
  BY <1>0, <1>4 DEF CiFinishes, Provider
<1>5. ASSUME gh' = gh PROVE Grows
  BY <1>5
<1>6. HumanPush \/ PushRevision \/ UpdatePr \/ (\E c \in Comments : Comment(c)) \/ gh' = gh
        \/ \E result \in {"SUCCESS", "FAILURE"} : CiFinishes(result)
  <2>1. Reap => PushRevision \/ UpdatePr \/ gh' = gh
    BY DEF Reap, ReapNothing, ForgetCheck, CloseCheck, MarkCollected, RerouteCheck, DropCheck,
           CheckPrUnknown, CheckProviderFails, ApplyCheck, SaveCheck, FinishCheck,
           FailRevision, EnvStop, EnvStopTransition, Sweep
  <2>2. Poll => gh' = gh
    BY DEF Poll, RefreshFails, RefreshOpenPrs, PollSkips, PollApplies, PollStartsCheck,
           PollDefersCheck, SaveCheckPointer
  <2>3. Dispatch \/ TickStart \/ TickEnd \/ Crash => gh' = gh
    BY DEF Dispatch, DispatchNothing, DispatchStart, DispatchTransition, DispatchSave,
           TickStart, TickEnd, Crash
  <2>4. Clock \/ Exits \/ Operator => gh' = gh
    BY DEF Clock, Exits, WorkerExits, CheckExits, Operator, Retry, ReserveManual,
           ReturnToAutomation
  <2>5. UNCHANGED vars => gh' = gh
    BY DEF vars
  <2> QED
    BY <2>1, <2>2, <2>3, <2>4, <2>5 DEF Next, Tick, World
<1> HIDE DEF Grows
<1>7. Grows
  BY <1>1, <1>2, <1>3, <1>4, <1>5, <1>6
<1> QED
  BY <1>0, <1>7 DEF Grows

\* What the poll appends to the list of check runs.
LEMMA CheckStarted ==
  ASSUME Shape, PollStartsCheck
  PROVE  /\ Len(chk) \in Nat /\ DOMAIN chk = 1..Len(chk) /\ DOMAIN chk' = 1..(Len(chk) + 1)
         /\ \A k \in DOMAIN chk : chk'[k] = chk[k]
         /\ chk'[Len(chk) + 1].head = obs.head /\ chk'[Len(chk) + 1].st = "live"
         /\ ~chk'[Len(chk) + 1].flaky /\ (chk'[Len(chk) + 1].rerun => mem.reruns < 1)
<1>1. PICK rec : rec = NewCheck(obs.head, MayRerun)
  OBVIOUS
<1>2. rec \in CheckRuns /\ rec.head = obs.head /\ rec.st = "live"
  BY <1>1 DEF NewCheck, MayRerun, CheckRuns, Shape, Observations
<1>7. ~rec.flaky /\ (rec.rerun => mem.reruns < 1)
  BY <1>1 DEF NewCheck, MayRerun
<1>3. chk' = Append(chk, rec) /\ chk \in Seq(CheckRuns)
  BY <1>1 DEF PollStartsCheck, Shape
<1>4. Len(chk) \in Nat /\ DOMAIN chk = 1..Len(chk)
  BY <1>3, LenProperties
<1>5. /\ chk' \in Seq(CheckRuns) /\ Len(chk') = Len(chk) + 1
      /\ \A i \in 1..Len(chk) : chk'[i] = chk[i]
      /\ chk'[Len(chk) + 1] = rec
  BY <1>2, <1>3, AppendProperties
<1>6. DOMAIN chk' = 1..(Len(chk) + 1)
  BY <1>5, LenProperties
<1> QED
  BY <1>2, <1>4, <1>5, <1>6, <1>7

\* The heads of check runs do not change.
LEMMA HeadsStay ==
  ASSUME Shape, Pointers, [Next]_vars, NEW k \in DOMAIN chk
  PROVE  k \in DOMAIN chk' /\ chk'[k].head = chk[k].head
<1>1. CASE PollStartsCheck
  BY <1>1, CheckStarted
<1>2. CASE Len(chk') = Len(chk) /\ \A j \in DOMAIN chk : chk'[j].head = chk[j].head
  BY <1>2, ChecksGrow
<1> QED
  BY <1>1, <1>2, ChecksGrow

\* A continuation names a run of the list.
LEMMA PointsAt ==
  ASSUME Shape, Pointers
  PROVE  /\ mem.check # 0 => mem.check \in DOMAIN chk
         /\ disk.check # 0 => disk.check \in DOMAIN chk
<1>1. mem.check \in Nat /\ disk.check \in Nat
  BY DEF Shape, States
<1>2. Len(chk) \in Nat /\ DOMAIN chk = 1..Len(chk)
  BY LenProperties DEF Shape
<1>3. mem.check <= Len(chk) /\ disk.check <= Len(chk)
  BY DEF Pointers
<1> QED
  BY <1>1, <1>2, <1>3

\* The list of runs and the observation stay within the provider's head.
LEMMA WithinHead ==
  ASSUME Shape, Pointers, Heads, [Next]_vars
  PROVE  /\ \A k \in DOMAIN chk' : chk'[k].head <= gh'.head
         /\ obs'.head <= gh'.head
<1>0. /\ gh.head \in Nat /\ gh'.head \in Nat /\ obs.head \in Nat
      /\ gh'.head = gh.head \/ gh'.head = gh.head + 1
      /\ obs.head <= gh.head
  BY HeadGrows DEF Shape, Observations, Heads
<1>1. \A k \in DOMAIN chk : chk[k].head \in Nat /\ chk[k].head <= gh.head
  <2>1. \A k \in DOMAIN chk : chk[k] \in CheckRuns
    BY LenProperties, ElementOfSeq DEF Shape
  <2> QED
    BY <2>1 DEF CheckRuns, Heads
<1>2. ASSUME NEW k \in DOMAIN chk PROVE chk'[k].head <= gh'.head
  BY <1>0, <1>1, HeadsStay
<1>3. CASE PollStartsCheck
  <2>1. \A k \in DOMAIN chk' : k \in DOMAIN chk \/ k = Len(chk) + 1
    BY <1>3, CheckStarted
  <2>2. chk'[Len(chk) + 1].head = obs.head
    BY <1>3, CheckStarted
  <2>3. obs' = obs
    BY <1>3 DEF PollStartsCheck
  <2> QED
    BY <1>0, <1>2, <2>1, <2>2, <2>3
<1>4. CASE ~PollStartsCheck
  <2>1. DOMAIN chk' = DOMAIN chk
    BY <1>4, ChecksGrow
  <2>2. obs'.head = obs.head \/ obs'.head = 0 \/ obs'.head = gh.head
    <3>1. ASSUME TickStart \/ TickEnd \/ Crash PROVE obs'.head = 0
      BY <3>1 DEF TickStart, TickEnd, Crash, NoObs
    <3>2. ASSUME RefreshOpenPrs PROVE obs'.head = gh.head
      BY <3>2, RefreshReads
    <3>3. ASSUME ApplyCheck PROVE obs'.head = obs.head
      BY <3>3, ApplyCheckIs
    <3>4. Reap => ApplyCheck \/ obs' = obs
      BY DEF Reap, ReapNothing, ForgetCheck, CloseCheck, MarkCollected, RerouteCheck, DropCheck,
             CheckPrUnknown, CheckProviderFails, SaveCheck, FinishCheck, PushRevision, UpdatePr,
             FailRevision, EnvStop, EnvStopTransition, Sweep
    <3>5. Poll => RefreshOpenPrs \/ obs' = obs
      BY DEF Poll, RefreshFails, PollSkips, PollApplies, PollStartsCheck, PollDefersCheck,
             SaveCheckPointer
    <3>6. Dispatch => obs' = obs
      BY DEF Dispatch, DispatchNothing, DispatchStart, DispatchTransition, DispatchSave
    <3>7. World \/ Exits \/ Operator => obs' = obs
      BY DEF World, Clock, Comment, CiFinishes, HumanPush, Exits, WorkerExits, CheckExits,
             Operator, Retry, ReserveManual, ReturnToAutomation
    <3>8. UNCHANGED vars => obs' = obs
      BY DEF vars
    <3> QED
      BY <3>1, <3>2, <3>3, <3>4, <3>5, <3>6, <3>7, <3>8 DEF Next, Tick
  <2> QED
    BY <1>0, <1>2, <2>1, <2>2
<1> QED
  BY <1>3, <1>4

\* Every step keeps the heads in order.
LEMMA HeadsStep ==
  ASSUME Shape, Pointers, Control, Heads, [Next]_vars
  PROVE  Heads'
<1>0. mem.check # 0 => mem.check \in DOMAIN chk
  BY PointsAt
<1>00. disk.check # 0 => disk.check \in DOMAIN chk
  BY PointsAt
<1>000. /\ \A k \in DOMAIN chk : chk'[k].head = chk[k].head
        /\ \A k \in DOMAIN chk' : chk'[k].head <= gh'.head
        /\ obs'.head <= gh'.head
  BY HeadsStay, WithinHead
<1>1. CASE UNCHANGED vars
  BY <1>1 DEF Heads, Control, Steady, vars
<1>2. CASE Clock \/ HumanPush
  BY <1>0, <1>00, <1>000, <1>2 DEF Heads, Control, Steady, Clock, HumanPush
<1>3. ASSUME NEW c \in Comments, Comment(c) PROVE Heads'
  BY <1>0, <1>00, <1>000, <1>3 DEF Heads, Control, Steady, Comment
<1>4. ASSUME NEW result \in {"SUCCESS", "FAILURE"}, CiFinishes(result) PROVE Heads'
  BY <1>0, <1>00, <1>000, <1>4 DEF Heads, Control, Steady, CiFinishes
<1>5. ASSUME NEW result \in {"done", "failed", "env_error"}, WorkerExits(result) PROVE Heads'
  BY <1>0, <1>00, <1>000, <1>5 DEF Heads, Control, Steady, WorkerExits
<1>6. ASSUME NEW k \in DOMAIN chk, NEW flaky \in BOOLEAN, CheckExits(k, flaky) PROVE Heads'
  BY <1>0, <1>00, <1>000, <1>6 DEF Heads, Control, Steady, CheckExits
<1>7. CASE ReapNothing
  BY <1>0, <1>00, <1>000, <1>7 DEF Heads, Control, Steady, ReapNothing, Reapable
<1>8. CASE ForgetCheck \/ DropCheck \/ CheckPrUnknown
  <2>1. Reads(mem', mem.seen, Pending(mem), mem.envs, 0, mem.applied, FALSE, mem.head, mem.ciAt)
    BY <1>8, ClearReads
  <2> QED
    BY <1>0, <1>00, <1>000, <1>8, <2>1
    DEF Heads, Control, Steady, ForgetCheck, DropCheck, CheckPrUnknown, Reads
<1>9. CASE CloseCheck
  BY <1>0, <1>00, <1>000, <1>9 DEF Heads, Control, Steady, CloseCheck
<1>10. CASE MarkCollected
  <2>1. Reads(mem', mem.seen, Pending(mem), mem.envs, mem.check, mem.applied, TRUE,
              mem.head, mem.ciAt)
    BY <1>10, CollectReads
  <2> QED
    BY <1>0, <1>00, <1>000, <1>10, <2>1 DEF Heads, Control, Steady, MarkCollected, Reads
<1>11. CASE RerouteCheck \/ CheckProviderFails
  BY <1>0, <1>00, <1>000, <1>11 DEF Heads, Control, Steady, RerouteCheck, CheckProviderFails
<1>12. CASE ApplyCheck
  BY <1>0, <1>00, <1>000, <1>12, ApplyCheckIs DEF Heads, Control, Steady, ApplyCheck, Reads, Queued
<1>13. CASE SaveCheck
  BY <1>0, <1>00, <1>000, <1>13 DEF Heads, Control, Steady, SaveCheck
<1>14. CASE FinishCheck
  <2>1. Reads(mem', mem.seen \cup obs.items, Pending(mem), mem.envs, 0, mem.applied, FALSE,
              mem.head, mem.ciAt)
    BY <1>14, FinishReads
  <2> QED
    BY <1>0, <1>00, <1>000, <1>14, <2>1 DEF Heads, Control, Steady, FinishCheck, Reads
<1>15. CASE PushRevision
  <2>1. Reads(mem', mem.seen, Pending(mem), 0, mem.check, mem.applied, mem.collected,
              mem.head, mem.ciAt)
    BY <1>15, ResetReads
  <2> QED
    BY <1>0, <1>00, <1>000, <1>15, <2>1 DEF Heads, Control, Steady, PushRevision, Reapable, Reads
<1>16. CASE UpdatePr
  <2>1. Reads(mem', mem.seen, Pending(mem), mem.envs, mem.check, mem.applied,
              mem.collected, gh.head, mem.ciAt)
    BY <1>16, UpdateReads
  <2> QED
    BY <1>0, <1>00, <1>000, <1>16, <2>1 DEF Heads, Control, Steady, UpdatePr, NoRun, Reads
<1>17. CASE FailRevision
  <2>1. Reads(mem', mem.seen, Pending(mem), 0, mem.check, mem.applied, mem.collected,
              mem.head, mem.ciAt)
    BY <1>17, ResetReads
  <2> QED
    BY <1>0, <1>00, <1>000, <1>17, <2>1
    DEF Heads, Control, Steady, FailRevision, Reapable, NoRun, Reads
<1>18. CASE EnvStop
  <2>1. PICK pending \in {Pending(mem), run.brief} :
         /\ Reads(mem', mem.seen, pending, mem.envs + 1, mem.check, mem.applied,
                  mem.collected, mem.head, mem.ciAt)
         /\ pending = run.brief \/ mem.envs + 1 >= EnvCap
    BY <1>18, RestoreReads
  <2> QED
    BY <1>0, <1>00, <1>000, <1>18, <2>1 DEF Heads, Control, Steady, EnvStop, Reapable, Reads
<1>19. CASE EnvStopTransition
  BY <1>0, <1>00, <1>000, <1>19 DEF Heads, Control, Steady, EnvStopTransition, NoRun
<1>20. CASE Sweep
  BY <1>0, <1>00, <1>000, <1>20 DEF Heads, Control, Steady, Sweep, NoRun
<1>21. CASE RefreshFails
  BY <1>0, <1>00, <1>000, <1>21 DEF Heads, Control, Steady, RefreshFails
<1>22. CASE RefreshOpenPrs
  <2>1. PICK history \in SUBSET Trusted :
         Reads(mem', mem.seen \cup history, Pending(mem), mem.envs, mem.check, mem.applied,
                 mem.collected, mem.head, mem.ciAt)
        /\ ghost' = [ghost EXCEPT !.historical = @ \cup history]
        /\ obs'.items \cap (mem.seen \cup history) = {}
        /\ obs'.head = gh.head
    BY <1>22, RefreshReads
  <2> QED
    BY <1>0, <1>00, <1>000, <1>22, <2>1 DEF Heads, Control, Steady, RefreshOpenPrs, Reads
<1>23. CASE PollSkips
  BY <1>0, <1>00, <1>000, <1>23, SkipReads DEF Heads, Control, Steady, PollSkips, Reads, Queued
<1>24. CASE PollApplies
  BY <1>0, <1>00, <1>000, <1>24, PollAppliesIs
  DEF Heads, Control, Steady, PollApplies, Reads, Queued
<1>25. CASE PollStartsCheck
  <2>1. mem'.check = Len(chk) + 1 /\ mem'.head = obs.head
    BY <1>25, StartsReads DEF Reads
  <2>2. chk'[Len(chk) + 1].head = obs.head
    BY <1>25, CheckStarted
  <2> QED
    BY <1>00, <1>000, <1>25, <2>1, <2>2 DEF Heads, PollStartsCheck
<1>26. CASE PollDefersCheck
  <2>1. PICK at \in Nat :
         Reads(CiObserved, mem.seen, Pending(mem), mem.envs, mem.check, mem.applied,
               mem.collected, obs.head, at)
    BY <1>26, ObservedReads
  <2> QED
    BY <1>0, <1>00, <1>000, <1>26, <2>1
    DEF Heads, Control, Steady, PollDefersCheck, InReviewFlow, Reads
<1>27. CASE SaveCheckPointer
  BY <1>0, <1>00, <1>000, <1>27 DEF Heads, Control, Steady, SaveCheckPointer
<1>28. CASE TickStart
  BY <1>0, <1>00, <1>000, <1>28 DEF Heads, Control, Steady, TickStart
<1>29. CASE DispatchNothing
  BY <1>0, <1>00, <1>000, <1>29 DEF Heads, Control, Steady, DispatchNothing
<1>30. CASE DispatchStart
  <2>1. Reads(mem', mem.seen, {}, mem.envs, mem.check, mem.applied, mem.collected,
              mem.head, mem.ciAt)
    BY <1>30, DispatchReads
  <2> QED
    BY <1>0, <1>00, <1>000, <1>30, <2>1
    DEF Heads, Control, Steady, DispatchStart, Dispatchable, RunInFlight, Reads
<1>31. CASE DispatchTransition
  BY <1>0, <1>00, <1>000, <1>31 DEF Heads, Control, Steady, DispatchTransition
<1>32. CASE DispatchSave
  BY <1>0, <1>00, <1>000, <1>32 DEF Heads, Control, Steady, DispatchSave
<1>33. CASE TickEnd
  <2>1. Reads(mem', mem.seen, Pending(mem), mem.envs, mem.check, mem.applied,
              mem.collected, mem.head, mem.ciAt)
    BY <1>33, AuditReads
  <2> QED
    BY <1>0, <1>00, <1>000, <1>33, <2>1 DEF Heads, Control, Steady, TickEnd, Reads
<1>34. CASE Crash
  BY <1>0, <1>00, <1>000, <1>34 DEF Heads, Control, Steady, Crash
<1>35. CASE Retry
  <2>1. PICK pending \in SUBSET Parts :
         /\ Pending(disk) \subseteq pending /\ pending \subseteq Pending(disk) \cup {Note}
         /\ Reads(disk', disk.seen, pending, disk.envs, disk.check, disk.applied,
                  disk.collected, disk.head, disk.ciAt)
    BY <1>35, RetryReads
  <2> QED
    BY <1>0, <1>00, <1>000, <1>35, <2>1 DEF Heads, Control, Steady, Retry, NoRun, RunInFlight, Reads
<1>36. CASE ReserveManual \/ ReturnToAutomation
  <2>1. Reads(disk', disk.seen, Pending(disk), disk.envs, disk.check, disk.applied,
              disk.collected, disk.head, disk.ciAt)
    BY <1>36, ReserveReads
  <2> QED
    BY <1>0, <1>00, <1>000, <1>36, <2>1
    DEF Heads, Control, Steady, ReserveManual, ReturnToAutomation, Reads
<1> QED
  BY <1>1, <1>2, <1>3, <1>4, <1>5, <1>6, <1>7, <1>8, <1>9, <1>10, <1>11, <1>12, <1>13, <1>14,
     <1>15, <1>16, <1>17, <1>18, <1>19, <1>20, <1>21, <1>22, <1>23, <1>24, <1>25, <1>26, <1>27,
     <1>28, <1>29, <1>30, <1>31, <1>32, <1>33, <1>34, <1>35, <1>36
  DEF Next, Tick, Reap, Poll, Dispatch, World, Exits, Operator

\* The check runs that were closed, and those whose verdict is on the current head.
Closed == {k \in DOMAIN chk : chk[k].st = "closed"}
Concluded == {k \in Closed : chk[k].head = gh.head}

\* Every verdict on the current head was applied or has its continuation.
KeptIn(s) == \A k \in Concluded : k \in s.applied \/ s.check = k

\* CiVerdictKept with what makes it inductive: it is claimed of the copy as well, a
\* continuation is only there in the review flow, and the one of a closed run is
\* marked collected as soon as reap_check is past its two writes.
VerdictInv ==
    ~ghost.killed /\ ~left.outage =>
      /\ mem.check # 0 => task.status \in {"in_review", "changes_requested"}
      /\ mem.check \in Closed /\ pc # "closing" => mem.collected
      /\ KeptIn(mem) /\ KeptIn(disk)

\* Only reap_check closes a check run, and it closes the continuation's.
LEMMA ClosedBefore ==
  ASSUME Shape, Pointers, [Next]_vars, NEW k \in Closed'
  PROVE  k \in Closed \/ (CloseCheck /\ k = mem.check)
<1>0. \A j \in DOMAIN chk : chk[j] \in CheckRuns
  BY LenProperties, ElementOfSeq DEF Shape
<1>1. k \in DOMAIN chk' /\ chk'[k].st = "closed"
  BY DEF Closed
<1>2. CASE PollStartsCheck
  <2>1. k \in DOMAIN chk \/ k = Len(chk) + 1
    BY <1>1, <1>2, CheckStarted
  <2>2. chk'[Len(chk) + 1].st = "live" /\ \A j \in DOMAIN chk : chk'[j] = chk[j]
    BY <1>2, CheckStarted
  <2> QED
    BY <1>1, <2>1, <2>2 DEF Closed
<1>3. ASSUME NEW j \in DOMAIN chk, NEW flaky \in BOOLEAN, CheckExits(j, flaky) PROVE k \in Closed
  <2>1. chk' = [chk EXCEPT ![j].st = "exited", ![j].flaky = flaky]
    BY <1>3 DEF CheckExits
  <2>2. k \in DOMAIN chk
    BY <1>1, <2>1
  <2>3. CASE k = j
    BY <1>0, <1>1, <2>1, <2>2, <2>3 DEF CheckRuns
  <2>4. CASE k # j
    BY <1>1, <2>1, <2>2, <2>4 DEF Closed
  <2> QED
    BY <2>3, <2>4
<1>4. CASE CloseCheck
  <2>1. chk' = [chk EXCEPT ![mem.check].st = "closed"]
    BY <1>4 DEF CloseCheck
  <2> QED
    BY <1>1, <1>4, <2>1 DEF Closed
<1>5. CASE Sweep
  BY <1>0, <1>1, <1>5 DEF Sweep, Closed, CheckRuns
<1>6. CASE Retry
  BY <1>0, <1>1, <1>6 DEF Retry, Closed, CheckRuns
<1>7. CASE UNCHANGED chk
  BY <1>1, <1>7 DEF Closed
<1> QED
  BY <1>2, <1>3, <1>4, <1>5, <1>6, <1>7, ChecksTouched

\* A verdict on the head after a step was one before, or has just been reached.
LEMMA ConcludedBefore ==
  ASSUME Shape, Pointers, Heads, [Next]_vars, NEW k \in Concluded'
  PROVE  k \in Concluded \/ (CloseCheck /\ k = mem.check)
<1>1. k \in Closed' /\ chk'[k].head = gh'.head
  BY DEF Concluded
<1>2. CASE CloseCheck /\ k = mem.check
  BY <1>2
<1>3. CASE ~ (CloseCheck /\ k = mem.check)
  <2>1. k \in Closed /\ k \in DOMAIN chk
    BY <1>1, <1>3, ClosedBefore DEF Closed
  <2>2. chk'[k].head = chk[k].head /\ chk[k].head <= gh.head
    BY <2>1, HeadsStay DEF Heads
  <2>3. /\ gh.head \in Nat
        /\ gh'.head = gh.head \/ gh'.head = gh.head + 1
    BY HeadGrows
  <2>4. chk[k].head = gh.head
    BY <1>1, <2>2, <2>3
  <2> QED
    BY <2>1, <2>4 DEF Concluded
<1> QED
  BY <1>2, <1>3

\* Every step keeps it.
LEMMA VerdictStep ==
  ASSUME Shape, Pointers, Control, Heads, VerdictInv, [Next]_vars
  PROVE  VerdictInv'
<1> DEFINE Closing == pc = "reap" /\ pc' = "closing"
<1>0. left \in BoundSet /\ ghost \in History /\ task \in [status : Statuses, dispatched : Nat]
  BY DEF Shape
<1>00. /\ \A k \in Closed' : k \in Closed \/ (Closing /\ k = mem.check)
       /\ \A k \in Concluded' : k \in Concluded \/ (Closing /\ k = mem.check)
  <2>1. CloseCheck => Closing
    BY DEF CloseCheck
  <2> QED
    BY <2>1, ClosedBefore, ConcludedBefore
<1>000. 0 \notin Closed /\ Concluded \subseteq Closed
  BY LenProperties DEF Shape, Closed, Concluded
<1>1. CASE UNCHANGED vars
  BY <1>1 DEF VerdictInv, KeptIn, Control, Steady, BoundSet, History, Closed, Concluded, vars
<1>2. CASE Clock \/ HumanPush
  BY <1>0, <1>00, <1>000, <1>2
  DEF VerdictInv, KeptIn, Control, Steady, BoundSet, History, Clock, HumanPush
<1>3. ASSUME NEW c \in Comments, Comment(c) PROVE VerdictInv'
  BY <1>0, <1>00, <1>000, <1>3 DEF VerdictInv, KeptIn, Control, Steady, BoundSet, History, Comment
<1>4. ASSUME NEW result \in {"SUCCESS", "FAILURE"}, CiFinishes(result) PROVE VerdictInv'
  BY <1>0, <1>00, <1>000, <1>4
  DEF VerdictInv, KeptIn, Control, Steady, BoundSet, History, CiFinishes
<1>5. ASSUME NEW result \in {"done", "failed", "env_error"}, WorkerExits(result) PROVE VerdictInv'
  BY <1>0, <1>00, <1>000, <1>5
  DEF VerdictInv, KeptIn, Control, Steady, BoundSet, History, WorkerExits
<1>6. ASSUME NEW k \in DOMAIN chk, NEW flaky \in BOOLEAN, CheckExits(k, flaky) PROVE VerdictInv'
  BY <1>0, <1>00, <1>000, <1>6
  DEF VerdictInv, KeptIn, Control, Steady, BoundSet, History, CheckExits
<1>7. CASE ReapNothing
  BY <1>0, <1>00, <1>000, <1>7
  DEF VerdictInv, KeptIn, Control, Steady, BoundSet, History, ReapNothing, Reapable
<1>8. CASE ForgetCheck \/ DropCheck \/ CheckPrUnknown
  <2>1. Reads(mem', mem.seen, Pending(mem), mem.envs, 0, mem.applied, FALSE, mem.head, mem.ciAt)
    BY <1>8, ClearReads
  <2>2. /\ pc \in {"reap", "collected"} /\ pc' = "sweep"
        /\ UNCHANGED <<gh, task, disk, chk, left, ghost>>
    BY <1>8 DEF ForgetCheck, DropCheck, CheckPrUnknown
  <2>3. SUFFICES ASSUME ~ghost.killed, ~left.outage, mem.check \in Concluded
        PROVE mem.check \in mem.applied
    BY <1>00, <1>000, <2>1, <2>2 DEF VerdictInv, KeptIn, Reads
  <2>4. /\ mem.check \in Closed /\ chk[mem.check].st = "closed" /\ chk[mem.check].head = gh.head
        /\ mem.check # 0
    BY <1>000, <2>3 DEF Concluded, Closed
  <2>5. mem.collected /\ task.status \in {"in_review", "changes_requested"}
    BY <2>2, <2>3, <2>4 DEF VerdictInv
  <2>6. mem.head = chk[mem.check].head
    BY <2>4 DEF Heads
  <2>7. DropCheck
    BY <1>8, <2>3, <2>4, <2>5 DEF ForgetCheck, CheckPrUnknown, Current
  <2> QED
    BY <2>4, <2>5, <2>6, <2>7 DEF DropCheck, CheckObsolete, Current
<1>9. CASE CloseCheck
  BY <1>0, <1>00, <1>000, <1>9
  DEF VerdictInv, KeptIn, Control, Steady, BoundSet, History, CloseCheck
<1>10. CASE MarkCollected
  <2>1. Reads(mem', mem.seen, Pending(mem), mem.envs, mem.check, mem.applied, TRUE,
              mem.head, mem.ciAt)
    BY <1>10, CollectReads
  <2> QED
    BY <1>0, <1>00, <1>000, <1>10, <2>1
    DEF VerdictInv, KeptIn, Control, Steady, BoundSet, History, MarkCollected, Reads
<1>11. CASE RerouteCheck \/ CheckProviderFails
  BY <1>0, <1>00, <1>000, <1>11
  DEF VerdictInv, KeptIn, Control, Steady, BoundSet, History, RerouteCheck, CheckProviderFails
<1>12. CASE ApplyCheck
  BY <1>0, <1>00, <1>000, <1>12, ApplyCheckIs
  DEF VerdictInv, KeptIn, Control, Steady, BoundSet, History, ApplyCheck, Reads, Queued
<1>13. CASE SaveCheck
  BY <1>0, <1>00, <1>000, <1>13
  DEF VerdictInv, KeptIn, Control, Steady, BoundSet, History, SaveCheck
<1>14. CASE FinishCheck
  <2>1. Reads(mem', mem.seen \cup obs.items, Pending(mem), mem.envs, 0, mem.applied, FALSE,
              mem.head, mem.ciAt)
    BY <1>14, FinishReads
  <2> QED
    BY <1>0, <1>00, <1>000, <1>14, <2>1
    DEF VerdictInv, KeptIn, Control, Steady, BoundSet, History, FinishCheck, Reads
<1>15. CASE PushRevision
  <2>1. Reads(mem', mem.seen, Pending(mem), 0, mem.check, mem.applied, mem.collected,
              mem.head, mem.ciAt)
    BY <1>15, ResetReads
  <2> QED
    BY <1>0, <1>00, <1>000, <1>15, <2>1
    DEF VerdictInv, KeptIn, Control, Steady, BoundSet, History, PushRevision, Reapable, Reads
<1>16. CASE UpdatePr
  <2>1. Reads(mem', mem.seen, Pending(mem), mem.envs, mem.check, mem.applied,
              mem.collected, gh.head, mem.ciAt)
    BY <1>16, UpdateReads
  <2> QED
    BY <1>0, <1>00, <1>000, <1>16, <2>1
    DEF VerdictInv, KeptIn, Control, Steady, BoundSet, History, UpdatePr, NoRun, Reads
<1>17. CASE FailRevision
  <2>1. Reads(mem', mem.seen, Pending(mem), 0, mem.check, mem.applied, mem.collected,
              mem.head, mem.ciAt)
    BY <1>17, ResetReads
  <2> QED
    BY <1>0, <1>00, <1>000, <1>17, <2>1
    DEF VerdictInv, KeptIn, Control, Steady, BoundSet, History, FailRevision, Reapable, NoRun,
        Reads
<1>18. CASE EnvStop
  <2>1. PICK pending \in {Pending(mem), run.brief} :
         /\ Reads(mem', mem.seen, pending, mem.envs + 1, mem.check, mem.applied,
                  mem.collected, mem.head, mem.ciAt)
         /\ pending = run.brief \/ mem.envs + 1 >= EnvCap
    BY <1>18, RestoreReads
  <2> QED
    BY <1>0, <1>00, <1>000, <1>18, <2>1
    DEF VerdictInv, KeptIn, Control, Steady, BoundSet, History, EnvStop, Reapable, Reads
<1>19. CASE EnvStopTransition
  BY <1>0, <1>00, <1>000, <1>19
  DEF VerdictInv, KeptIn, Control, Steady, BoundSet, History, EnvStopTransition, NoRun
<1>20. CASE Sweep
  BY <1>0, <1>00, <1>000, <1>20
  DEF VerdictInv, KeptIn, Control, Steady, BoundSet, History, Sweep, NoRun
<1>21. CASE RefreshFails
  BY <1>0, <1>00, <1>000, <1>21
  DEF VerdictInv, KeptIn, Control, Steady, BoundSet, History, RefreshFails
<1>22. CASE RefreshOpenPrs
  <2>1. PICK history \in SUBSET Trusted :
         Reads(mem', mem.seen \cup history, Pending(mem), mem.envs, mem.check, mem.applied,
                 mem.collected, mem.head, mem.ciAt)
        /\ ghost' = [ghost EXCEPT !.historical = @ \cup history]
        /\ obs'.items \cap (mem.seen \cup history) = {}
        /\ obs'.head = gh.head
    BY <1>22, RefreshReads
  <2> QED
    BY <1>0, <1>00, <1>000, <1>22, <2>1
    DEF VerdictInv, KeptIn, Control, Steady, BoundSet, History, RefreshOpenPrs, Reads
<1>23. CASE PollSkips
  BY <1>0, <1>00, <1>000, <1>23, SkipReads
  DEF VerdictInv, KeptIn, Control, Steady, BoundSet, History, PollSkips, Reads, Queued
<1>24. CASE PollApplies
  BY <1>0, <1>00, <1>000, <1>24, PollAppliesIs
  DEF VerdictInv, KeptIn, Control, Steady, BoundSet, History, PollApplies, Reads, Queued
<1>25. CASE PollStartsCheck
  <2>1. PICK at \in Nat :
         Reads(mem', mem.seen, Pending(mem), mem.envs, Len(chk) + 1, mem.applied, FALSE,
               obs.head, at)
    BY <1>25, StartsReads
  <2>2. Len(chk) + 1 \notin Closed /\ mem'.check = Len(chk) + 1 /\ mem'.applied = mem.applied
    BY <1>25, <2>1, CheckStarted DEF Closed, Reads
  <2>3. /\ pc = "poll" /\ pc' = "checking" /\ mem.check = 0 /\ task.status = "in_review"
        /\ task' = task /\ disk' = disk
        /\ left'.outage = left.outage /\ ghost'.killed = ghost.killed
    BY <1>0, <1>25 DEF PollStartsCheck, InReviewFlow, BoundSet, History
  <2> QED
    BY <1>00, <1>000, <2>2, <2>3 DEF VerdictInv, KeptIn
<1>26. CASE PollDefersCheck
  <2>1. PICK at \in Nat :
         Reads(CiObserved, mem.seen, Pending(mem), mem.envs, mem.check, mem.applied,
               mem.collected, obs.head, at)
    BY <1>26, ObservedReads
  <2> QED
    BY <1>0, <1>00, <1>000, <1>26, <2>1
    DEF VerdictInv, KeptIn, Control, Steady, BoundSet, History, PollDefersCheck, InReviewFlow,
        Reads
<1>27. CASE SaveCheckPointer
  BY <1>0, <1>00, <1>000, <1>27
  DEF VerdictInv, KeptIn, Control, Steady, BoundSet, History, SaveCheckPointer
<1>28. CASE TickStart
  BY <1>0, <1>00, <1>000, <1>28
  DEF VerdictInv, KeptIn, Control, Steady, BoundSet, History, TickStart
<1>29. CASE DispatchNothing
  BY <1>0, <1>00, <1>000, <1>29
  DEF VerdictInv, KeptIn, Control, Steady, BoundSet, History, DispatchNothing
<1>30. CASE DispatchStart
  <2>1. Reads(mem', mem.seen, {}, mem.envs, mem.check, mem.applied, mem.collected,
              mem.head, mem.ciAt)
    BY <1>30, DispatchReads
  <2> QED
    BY <1>0, <1>00, <1>000, <1>30, <2>1
    DEF VerdictInv, KeptIn, Control, Steady, BoundSet, History, DispatchStart, Dispatchable,
        RunInFlight, Reads
<1>31. CASE DispatchTransition
  BY <1>0, <1>00, <1>000, <1>31
  DEF VerdictInv, KeptIn, Control, Steady, BoundSet, History, DispatchTransition
<1>32. CASE DispatchSave
  BY <1>0, <1>00, <1>000, <1>32
  DEF VerdictInv, KeptIn, Control, Steady, BoundSet, History, DispatchSave
<1>33. CASE TickEnd
  <2>1. Reads(mem', mem.seen, Pending(mem), mem.envs, mem.check, mem.applied,
              mem.collected, mem.head, mem.ciAt)
    BY <1>33, AuditReads
  <2> QED
    BY <1>0, <1>00, <1>000, <1>33, <2>1
    DEF VerdictInv, KeptIn, Control, Steady, BoundSet, History, TickEnd, Reads
<1>34. CASE Crash
  BY <1>0, <1>00, <1>000, <1>34 DEF VerdictInv, KeptIn, Control, Steady, BoundSet, History, Crash
<1>35. CASE Retry
  <2>1. PICK pending \in SUBSET Parts :
         /\ Pending(disk) \subseteq pending /\ pending \subseteq Pending(disk) \cup {Note}
         /\ Reads(disk', disk.seen, pending, disk.envs, disk.check, disk.applied,
                  disk.collected, disk.head, disk.ciAt)
    BY <1>35, RetryReads
  <2> QED
    BY <1>0, <1>00, <1>000, <1>35, <2>1
    DEF VerdictInv, KeptIn, Control, Steady, BoundSet, History, Retry, NoRun, RunInFlight, Reads
<1>36. CASE ReserveManual \/ ReturnToAutomation
  <2>1. Reads(disk', disk.seen, Pending(disk), disk.envs, disk.check, disk.applied,
              disk.collected, disk.head, disk.ciAt)
    BY <1>36, ReserveReads
  <2> QED
    BY <1>0, <1>00, <1>000, <1>36, <2>1
    DEF VerdictInv, KeptIn, Control, Steady, BoundSet, History, ReserveManual,
        ReturnToAutomation, Reads
<1> QED
  BY <1>1, <1>2, <1>3, <1>4, <1>5, <1>6, <1>7, <1>8, <1>9, <1>10, <1>11, <1>12, <1>13, <1>14,
     <1>15, <1>16, <1>17, <1>18, <1>19, <1>20, <1>21, <1>22, <1>23, <1>24, <1>25, <1>26, <1>27,
     <1>28, <1>29, <1>30, <1>31, <1>32, <1>33, <1>34, <1>35, <1>36
  DEF Next, Tick, Reap, Poll, Dispatch, World, Exits, Operator

-----------------------------------------------------------------------------
(* Feedback rounds: the flaky-CI rerun is spent once.                      *)

\* An entry whose continuation may still ask for the rerun has not counted one.
Unspent(s) ==
    s.check # 0 /\ s.check \notin s.applied /\ chk[s.check].rerun => s.reruns = 0

\* RerunOnce with what makes it inductive: it is claimed of the copy as well, only a
\* check run that was given the budget asks for the rerun, and a run that was given
\* it and is not applied finds it unspent.
RerunInv ==
    /\ \A k \in DOMAIN chk : chk[k].flaky => chk[k].rerun
    /\ mem.reruns <= 1 /\ disk.reruns <= 1
    /\ Unspent(mem) /\ Unspent(disk)

\* Only _after_ci_check counts a rerun.
LEMMA RerunsStay ==
  ASSUME Shape, [Next]_vars
  PROVE  mem'.reruns = mem.reruns \/ mem' = disk \/ (pc = "idle" /\ mem'.reruns = disk.reruns)
         \/ (pc = "collected" /\ pc' = "applied")
<1> DEFINE Stay == \/ mem'.reruns = mem.reruns \/ mem' = disk
                   \/ pc = "idle" /\ mem'.reruns = disk.reruns
                   \/ pc = "collected" /\ pc' = "applied"
<1>0. mem \in States /\ disk \in States
  BY DEF Shape
<1>1. ASSUME ForgetCheck \/ DropCheck \/ CheckPrUnknown \/ MarkCollected PROVE Stay
  BY <1>0, <1>1 DEF States, ForgetCheck, DropCheck, CheckPrUnknown, MarkCollected
<1>2. ASSUME PushRevision \/ FailRevision \/ UpdatePr \/ TickEnd PROVE Stay
  BY <1>0, <1>2 DEF States, PushRevision, FailRevision, UpdatePr, TickEnd
<1>3. ASSUME FinishCheck PROVE Stay
  <2>1. PICK s : s = [mem EXCEPT !.check = 0, !.collected = FALSE]
    OBVIOUS
  <2>2. mem' = [s EXCEPT !.seen = @ \cup obs.items]
    BY <1>3, <2>1 DEF FinishCheck, RememberFeedback
  <2>3. s \in States /\ s.reruns = mem.reruns
    BY <1>0, <2>1 DEF States
  <2> QED
    BY <2>2, <2>3 DEF States
<1>4. ASSUME EnvStop PROVE Stay
  BY <1>0, <1>4 DEF States, EnvStop, RestoredState
<1>5. ASSUME RefreshOpenPrs PROVE Stay
  BY <1>0, <1>5 DEF States, RefreshOpenPrs
<1>6. ASSUME PollSkips PROVE Stay
  BY <1>0, <1>6 DEF States, PollSkips
<1>7. ASSUME PollApplies PROVE Stay
  BY <1>7, PollAppliesIs
<1>8. ASSUME PollStartsCheck \/ PollDefersCheck PROVE Stay
  <2>1. CiObserved \in States /\ CiObserved.reruns = mem.reruns
    BY CiObservedIs
  <2> QED
    BY <1>8, <2>1 DEF States, PollStartsCheck, PollDefersCheck
<1>9. ASSUME DispatchStart PROVE Stay
  BY <1>0, <1>9 DEF States, DispatchStart
<1>10. ASSUME Operator PROVE Stay
  <2>1. CASE ReserveManual \/ ReturnToAutomation
    BY <1>0, <2>1 DEF States, ReserveManual, ReturnToAutomation
  <2>2. CASE Retry
    <3>1. PICK revs : revs = IF disk.revs >= MaxRevisions THEN MaxRevisions - 1 ELSE disk.revs
      OBVIOUS
    <3>2. PICK s : s = [disk EXCEPT !.human = FALSE, !.revs = revs]
      OBVIOUS
    <3>3. s.reruns = disk.reruns /\ [s EXCEPT !.prior = {Note}].reruns = disk.reruns
      BY <1>0, <3>2 DEF States
    <3>4. mem' = s \/ mem' = [s EXCEPT !.prior = {Note}]
      BY <2>2, <3>1, <3>2 DEF Retry
    <3> QED
      BY <2>2, <3>3, <3>4 DEF Retry
  <2> QED
    BY <1>10, <2>1, <2>2 DEF Operator
<1>11. ASSUME TickStart \/ Crash \/ ApplyCheck PROVE Stay
  BY <1>11 DEF TickStart, Crash, ApplyCheck
<1>12. ASSUME UNCHANGED mem PROVE Stay
  BY <1>12
<1>13. Reap => \/ ForgetCheck \/ DropCheck \/ CheckPrUnknown \/ MarkCollected \/ PushRevision
               \/ FailRevision \/ UpdatePr \/ FinishCheck \/ EnvStop \/ ApplyCheck
               \/ UNCHANGED mem
  BY DEF Reap, ReapNothing, CloseCheck, RerouteCheck, CheckProviderFails, SaveCheck,
         EnvStopTransition, Sweep
<1>14. Poll => \/ RefreshOpenPrs \/ PollSkips \/ PollApplies \/ PollStartsCheck
               \/ PollDefersCheck \/ UNCHANGED mem
  BY DEF Poll, RefreshFails, SaveCheckPointer
<1>15. Dispatch => DispatchStart \/ UNCHANGED mem
  BY DEF Dispatch, DispatchNothing, DispatchTransition, DispatchSave
<1>16. World \/ Exits \/ UNCHANGED vars => UNCHANGED mem
  BY DEF World, Clock, Comment, CiFinishes, HumanPush, Exits, WorkerExits, CheckExits, vars
<1> QED
  BY <1>1, <1>2, <1>3, <1>4, <1>5, <1>6, <1>7, <1>8, <1>9, <1>10, <1>11, <1>12, <1>13, <1>14,
     <1>15, <1>16 DEF Next, Tick

\* The budget a check run was given does not change, and it asks for no rerun
\* without it.
LEMMA BudgetStays ==
  ASSUME Shape, Pointers, [Next]_vars, \A k \in DOMAIN chk : chk[k].flaky => chk[k].rerun
  PROVE  /\ \A k \in DOMAIN chk : chk'[k].rerun = chk[k].rerun
         /\ \A k \in DOMAIN chk' : chk'[k].flaky => chk'[k].rerun
<1>0. \A j \in DOMAIN chk : chk[j] \in CheckRuns
  BY LenProperties, ElementOfSeq DEF Shape
<1>2. CASE PollStartsCheck
  <2>1. \A k \in DOMAIN chk' : k \in DOMAIN chk \/ k = Len(chk) + 1
    BY <1>2, CheckStarted
  <2>2. ~chk'[Len(chk) + 1].flaky /\ \A j \in DOMAIN chk : chk'[j] = chk[j]
    BY <1>2, CheckStarted
  <2> QED
    BY <2>1, <2>2
<1>3. ASSUME NEW j \in DOMAIN chk, NEW flaky \in BOOLEAN, CheckExits(j, flaky)
      PROVE  /\ \A k \in DOMAIN chk : chk'[k].rerun = chk[k].rerun
             /\ \A k \in DOMAIN chk' : chk'[k].flaky => chk'[k].rerun
  <2>1. chk' = [chk EXCEPT ![j].st = "exited", ![j].flaky = flaky] /\ (flaky => chk[j].rerun)
    BY <1>3 DEF CheckExits
  <2>2. DOMAIN chk' = DOMAIN chk /\ \A k \in DOMAIN chk : k # j => chk'[k] = chk[k]
    BY <2>1
  <2>3. chk'[j].rerun = chk[j].rerun /\ chk'[j].flaky = flaky
    BY <1>0, <2>1 DEF CheckRuns
  <2> QED
    BY <1>3, <2>1, <2>2, <2>3
<1>4. CASE CloseCheck
  <2>1. chk' = [chk EXCEPT ![mem.check].st = "closed"]
    BY <1>4 DEF CloseCheck
  <2> QED
    BY <1>0, <2>1 DEF CheckRuns
<1>5. CASE Sweep
  BY <1>0, <1>5 DEF Sweep, CheckRuns
<1>6. CASE Retry
  BY <1>0, <1>6 DEF Retry, CheckRuns
<1>7. CASE UNCHANGED chk
  BY <1>7
<1> QED
  BY <1>2, <1>3, <1>4, <1>5, <1>6, <1>7, ChecksTouched

\* Every step keeps it.
LEMMA RerunStep ==
  ASSUME Shape, Pointers, Control, RerunInv, [Next]_vars
  PROVE  RerunInv'
<1>0. mem.reruns \in Nat /\ disk.reruns \in Nat
  BY DEF Shape, States
<1>00. /\ \A k \in DOMAIN chk : chk'[k].rerun = chk[k].rerun
       /\ \A k \in DOMAIN chk' : chk'[k].flaky => chk'[k].rerun
       /\ mem.check # 0 => mem.check \in DOMAIN chk
       /\ disk.check # 0 => disk.check \in DOMAIN chk
  BY BudgetStays, PointsAt DEF RerunInv
<1>000. mem'.reruns = mem.reruns \/ mem' = disk \/ (pc = "idle" /\ mem'.reruns = disk.reruns)
         \/ (pc = "collected" /\ pc' = "applied")
  BY RerunsStay
<1>1. CASE UNCHANGED vars
  BY <1>1 DEF RerunInv, Unspent, Control, Steady, vars
<1>2. CASE Clock \/ HumanPush
  BY <1>0, <1>00, <1>000, <1>2 DEF RerunInv, Unspent, Control, Steady, Clock, HumanPush
<1>3. ASSUME NEW c \in Comments, Comment(c) PROVE RerunInv'
  BY <1>0, <1>00, <1>000, <1>3 DEF RerunInv, Unspent, Control, Steady, Comment
<1>4. ASSUME NEW result \in {"SUCCESS", "FAILURE"}, CiFinishes(result) PROVE RerunInv'
  BY <1>0, <1>00, <1>000, <1>4 DEF RerunInv, Unspent, Control, Steady, CiFinishes
<1>5. ASSUME NEW result \in {"done", "failed", "env_error"}, WorkerExits(result) PROVE RerunInv'
  BY <1>0, <1>00, <1>000, <1>5 DEF RerunInv, Unspent, Control, Steady, WorkerExits
<1>6. ASSUME NEW k \in DOMAIN chk, NEW flaky \in BOOLEAN, CheckExits(k, flaky) PROVE RerunInv'
  BY <1>0, <1>00, <1>000, <1>6 DEF RerunInv, Unspent, Control, Steady, CheckExits
<1>7. CASE ReapNothing
  BY <1>0, <1>00, <1>000, <1>7 DEF RerunInv, Unspent, Control, Steady, ReapNothing, Reapable
<1>8. CASE ForgetCheck \/ DropCheck \/ CheckPrUnknown
  <2>1. Reads(mem', mem.seen, Pending(mem), mem.envs, 0, mem.applied, FALSE, mem.head, mem.ciAt)
    BY <1>8, ClearReads
  <2> QED
    BY <1>0, <1>00, <1>000, <1>8, <2>1
    DEF RerunInv, Unspent, Control, Steady, ForgetCheck, DropCheck, CheckPrUnknown, Reads
<1>9. CASE CloseCheck
  BY <1>0, <1>00, <1>000, <1>9 DEF RerunInv, Unspent, Control, Steady, CloseCheck
<1>10. CASE MarkCollected
  <2>1. Reads(mem', mem.seen, Pending(mem), mem.envs, mem.check, mem.applied, TRUE,
              mem.head, mem.ciAt)
    BY <1>10, CollectReads
  <2> QED
    BY <1>0, <1>00, <1>000, <1>10, <2>1 DEF RerunInv, Unspent, Control, Steady, MarkCollected, Reads
<1>11. CASE RerouteCheck \/ CheckProviderFails
  BY <1>0, <1>00, <1>000, <1>11
  DEF RerunInv, Unspent, Control, Steady, RerouteCheck, CheckProviderFails
<1>12. CASE ApplyCheck
  <2>1. /\ mem'.reruns = IF Current.flaky THEN mem.reruns + 1 ELSE mem.reruns
        /\ mem'.check = mem.check /\ mem'.applied = mem.applied \cup {mem.check}
    BY <1>12, ApplyCheckIs
  <2>2. mem.check \notin mem.applied /\ mem.check # 0 /\ disk' = disk
    BY <1>12 DEF ApplyCheck, CheckObsolete, Pointers
  <2>3. Current.flaky => mem.reruns = 0
    BY <1>00, <2>2 DEF RerunInv, Unspent, Current
  <2>4. mem'.reruns <= 1
    BY <1>0, <2>1, <2>3 DEF RerunInv
  <2> QED
    BY <1>00, <2>1, <2>2, <2>4 DEF RerunInv, Unspent
<1>13. CASE SaveCheck
  BY <1>0, <1>00, <1>000, <1>13 DEF RerunInv, Unspent, Control, Steady, SaveCheck
<1>14. CASE FinishCheck
  <2>1. Reads(mem', mem.seen \cup obs.items, Pending(mem), mem.envs, 0, mem.applied, FALSE,
              mem.head, mem.ciAt)
    BY <1>14, FinishReads
  <2> QED
    BY <1>0, <1>00, <1>000, <1>14, <2>1 DEF RerunInv, Unspent, Control, Steady, FinishCheck, Reads
<1>15. CASE PushRevision
  <2>1. Reads(mem', mem.seen, Pending(mem), 0, mem.check, mem.applied, mem.collected,
              mem.head, mem.ciAt)
    BY <1>15, ResetReads
  <2> QED
    BY <1>0, <1>00, <1>000, <1>15, <2>1
    DEF RerunInv, Unspent, Control, Steady, PushRevision, Reapable, Reads
<1>16. CASE UpdatePr
  <2>1. Reads(mem', mem.seen, Pending(mem), mem.envs, mem.check, mem.applied,
              mem.collected, gh.head, mem.ciAt)
    BY <1>16, UpdateReads
  <2> QED
    BY <1>0, <1>00, <1>000, <1>16, <2>1
    DEF RerunInv, Unspent, Control, Steady, UpdatePr, NoRun, Reads
<1>17. CASE FailRevision
  <2>1. Reads(mem', mem.seen, Pending(mem), 0, mem.check, mem.applied, mem.collected,
              mem.head, mem.ciAt)
    BY <1>17, ResetReads
  <2> QED
    BY <1>0, <1>00, <1>000, <1>17, <2>1
    DEF RerunInv, Unspent, Control, Steady, FailRevision, Reapable, NoRun, Reads
<1>18. CASE EnvStop
  <2>1. PICK pending \in {Pending(mem), run.brief} :
         /\ Reads(mem', mem.seen, pending, mem.envs + 1, mem.check, mem.applied,
                  mem.collected, mem.head, mem.ciAt)
         /\ pending = run.brief \/ mem.envs + 1 >= EnvCap
    BY <1>18, RestoreReads
  <2> QED
    BY <1>0, <1>00, <1>000, <1>18, <2>1
    DEF RerunInv, Unspent, Control, Steady, EnvStop, Reapable, Reads
<1>19. CASE EnvStopTransition
  BY <1>0, <1>00, <1>000, <1>19 DEF RerunInv, Unspent, Control, Steady, EnvStopTransition, NoRun
<1>20. CASE Sweep
  BY <1>0, <1>00, <1>000, <1>20 DEF RerunInv, Unspent, Control, Steady, Sweep, NoRun
<1>21. CASE RefreshFails
  BY <1>0, <1>00, <1>000, <1>21 DEF RerunInv, Unspent, Control, Steady, RefreshFails
<1>22. CASE RefreshOpenPrs
  <2>1. PICK history \in SUBSET Trusted :
         Reads(mem', mem.seen \cup history, Pending(mem), mem.envs, mem.check, mem.applied,
                 mem.collected, mem.head, mem.ciAt)
        /\ ghost' = [ghost EXCEPT !.historical = @ \cup history]
        /\ obs'.items \cap (mem.seen \cup history) = {}
        /\ obs'.head = gh.head
    BY <1>22, RefreshReads
  <2> QED
    BY <1>0, <1>00, <1>000, <1>22, <2>1
    DEF RerunInv, Unspent, Control, Steady, RefreshOpenPrs, Reads
<1>23. CASE PollSkips
  BY <1>0, <1>00, <1>000, <1>23, SkipReads
  DEF RerunInv, Unspent, Control, Steady, PollSkips, Reads, Queued
<1>24. CASE PollApplies
  BY <1>0, <1>00, <1>000, <1>24, PollAppliesIs
  DEF RerunInv, Unspent, Control, Steady, PollApplies, Reads, Queued
<1>25. CASE PollStartsCheck
  <2>1. PICK at \in Nat :
         Reads(mem', mem.seen, Pending(mem), mem.envs, Len(chk) + 1, mem.applied, FALSE,
               obs.head, at)
    BY <1>25, StartsReads
  <2>2. mem'.check = Len(chk) + 1 /\ mem'.reruns = mem.reruns
    BY <1>25, <2>1, CiObservedIs DEF Reads, PollStartsCheck, States
  <2>3. chk'[Len(chk) + 1].rerun => mem.reruns = 0
    BY <1>0, <1>25, CheckStarted
  <2>4. disk' = disk
    BY <1>25 DEF PollStartsCheck
  <2> QED
    BY <1>0, <1>00, <2>2, <2>3, <2>4 DEF RerunInv, Unspent
<1>26. CASE PollDefersCheck
  <2>1. PICK at \in Nat :
         Reads(CiObserved, mem.seen, Pending(mem), mem.envs, mem.check, mem.applied,
               mem.collected, obs.head, at)
    BY <1>26, ObservedReads
  <2> QED
    BY <1>0, <1>00, <1>000, <1>26, <2>1
    DEF RerunInv, Unspent, Control, Steady, PollDefersCheck, InReviewFlow, Reads
<1>27. CASE SaveCheckPointer
  BY <1>0, <1>00, <1>000, <1>27 DEF RerunInv, Unspent, Control, Steady, SaveCheckPointer
<1>28. CASE TickStart
  BY <1>0, <1>00, <1>000, <1>28 DEF RerunInv, Unspent, Control, Steady, TickStart
<1>29. CASE DispatchNothing
  BY <1>0, <1>00, <1>000, <1>29 DEF RerunInv, Unspent, Control, Steady, DispatchNothing
<1>30. CASE DispatchStart
  <2>1. Reads(mem', mem.seen, {}, mem.envs, mem.check, mem.applied, mem.collected,
              mem.head, mem.ciAt)
    BY <1>30, DispatchReads
  <2> QED
    BY <1>0, <1>00, <1>000, <1>30, <2>1
    DEF RerunInv, Unspent, Control, Steady, DispatchStart, Dispatchable, RunInFlight, Reads
<1>31. CASE DispatchTransition
  BY <1>0, <1>00, <1>000, <1>31 DEF RerunInv, Unspent, Control, Steady, DispatchTransition
<1>32. CASE DispatchSave
  BY <1>0, <1>00, <1>000, <1>32 DEF RerunInv, Unspent, Control, Steady, DispatchSave
<1>33. CASE TickEnd
  <2>1. Reads(mem', mem.seen, Pending(mem), mem.envs, mem.check, mem.applied,
              mem.collected, mem.head, mem.ciAt)
    BY <1>33, AuditReads
  <2> QED
    BY <1>0, <1>00, <1>000, <1>33, <2>1 DEF RerunInv, Unspent, Control, Steady, TickEnd, Reads
<1>34. CASE Crash
  BY <1>0, <1>00, <1>000, <1>34 DEF RerunInv, Unspent, Control, Steady, Crash
<1>35. CASE Retry
  <2>1. PICK pending \in SUBSET Parts :
         /\ Pending(disk) \subseteq pending /\ pending \subseteq Pending(disk) \cup {Note}
         /\ Reads(disk', disk.seen, pending, disk.envs, disk.check, disk.applied,
                  disk.collected, disk.head, disk.ciAt)
    BY <1>35, RetryReads
  <2> QED
    BY <1>0, <1>00, <1>000, <1>35, <2>1
    DEF RerunInv, Unspent, Control, Steady, Retry, NoRun, RunInFlight, Reads
<1>36. CASE ReserveManual \/ ReturnToAutomation
  <2>1. Reads(disk', disk.seen, Pending(disk), disk.envs, disk.check, disk.applied,
              disk.collected, disk.head, disk.ciAt)
    BY <1>36, ReserveReads
  <2> QED
    BY <1>0, <1>00, <1>000, <1>36, <2>1
    DEF RerunInv, Unspent, Control, Steady, ReserveManual, ReturnToAutomation, Reads
<1> QED
  BY <1>1, <1>2, <1>3, <1>4, <1>5, <1>6, <1>7, <1>8, <1>9, <1>10, <1>11, <1>12, <1>13, <1>14,
     <1>15, <1>16, <1>17, <1>18, <1>19, <1>20, <1>21, <1>22, <1>23, <1>24, <1>25, <1>26, <1>27,
     <1>28, <1>29, <1>30, <1>31, <1>32, <1>33, <1>34, <1>35, <1>36
  DEF Next, Tick, Reap, Poll, Dispatch, World, Exits, Operator

-----------------------------------------------------------------------------
(* Feedback rounds: the theorems.                                          *)

\* What every reachable state satisfies.
FeedbackInv ==
    /\ Shape /\ Pointers /\ Control
    /\ Capped /\ KeptInv
    /\ OnceInv
    /\ RoutedInv
    /\ Heads /\ VerdictInv
    /\ RerunInv

\* It holds of a task whose pull request was just opened.
LEMMA FeedbackInit == Init => FeedbackInv
<1> SUFFICES ASSUME Init
             PROVE  FeedbackInv
  OBVIOUS
<1>1. EnvCap \in Nat \ {0} /\ MaxTime \in Nat \ {0} /\ left \in BoundSet
  BY FeedbackAssumption DEF Init
<1>2. mem = disk /\ disk = EmptyState
  BY DEF Init
<1>3. EmptyState \in States
  BY DEF EmptyState, States
<1>4. chk = <<>> /\ chk \in Seq(CheckRuns) /\ Len(chk) = 0 /\ DOMAIN chk = {}
  BY EmptySeq DEF Init
<1>5. Shape
  <2>1. gh \in Provider /\ now \in 1..MaxTime
    BY <1>1 DEF Init, Provider
  <2>2. task \in [status : Statuses, dispatched : Nat] /\ pc \in Places
    BY DEF Init, Statuses, Places
  <2>3. run \in WorkerRuns /\ obs \in Observations
    BY DEF Init, NoRun, WorkerRuns, NoObs, Observations
  <2>4. ghost \in History
    BY DEF Init, History
  <2> QED
    BY <1>1, <1>2, <1>3, <1>4, <2>1, <2>2, <2>3, <2>4 DEF Shape
<1>6. /\ mem.check = 0 /\ disk.check = 0 /\ mem.seen = {} /\ disk.seen = {}
      /\ mem.envs = 0 /\ disk.envs = 0 /\ mem.ciAt = 0 /\ disk.ciAt = 0
      /\ Pending(mem) = {} /\ Pending(disk) = {}
      /\ mem.reruns = 0 /\ disk.reruns = 0
  BY <1>2 DEF EmptyState, Pending
<1>7. /\ pc = "idle" /\ task.status = "in_review" /\ run.st = "none" /\ run.res = "none"
      /\ gh.head = 1 /\ obs.head = 0
      /\ \A c \in Trusted : ghost.finished[c] = 0
  BY DEF Init, NoRun, NoObs
<1>8. Pointers /\ Control
  BY <1>2, <1>4, <1>6, <1>7 DEF Pointers, Control
<1>9. Capped /\ KeptInv
  BY <1>1, <1>6, <1>7 DEF Capped, KeptInv, Accounted
<1>10. OnceInv
  BY <1>6, <1>7 DEF OnceInv, Past
<1>11. RoutedInv
  BY <1>6 DEF RoutedInv
<1>12. Heads /\ VerdictInv
  BY <1>4, <1>6, <1>7 DEF Heads, VerdictInv, KeptIn, Closed, Concluded
<1>13. RerunInv
  BY <1>4, <1>6 DEF RerunInv, Unspent
<1> QED
  BY <1>5, <1>8, <1>9, <1>10, <1>11, <1>12, <1>13 DEF FeedbackInv

\* It holds in every reachable state.
LEMMA FeedbackHolds == Spec => []FeedbackInv
<1>1. FeedbackInv /\ [Next]_vars => FeedbackInv'
  BY ShapeStep, PointersStep, ControlStep, CappedStep, KeptStep, OnceStep, RoutedStep,
     HeadsStep, VerdictStep, RerunStep DEF FeedbackInv
<1> QED
  BY FeedbackInit, <1>1, PTL DEF Spec

\* A comment is worked on once (poll and _remember_feedback: "handled comments
\* cannot consume another revision attempt"): as long as the controller is not
\* killed, no comment is in the briefs of two revise rounds that finished, for
\* any number of comments, rounds, check runs, pushes and operator actions.
THEOREM CommentWorkedOnOnce == Spec => []HandledOnce
<1>1. FeedbackInv => HandledOnce
  BY DEF FeedbackInv, OnceInv, HandledOnce
<1> QED
  BY <1>1, FeedbackHolds, PTL

\* A comment whose identity the file remembers is accounted for, however often the
\* controller is killed between the writes of a pass (_remember_feedback,
\* _handle_env_stop, dispatch): it predates the dispatch, waits in the pending
\* feedback, is in the brief of the round under way or was in one that ended.
THEOREM FeedbackNeverDropped == Spec => []FeedbackKept
<1>1. FeedbackInv => FeedbackKept
  <2> SUFFICES ASSUME FeedbackInv, disk.envs < EnvCap, NEW c \in disk.seen
               PROVE  \/ c \in ghost.historical \cup ghost.delivered \cup Pending(disk)
                      \/ c \in run.brief /\ run.st \in {"live", "exited", "parked"}
    BY DEF FeedbackKept
  <2>1. KeptInv /\ Accounted(disk)
    BY DEF FeedbackInv, KeptInv
  <2>2. CASE task.status = "running"
    <3>1. run.st \in {"live", "exited", "parked"}
      BY <2>2 DEF FeedbackInv, Control, Shape, WorkerRuns
    <3> QED
      BY <2>1, <2>2, <3>1 DEF Accounted, Done
  <2>3. CASE task.status # "running"
    BY <2>1, <2>3 DEF KeptInv, Done
  <2> QED
    BY <2>2, <2>3
<1> QED
  BY <1>1, FeedbackHolds, PTL

\* A CI failure the file records as handled had its analyser started on that head,
\* however often the controller is killed (poll, _dispatch_check_run), where local
\* admission refuses no check run.
THEOREM FailureReachesAnalyser == Spec => []CiFailureRouted
<1>1. FeedbackInv => CiFailureRouted
  BY DEF FeedbackInv, RoutedInv, CiFailureRouted
<1> QED
  BY <1>1, FeedbackHolds, PTL

\* A collected verdict on the head the pull request still has was applied, or its
\* continuation is still there to apply it (reap_check, _after_ci_check), as long as
\* the controller is not killed and the provider answers.
THEOREM VerdictNeverLost == Spec => []CiVerdictKept
<1>1. FeedbackInv => CiVerdictKept
  BY DEF FeedbackInv, VerdictInv, KeptIn, Closed, Concluded, CiVerdictKept
<1> QED
  BY <1>1, FeedbackHolds, PTL

\* The one rerun of flaky CI is asked for once, however often the controller is
\* killed between collecting the analyser's results and clearing its continuation
\* (_after_ci_check, applied_ci_feedback).
THEOREM RerunSpentOnce == Spec => []RerunOnce
<1>1. FeedbackInv => RerunOnce
  BY DEF FeedbackInv, RerunInv, RerunOnce
<1> QED
  BY <1>1, FeedbackHolds, PTL

-----------------------------------------------------------------------------
(* The shared file: what is known of a process's copy of an entry.         *)

\* What is known of one key of one process: the value a caller can change in
\* place is present, and named or copied; a copy of a key that was not named
\* since equals what the file had; and a key without one is unchanged.
KeyOK(p, k) ==
    /\ k \in held[p] => val[p][k] # Absent /\ (k \in written[p] \/ snap[p][k] # Absent)
    /\ k \notin written[p] /\ snap[p][k] # Absent => snap[p][k] = base[p][k]
    /\ k \notin written[p] /\ snap[p][k] = Absent => val[p][k] = base[p][k]
    /\ k \notin written[p] /\ val[p][k] = Absent => base[p][k] = Absent
    /\ k \notin changed[p] => k \notin written[p] /\ val[p][k] = base[p][k]

Tracking == \A p \in Procs, k \in AllKeys : KeyOK(p, k)

SharingInv == FileTypeOK /\ Tracking

-----------------------------------------------------------------------------
(* Entries.                                                                *)

\* The empty entry is one.
LEMMA NothingEntry == Nothing \in Entries
  BY StateFileAssumption DEF Nothing, Entries, AllKeys

\* Setting one ordinary key gives an entry (__setitem__, pop).
LEMMA EntryUpdate ==
  ASSUME NEW e \in Entries, NEW k \in Keys, NEW v \in Values \cup {Absent}
  PROVE  [e EXCEPT ![k] = v] \in Entries
  BY StateFileAssumption DEF Entries, AllKeys

\* Taking each key from one of two entries gives an entry (save, flushed).
LEMMA EntryMerge ==
  ASSUME NEW e \in Entries, NEW f \in Entries, NEW ks
  PROVE  [k \in AllKeys |-> IF k \in ks THEN e[k] ELSE f[k]] \in Entries
  BY DEF Entries, AllKeys

\* The copies handed out form an entry (__getitem__).
LEMMA EntryCopied ==
  ASSUME FileTypeOK, NEW p \in Procs, NEW ks
  PROVE  Copied(p, ks) \in Entries
  BY DEF FileTypeOK, Copied, Entries, AllKeys

\* The historical keys of an entry are a payload.
LEMMA EntryPayload ==
  ASSUME NEW e \in Entries
  PROVE  PayloadOf(e) \in Payloads
  BY DEF PayloadOf, Payloads, Entries, AllKeys, Keys

\* Replacing a payload by its reference gives an entry (commit_completed).
LEMMA EntryArchived ==
  ASSUME FileTypeOK, NEW p \in Procs, NEW e \in Entries
  PROVE  Archived(p, e) \in Entries
<1>1. plan[p] \in Payloads
  BY DEF FileTypeOK
<1> QED
  BY <1>1, StateFileAssumption DEF Archived, Planned, Entries, AllKeys

\* Restoring a payload gives an entry (restore_operational).
LEMMA EntryWhole ==
  ASSUME FileTypeOK, NEW p \in Procs
  PROVE  Whole(p) \in Entries
<1>1. val[p] \in Entries
  BY DEF FileTypeOK
<1>2. \A h \in Hist : val[p][Ref] # Absent => val[p][Ref][h] \in Values \cup {Absent}
  BY <1>1 DEF Entries, Payloads
<1>3. \A k \in Keys : View(val[p])[k] \in Values \cup {Absent}
  BY <1>1, <1>2 DEF View, Entries
<1> QED
  BY <1>3, StateFileAssumption DEF Whole, Entries, AllKeys

-----------------------------------------------------------------------------
(* Types.                                                                  *)

\* Saving keys of an entry keeps the types of what it writes.
LEMMA SavingTypes ==
  ASSUME FileTypeOK, NEW p \in Procs, NEW e \in Entries, NEW ks,
         Flushed(p, e, ks), Agree(p, e, ks)
  PROVE  /\ written' \in [Procs -> SUBSET Keys]
         /\ snap' \in [Procs -> Entries]
         /\ base' \in [Procs -> Entries]
         /\ changed' \in [Procs -> SUBSET Keys]
<1>1. /\ [k \in AllKeys |-> IF k \in ks THEN e[k] ELSE snap[p][k]] \in Entries
      /\ [k \in AllKeys |-> IF k \in ks THEN e[k] ELSE base[p][k]] \in Entries
  <2>1. snap[p] \in Entries /\ base[p] \in Entries
    BY DEF FileTypeOK
  <2> QED
    BY <2>1, EntryMerge
<1> QED
  BY <1>1 DEF FileTypeOK, Flushed, Agree

\* Every step keeps the types.
LEMMA FileTypeStep ==
  ASSUME FileTypeOK, [FileNext]_fileVars
  PROVE  FileTypeOK'
<1>1. CASE UNCHANGED fileVars
  BY <1>1 DEF FileTypeOK, fileVars, tracking
<1>2. CASE ChangeStatus
  BY <1>2 DEF ChangeStatus, FileTypeOK, tracking
<1>3. ASSUME NEW p \in Procs, Load(p) PROVE FileTypeOK'
  BY <1>3, NothingEntry DEF Load, FileTypeOK
<1>4. ASSUME NEW p \in Procs, Change(p) PROVE FileTypeOK'
  <2>1. PICK k \in Keys :
           \/ Read(p, k) \/ Delete(p, k)
           \/ \E v \in Values : ChangeInPlace(p, k, v) \/ Write(p, k, v) \/ SetDefault(p, k, v)
    BY <1>4 DEF Change
  <2>2. CASE Read(p, k)
    BY <2>2, EntryCopied DEF Read, FileTypeOK
  <2>3. val[p] \in Entries /\ snap[p] \in Entries
    BY DEF FileTypeOK
  <2>4. ASSUME NEW v \in Values \cup {Absent}
        PROVE  /\ [val EXCEPT ![p][k] = v] \in [Procs -> Entries]
               /\ [snap EXCEPT ![p][k] = v] \in [Procs -> Entries]
    BY <2>3, <2>4, EntryUpdate DEF FileTypeOK
  <2>5. Spend => budget' \in [changes : Nat, loads : Nat, archives : Nat]
    BY DEF Spend, FileTypeOK
  <2>6. ASSUME NEW v \in Values \cup {Absent}, Named(p, k, v)
         PROVE  /\ entry' \in Entries /\ terminal' \in BOOLEAN
                /\ val' \in [Procs -> Entries]
                /\ written' \in [Procs -> SUBSET Keys]
                /\ plan' \in [Procs -> Payloads] /\ base' \in [Procs -> Entries]
                /\ changed' \in [Procs -> SUBSET Keys]
                /\ budget' \in [changes : Nat, loads : Nat, archives : Nat]
    BY <2>4, <2>5, <2>6 DEF Named, FileTypeOK
  <2>7. /\ [held EXCEPT ![p] = @ \cup {k}] \in [Procs -> SUBSET Keys]
         /\ [held EXCEPT ![p] = @ \ {k}] \in [Procs -> SUBSET Keys]
    BY DEF FileTypeOK
  <2>8. CASE Delete(p, k)
    BY <2>4, <2>8, <2>6, <2>7 DEF Delete, FileTypeOK
  <2>9. ASSUME NEW v \in Values, ChangeInPlace(p, k, v) PROVE FileTypeOK'
    BY <2>4, <2>9, <2>5 DEF ChangeInPlace, tracking, FileTypeOK
  <2>10. ASSUME NEW v \in Values, Write(p, k, v) PROVE FileTypeOK'
    BY <2>4, <2>10, <2>6, <2>7 DEF Write, FileTypeOK
  <2>11. ASSUME NEW v \in Values, SetDefault(p, k, v) PROVE FileTypeOK'
    BY <2>4, <2>11, <2>6, <2>7 DEF SetDefault, FileTypeOK
  <2> QED
    BY <2>1, <2>2, <2>8, <2>9, <2>10, <2>11
<1>5. ASSUME NEW p \in Procs, Save(p) PROVE FileTypeOK'
  <2>1. val[p] \in Entries
    BY DEF FileTypeOK
  <2>2. entry' \in Entries
    BY <1>5, <2>1, EntryMerge DEF Save, Merged, FileTypeOK
  <2> QED
    BY <1>5, <2>1, <2>2, SavingTypes DEF Save, FileTypeOK
<1>6. ASSUME NEW p \in Procs, Prepare(p) PROVE FileTypeOK'
  <2>1. PayloadOf(val[p]) \in Payloads /\ Copied(p, Hist) \in Entries
    BY EntryPayload, EntryCopied DEF FileTypeOK
  <2> QED
    BY <1>6, <2>1 DEF Prepare, FileTypeOK
<1>7. ASSUME NEW p \in Procs, Commit(p) PROVE FileTypeOK'
  <2>1. Archived(p, entry) \in Entries /\ Archived(p, val[p]) \in Entries
    BY EntryArchived DEF FileTypeOK
  <2>2. NoPayload \in Payloads
    BY DEF NoPayload, Payloads
  <2>3. /\ written' \in [Procs -> SUBSET Keys]
        /\ snap' \in [Procs -> Entries]
        /\ base' \in [Procs -> Entries]
        /\ changed' \in [Procs -> SUBSET Keys]
    BY <1>7, <2>1, SavingTypes DEF Commit
  <2> QED
    BY <1>7, <2>1, <2>2, <2>3 DEF Commit, FileTypeOK
<1>8. ASSUME NEW p \in Procs, CommitSkipped(p) PROVE FileTypeOK'
  <2>1. NoPayload \in Payloads /\ Copied(p, Hist) \in Entries
    BY EntryCopied DEF NoPayload, Payloads
  <2> QED
    BY <1>8, <2>1 DEF CommitSkipped, FileTypeOK
<1>9. ASSUME NEW p \in Procs, RestoreOperational(p) PROVE FileTypeOK'
  <2>1. Whole(p) \in Entries
    BY EntryWhole
  <2>2. entry' \in Entries
    BY <1>9, <2>1, EntryMerge DEF RestoreOperational, Merged, FileTypeOK
  <2>3. /\ written' \in [Procs -> SUBSET Keys]
        /\ snap' \in [Procs -> Entries]
        /\ base' \in [Procs -> Entries]
        /\ changed' \in [Procs -> SUBSET Keys]
    BY <1>9, <2>1, SavingTypes DEF RestoreOperational
  <2> QED
    BY <1>9, <2>1, <2>2, <2>3 DEF RestoreOperational, FileTypeOK
<1> QED
  BY <1>1, <1>2, <1>3, <1>4, <1>5, <1>6, <1>7, <1>8, <1>9 DEF FileNext

\* The program starts well-typed.
LEMMA FileTypeInit == FileInit => FileTypeOK
<1>1. NoPayload \in Payloads
  BY DEF NoPayload, Payloads
<1>2. MaxChanges \in Nat /\ MaxLoads \in Nat /\ MaxArchives \in Nat
  BY StateFileAssumption
<1> SUFFICES ASSUME FileInit PROVE FileTypeOK
  OBVIOUS
<1>3. budget \in [changes : Nat, loads : Nat, archives : Nat]
  BY <1>2 DEF FileInit
<1>4. terminal \in BOOLEAN
  BY DEF FileInit
<1>5. /\ written \in [Procs -> SUBSET Keys] /\ held \in [Procs -> SUBSET Keys]
      /\ changed \in [Procs -> SUBSET Keys]
  BY DEF FileInit
<1>6. /\ entry \in Entries /\ val \in [Procs -> Entries] /\ snap \in [Procs -> Entries]
      /\ base \in [Procs -> Entries] /\ plan \in [Procs -> Payloads]
  BY <1>1, NothingEntry DEF FileInit
<1> QED
  BY <1>3, <1>4, <1>5, <1>6 DEF FileTypeOK

\* Every operation on state.json keeps the file's entry and every process's
\* copy, copies and plan well-formed, for any keys, values and processes.
THEOREM FileTypeCorrect == FileSpec => []FileTypeOK
<1>1. FileTypeOK /\ [FileNext]_fileVars => FileTypeOK'
  BY FileTypeStep
<1> QED
  BY <1>1, FileTypeInit, PTL DEF FileSpec

-----------------------------------------------------------------------------
(* What is known of every key.                                             *)

\* What one process does to its own copy leaves the others' tracking alone.
LEMMA OthersKept ==
  ASSUME Tracking, NEW p \in Procs,
         \A q \in Procs \ {p} :
           /\ val'[q] = val[q] /\ written'[q] = written[q] /\ snap'[q] = snap[q]
           /\ held'[q] = held[q] /\ base'[q] = base[q] /\ changed'[q] = changed[q],
         \A k \in AllKeys : KeyOK(p, k)'
  PROVE  Tracking'
  BY DEF Tracking, KeyOK

\* Saved keys agree with the file, and their copies are renewed (flushed).
LEMMA SavingTracks ==
  ASSUME FileTypeOK, NEW p \in Procs, NEW e \in Entries, NEW ks,
         Flushed(p, e, ks), Agree(p, e, ks),
         \A k \in AllKeys : KeyOK(p, k),
         \A k \in AllKeys : val'[p][k] = IF k \in ks THEN e[k] ELSE val[p][k],
         held'[p] \subseteq held[p],
         \A k \in held'[p] \cap ks : e[k] # Absent
  PROVE  \A k \in AllKeys : KeyOK(p, k)'
<1> SUFFICES ASSUME NEW k \in AllKeys PROVE KeyOK(p, k)'
  OBVIOUS
<1>1. /\ written'[p] = written[p] \ ks
      /\ changed'[p] = changed[p] \ ks
      /\ snap'[p][k] = IF k \in ks THEN e[k] ELSE snap[p][k]
      /\ base'[p][k] = IF k \in ks THEN e[k] ELSE base[p][k]
  BY DEF Flushed, Agree, FileTypeOK
<1>2. KeyOK(p, k)
  OBVIOUS
<1>3. CASE k \in ks
  BY <1>1, <1>3 DEF KeyOK
<1>4. CASE k \notin ks
  BY <1>1, <1>2, <1>4 DEF KeyOK
<1> QED
  BY <1>3, <1>4

\* Handing values out copies them as they are in the file, or leaves a named key
\* named (__getitem__, and the loops of prepare_completed).
LEMMA CopyingTracks ==
  ASSUME FileTypeOK, Tracking, NEW p \in Procs, NEW ks,
         snap' = [snap EXCEPT ![p] = Copied(p, ks)],
         UNCHANGED <<val, written, base, changed>>,
         \A q \in Procs \ {p} : held'[q] = held[q],
         \A k \in held'[p] \ held[p] : k \in ks /\ val[p][k] # Absent
  PROVE  Tracking'
<1>1. \A q \in Procs \ {p} : snap'[q] = snap[q]
  BY DEF FileTypeOK
<1>2. ASSUME NEW k \in AllKeys PROVE KeyOK(p, k)'
  <2>1. snap'[p][k] = IF k \in ks /\ snap[p][k] = Absent THEN val[p][k] ELSE snap[p][k]
    BY DEF Copied, FileTypeOK
  <2>2. KeyOK(p, k)
    BY DEF Tracking
  <2> QED
    BY <2>1, <2>2 DEF KeyOK
<1> QED
  BY <1>1, <1>2, OthersKept

\* A write that names its key (__setitem__, setdefault, pop).
LEMMA NamingTracks ==
  ASSUME FileTypeOK, Tracking, NEW p \in Procs, NEW k \in Keys, NEW v, NEW c,
         Named(p, k, v), snap' = [snap EXCEPT ![p][k] = c],
         \A q \in Procs \ {p} : held'[q] = held[q],
         \A j \in held'[p] \ {k} : j \in held[p],
         k \in held'[p] => v # Absent
  PROVE  Tracking'
<1>1. \A q \in Procs \ {p} :
        /\ val'[q] = val[q] /\ written'[q] = written[q] /\ snap'[q] = snap[q]
        /\ base'[q] = base[q] /\ changed'[q] = changed[q]
  BY DEF Named, FileTypeOK
<1>2. ASSUME NEW j \in AllKeys PROVE KeyOK(p, j)'
  <2>1. /\ val'[p][j] = IF j = k THEN v ELSE val[p][j]
        /\ snap'[p][j] = IF j = k THEN c ELSE snap[p][j]
        /\ base'[p] = base[p]
        /\ written'[p] = written[p] \cup {k} /\ changed'[p] = changed[p] \cup {k}
    BY DEF Named, FileTypeOK, Entries, AllKeys
  <2>2. KeyOK(p, j)
    BY DEF Tracking
  <2> QED
    BY <2>1, <2>2 DEF KeyOK
<1> QED
  BY <1>1, <1>2, OthersKept

\* Every step keeps what is known of every key.
LEMMA TrackingStep ==
  ASSUME SharingInv, [FileNext]_fileVars
  PROVE  Tracking'
<1> USE DEF SharingInv
<1>1. CASE UNCHANGED fileVars
  BY <1>1 DEF Tracking, KeyOK, fileVars, tracking
<1>2. CASE ChangeStatus
  BY <1>2 DEF ChangeStatus, Tracking, KeyOK, tracking
<1>3. ASSUME NEW p \in Procs, Load(p) PROVE Tracking'
  <2>1. \A q \in Procs \ {p} :
           /\ val'[q] = val[q] /\ written'[q] = written[q] /\ snap'[q] = snap[q]
           /\ held'[q] = held[q] /\ base'[q] = base[q] /\ changed'[q] = changed[q]
    BY <1>3 DEF Load, FileTypeOK
  <2>2. ASSUME NEW k \in AllKeys PROVE KeyOK(p, k)'
    BY <1>3 DEF Load, KeyOK, FileTypeOK, Nothing
  <2> QED
    BY <2>1, <2>2, OthersKept
<1>4. ASSUME NEW p \in Procs, Change(p) PROVE Tracking'
  <2>1. PICK k \in Keys :
           \/ Read(p, k) \/ Delete(p, k)
           \/ \E v \in Values : ChangeInPlace(p, k, v) \/ Write(p, k, v) \/ SetDefault(p, k, v)
    BY <1>4 DEF Change
  <2>2. CASE Read(p, k)
    <3>1. /\ \A q \in Procs \ {p} : held'[q] = held[q]
          /\ \A j \in held'[p] \ held[p] : j \in {k} /\ val[p][j] # Absent
      BY <2>2 DEF Read, FileTypeOK
    <3> QED
      BY <2>2, <3>1, CopyingTracks DEF Read
  <2>3. CASE Delete(p, k)
    <3>1. /\ \A q \in Procs \ {p} : held'[q] = held[q]
          /\ k \notin held'[p] /\ \A j \in held'[p] \ {k} : j \in held[p]
      BY <2>3 DEF Delete, FileTypeOK
    <3> QED
      BY <2>3, <3>1, NamingTracks DEF Delete
  <2>4. ASSUME NEW v \in Values, ChangeInPlace(p, k, v) PROVE Tracking'
    <3>1. \A q \in Procs \ {p} :
            /\ val'[q] = val[q] /\ written'[q] = written[q] /\ snap'[q] = snap[q]
            /\ held'[q] = held[q] /\ base'[q] = base[q] /\ changed'[q] = changed[q]
      BY <2>4 DEF ChangeInPlace, tracking, FileTypeOK
    <3>2. ASSUME NEW j \in AllKeys PROVE KeyOK(p, j)'
      <4>1. /\ val'[p][j] = IF j = k THEN v ELSE val[p][j]
            /\ changed'[p] = changed[p] \cup {k}
            /\ UNCHANGED <<held, snap, written, base>>
        BY <2>4 DEF ChangeInPlace, tracking, FileTypeOK, Entries, AllKeys
      <4>2. KeyOK(p, j) /\ k \in held[p] /\ v # Absent
        BY <2>4, StateFileAssumption DEF ChangeInPlace, Tracking
      <4> QED
        BY <4>1, <4>2 DEF KeyOK
    <3> QED
      BY <3>1, <3>2, OthersKept
  <2>5. ASSUME NEW v \in Values, Write(p, k, v) \/ SetDefault(p, k, v) PROVE Tracking'
    <3>1. /\ \A q \in Procs \ {p} : held'[q] = held[q]
          /\ \A j \in held'[p] \ {k} : j \in held[p]
      BY <2>5 DEF Write, SetDefault, FileTypeOK
    <3>2. v # Absent
      BY StateFileAssumption
    <3> QED
      BY <2>5, <3>1, <3>2, NamingTracks DEF Write, SetDefault
  <2> QED
    BY <2>1, <2>2, <2>3, <2>4, <2>5
<1>5. ASSUME NEW p \in Procs, NEW e \in Entries, NEW ks, Flushed(p, e, ks), Agree(p, e, ks),
             \A q \in Procs \ {p} : val'[q] = val[q] /\ held'[q] = held[q],
             \A k \in AllKeys : val'[p][k] = IF k \in ks THEN e[k] ELSE val[p][k],
             held'[p] \subseteq held[p],
             \A k \in held'[p] \cap ks : e[k] # Absent
      PROVE  Tracking'
  <2>1. \A q \in Procs \ {p} :
           /\ written'[q] = written[q] /\ snap'[q] = snap[q]
           /\ base'[q] = base[q] /\ changed'[q] = changed[q]
    BY <1>5 DEF Flushed, Agree, FileTypeOK
  <2>2. \A k \in AllKeys : KeyOK(p, k)'
    BY <1>5, SavingTracks DEF Tracking
  <2> QED
    BY <1>5, <2>1, <2>2, OthersKept
<1>6. ASSUME NEW p \in Procs, Save(p) PROVE Tracking'
  <2>1. val[p] \in Entries
    BY DEF FileTypeOK
  <2>2. \A k \in held[p] : val[p][k] # Absent
    BY DEF Tracking, KeyOK, FileTypeOK, AllKeys
  <2> QED
    BY <1>5, <1>6, <2>1, <2>2 DEF Save
<1>7. ASSUME NEW p \in Procs, Prepare(p) PROVE Tracking'
  BY <1>7, CopyingTracks DEF Prepare
<1>8. ASSUME NEW p \in Procs, Commit(p) PROVE Tracking'
  <2>1. Archived(p, val[p]) \in Entries
    BY EntryArchived DEF FileTypeOK
  <2>2. \A q \in Procs \ {p} : val'[q] = val[q] /\ held'[q] = held[q]
    BY <1>8 DEF Commit, FileTypeOK
  <2>3. val'[p] = Archived(p, val[p]) /\ held'[p] = held[p] \ Planned(p)
    BY <1>8 DEF Commit, FileTypeOK
  <2>4. \A k \in AllKeys \ Planned(p) : Archived(p, val[p])[k] = val[p][k]
    BY DEF Archived, Planned
  <2>5. Flushed(p, Archived(p, val[p]), Planned(p)) /\ Agree(p, Archived(p, val[p]), Planned(p))
    BY <1>8 DEF Commit
  <2> QED
    BY <1>5, <2>1, <2>2, <2>3, <2>4, <2>5
<1>9. ASSUME NEW p \in Procs, CommitSkipped(p) PROVE Tracking'
  <2>1. CASE terminal
    BY <1>9, <2>1, CopyingTracks DEF CommitSkipped
  <2>2. CASE ~terminal
    <3>1. snap' = snap
      BY <1>9, <2>2 DEF CommitSkipped, FileTypeOK
    <3> QED
      BY <1>9, <3>1 DEF CommitSkipped, Tracking, KeyOK
  <2> QED
    BY <2>1, <2>2
<1>10. ASSUME NEW p \in Procs, RestoreOperational(p) PROVE Tracking'
  <2>1. Whole(p) \in Entries
    BY EntryWhole
  <2>2. val'[p] = Whole(p) /\ held' = held /\ \A q \in Procs \ {p} : val'[q] = val[q]
    BY <1>10 DEF RestoreOperational, FileTypeOK
  <2>3. \A k \in AllKeys \ Restored(p) : Whole(p)[k] = val[p][k]
    BY StateFileAssumption DEF Whole, Restored, View, AllKeys, Keys
  <2>4. \A k \in held[p] \cap Restored(p) : Whole(p)[k] # Absent
    BY StateFileAssumption DEF Whole, Restored, AllKeys, FileTypeOK
  <2>5. Flushed(p, Whole(p), Restored(p)) /\ Agree(p, Whole(p), Restored(p))
    BY <1>10 DEF RestoreOperational
  <2> QED
    BY <1>5, <2>1, <2>2, <2>3, <2>4, <2>5
<1> QED
  BY <1>1, <1>2, <1>3, <1>4, <1>6, <1>7, <1>8, <1>9, <1>10 DEF FileNext

\* The tracking of _TaskState is right in every reachable state.
LEMMA TrackingHolds == FileSpec => []SharingInv
<1>1. FileInit => SharingInv
  <2>1. FileInit => Tracking
    BY DEF FileInit, Tracking, KeyOK, Nothing
  <2> QED
    BY <2>1, FileTypeInit DEF SharingInv
<1>2. SharingInv /\ [FileNext]_fileVars => SharingInv'
  BY FileTypeStep, TrackingStep DEF SharingInv
<1> QED
  BY <1>1, <1>2, PTL DEF FileSpec

\* No change made through _TaskState, by name or inside a value handed out
\* before or after a save, is left out of the next save.
THEOREM NoChangeForgotten == FileSpec => []NothingForgotten
<1>1. SharingInv => NothingForgotten
  BY DEF SharingInv, Tracking, KeyOK, NothingForgotten, Dirty
<1> QED
  BY <1>1, TrackingHolds, PTL

\* State.save, commit_completed and restore_operational write a control key only
\* to what a caller of the saving process made it: a process that merely read the
\* key cannot undo another process's update.
THEOREM NoClobber == FileSpec => ReadersNeverClobber
<1> DEFINE Authored == \A k \in Hot : entry'[k] # entry[k] =>
                         \E p \in Procs : k \in changed[p] /\ entry'[k] = val[p][k]
<1>1. ASSUME SharingInv, FileNext PROVE Authored
  <2>1. CASE UNCHANGED entry
    BY <2>1
  <2>2. ASSUME NEW p \in Procs, Save(p) PROVE Authored
    <3>1. Dirty(p) \subseteq changed[p]
      BY <1>1 DEF SharingInv, Tracking, KeyOK, Dirty, FileTypeOK, AllKeys
    <3>2. entry \in Entries
      BY <1>1 DEF SharingInv, FileTypeOK
    <3>3. ASSUME NEW k \in Hot, entry'[k] # entry[k]
          PROVE  k \in Dirty(p) /\ entry'[k] = val[p][k]
      BY <2>2, <3>2, <3>3 DEF Save, Merged, AllKeys, Keys, Entries
    <3> QED
      BY <3>1, <3>3
  <2>3. ASSUME NEW p \in Procs, Commit(p) PROVE Authored
    BY <2>3, StateFileAssumption DEF Commit, Archived, Planned, AllKeys, Keys
  <2>4. ASSUME NEW p \in Procs, RestoreOperational(p) PROVE Authored
    BY <2>4, StateFileAssumption DEF RestoreOperational, Merged, Restored, AllKeys, Keys
  <2> QED
    <3>1. ASSUME NEW p \in Procs, Change(p) PROVE UNCHANGED entry
      BY <3>1 DEF Change, Read, Delete, ChangeInPlace, Write, SetDefault, Named
    <3>2. ChangeStatus => UNCHANGED entry
      BY DEF ChangeStatus
    <3>3. ASSUME NEW p \in Procs, Load(p) \/ Prepare(p) \/ CommitSkipped(p)
          PROVE  UNCHANGED entry
      BY <3>3 DEF Load, Prepare, CommitSkipped
    <3> HIDE DEF Authored
    <3> QED
      BY <1>1, <2>1, <2>2, <2>3, <2>4, <3>1, <3>2, <3>3 DEF FileNext
<1>2. SharingInv /\ [FileNext]_fileVars => [Authored]_fileVars
  BY <1>1
<1> QED
  BY <1>2, TrackingHolds, PTL DEF FileSpec, ReadersNeverClobber

-----------------------------------------------------------------------------
(* What historical() shows.                                                *)

\* The entry alone decides what is shown of a historical key.
LEMMA ViewIs ==
  ASSUME NEW e, NEW h \in Hist
  PROVE  View(e)[h] = IF e[h] = Absent /\ e[Ref] # Absent THEN e[Ref][h] ELSE e[h]
  BY DEF View, Keys

\* A save leaves the reference alone and writes only changed keys.
LEMMA SaveShows ==
  ASSUME SharingInv, NEW p \in Procs, Save(p), NEW h \in Hist, View(entry')[h] # View(entry)[h]
  PROVE  h \in changed[p] /\ entry'[h] = val[p][h]
<1>1. Dirty(p) \subseteq changed[p] /\ changed[p] \subseteq Keys
  BY DEF SharingInv, Tracking, KeyOK, Dirty, FileTypeOK, AllKeys
<1>2. /\ entry'[Ref] = entry[Ref]
      /\ h \in Dirty(p) => entry'[h] = val[p][h]
      /\ h \notin Dirty(p) => entry'[h] = entry[h]
  BY <1>1, StateFileAssumption DEF Save, Merged, AllKeys, Keys
<1> QED
  BY <1>1, <1>2, ViewIs

\* The first archive of a task hides nothing: the file held exactly the payload.
LEMMA CommitShows ==
  ASSUME SharingInv, NEW p \in Procs, Commit(p), NEW h \in Hist, View(entry')[h] # View(entry)[h]
  PROVE  entry[Ref] # Absent /\ entry'[Ref] \notin {Absent, entry[Ref]}
<1>1. plan[p] \in Payloads /\ plan[p] # Absent
  BY StateFileAssumption DEF SharingInv, FileTypeOK
<1>2. entry[h] = plan[p][h]
  BY DEF Commit, PlanHolds, PayloadOf
<1>3. entry'[Ref] = plan[p] /\ entry'[h] = IF plan[p][h] # Absent THEN Absent ELSE entry[h]
  BY StateFileAssumption DEF Commit, Archived, Planned, AllKeys, Keys
<1> QED
  BY <1>1, <1>2, <1>3, ViewIs

\* A task restored from an up-to-date copy shows what it showed.
LEMMA RestoreShows ==
  ASSUME SharingInv, NEW p \in Procs, RestoreOperational(p), NEW h \in Hist,
         View(entry')[h] # View(entry)[h]
  PROVE  val[p][Ref] # Absent /\ val'[p][Ref] = Absent /\ Outdated(p)
<1>1. \A k \in AllKeys : val[p][k] = base[p][k]
  BY DEF RestoreOperational, Fresh, Nothing, SharingInv, Tracking, KeyOK
<1>2. val[p][Ref] # Absent
  BY DEF RestoreOperational
<1>3. val'[p][Ref] = Absent
  BY DEF RestoreOperational, Whole, AllKeys, SharingInv, FileTypeOK
<1>4. /\ entry'[Ref] = Absent
      /\ entry'[h] = IF View(val[p])[h] # Absent THEN View(val[p])[h] ELSE entry[h]
  BY StateFileAssumption DEF RestoreOperational, Merged, Restored, Whole, AllKeys, Keys
<1>5. ASSUME ~ Outdated(p) PROVE FALSE
  <2>1. val[p][h] = entry[h] /\ val[p][Ref] = entry[Ref]
    BY <1>1, <1>5 DEF Outdated, AllKeys, Keys
  <2>2. View(val[p])[h] = View(entry)[h]
    BY <2>1, ViewIs
  <2>3. View(entry')[h] = entry'[h]
    BY <1>4, ViewIs
  <2>4. View(entry)[h] = Absent => entry[h] = Absent
    BY ViewIs
  <2> QED
    BY <1>4, <2>2, <2>3, <2>4
<1> QED
  BY <1>2, <1>3, <1>5

\* Archiving a finished task for the first time and restoring a reopened one
\* from an up-to-date copy change nothing that historical() shows, whoever
\* writes in between (commit_completed, restore_operational).
THEOREM ArchivingShowsNothing == FileSpec => ArchiveInvisible
<1> DEFINE Shown == \A h \in Hist : View(entry)'[h] # View(entry)[h] =>
              \/ \E p \in Procs : h \in changed[p] /\ entry'[h] = val[p][h]
              \/ entry[Ref] # Absent /\ entry'[Ref] \notin {Absent, entry[Ref]}
              \/ \E p \in Procs : val[p][Ref] # Absent /\ val'[p][Ref] = Absent /\ Outdated(p)
<1>0. View(entry)' = View(entry')
  BY DEF View
<1>1. ASSUME SharingInv, FileNext PROVE Shown
  <2>1. CASE UNCHANGED entry
    BY <1>0, <2>1
  <2>2. ASSUME NEW p \in Procs, Save(p) PROVE Shown
    BY <1>0, <1>1, <2>2, SaveShows
  <2>3. ASSUME NEW p \in Procs, Commit(p) PROVE Shown
    BY <1>0, <1>1, <2>3, CommitShows
  <2>4. ASSUME NEW p \in Procs, RestoreOperational(p) PROVE Shown
    BY <1>0, <1>1, <2>4, RestoreShows
  <2>5. ASSUME NEW p \in Procs, Change(p) PROVE UNCHANGED entry
    BY <2>5 DEF Change, Read, Delete, ChangeInPlace, Write, SetDefault, Named
  <2>6. ChangeStatus => UNCHANGED entry
    BY DEF ChangeStatus
  <2>7. ASSUME NEW p \in Procs, Load(p) \/ Prepare(p) \/ CommitSkipped(p)
        PROVE  UNCHANGED entry
    BY <2>7 DEF Load, Prepare, CommitSkipped
  <2> HIDE DEF Shown
  <2> QED
    BY <1>1, <2>1, <2>2, <2>3, <2>4, <2>5, <2>6, <2>7 DEF FileNext
<1>2. SharingInv /\ [FileNext]_fileVars => [Shown]_fileVars
  BY <1>1
<1> QED
  BY <1>2, TrackingHolds, PTL DEF FileSpec, ArchiveInvisible
=============================================================================
