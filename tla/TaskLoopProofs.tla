---------------------------- MODULE TaskLoopProofs ----------------------------
(***************************************************************************)
(* The worker runs of a task, for any numbers of rounds, checks, failures, *)
(* commands, edits and answers.                                            *)
(***************************************************************************)
EXTENDS TaskLoop, FiniteSetTheorems, SequenceTheorems, WellFoundedInduction, TLAPS

-----------------------------------------------------------------------------
(* The inductive invariant.                                                *)

Tasks == [status : Statuses, attempts : Int, pr : BOOLEAN, crit : Nat \ {0}]
Records == [mode : WorkerModes \cup {"check"}, st : Active \cup Closings, fin : BOOLEAN,
            pid : BOOLEAN, prep : BOOLEAN, proc : {"none", "live", "dying", "exited", "gone"},
            res : {"none", "done", "gaps", "failed", "blocked", "needs_input", "env_error",
                   "pass", "fail", "norun"},
            brief : Nat, crit : Nat, question : BOOLEAN, rebase : BOOLEAN, events : Nat]
Pointers == [run : Nat, stage : {"none", "pre_pr", "base_probe", "rebase_recheck"},
             collected : BOOLEAN, retries : Nat, worker : Nat]
Keys == {"check", "feedback", "rebase", "revisions", "envs", "human", "question"}

IsWorker(rs, k) == k \in DOMAIN rs /\ rs[k].mode \in WorkerModes
IsActive(rs, k) == IsWorker(rs, k) /\ rs[k].st \in Active
NoneActive(rs) == \A k \in DOMAIN rs : ~ IsActive(rs, k)
IsNewest(rs, k) == IsWorker(rs, k) /\ \A j \in DOMAIN rs : IsWorker(rs, j) => j <= k

\* A check's pointer names a check run and the worker run it continues.
PointerOK(rs, c) ==
    /\ c \in Pointers
    /\ c.run # 0 => /\ c.run \in DOMAIN rs /\ rs[c.run].mode = "check"
                    /\ IsWorker(rs, c.worker)
EntryOK(rs, e) == DOMAIN e = Keys /\ e.rebase \in BOOLEAN /\ PointerOK(rs, e.check)

\* A closed worker run has its time of completion.
Closed(rs) == \A k \in DOMAIN rs : IsWorker(rs, k) /\ rs[k].st \in Closings => rs[k].fin

Shape ==
    /\ file \in Tasks /\ op.val \in Tasks /\ DOMAIN op = {"at", "kind", "val", "st"}
    /\ t.val \in Tasks /\ t = [val |-> t.val, base |-> t.val]
    /\ runs \in Seq(Records) /\ Closed(runs)
    /\ EntryOK(runs, disk) /\ EntryOK(runs, mem.val) /\ mem = [val |-> mem.val, dirty |-> mem.dirty]
    /\ cur \in [run : Nat, st : {"none"} \cup Active \cup Closings]
    /\ left \in BoundSet
    /\ ghost \in [cancelled : BOOLEAN, moved : BOOLEAN, edits : Nat, commanded : BOOLEAN]

\* A running task's newest worker run is past its reservation.
Followed == file.status = "running" => \E k \in DOMAIN runs : IsNewest(runs, k) /\ runs[k].st # "preparing"

Handling == {"timed_out", "collected", "outcome", "giving_up", "asking", "env_stopped", "push"}
Starting == {"reserved", "launched", "recorded"}

\* What the pass knows of the run it handles, from the step it is at.
Place ==
    /\ pc \in Handling \cup Starting \cup {"open_pr", "opened", "transitioned", "answered"}
         => IsWorker(runs, cur.run)
    /\ pc \in Handling => /\ runs[cur.run].fin /\ t.val.status = "running"
                          /\ mem.val.check.run = 0
    /\ pc \in {"collected", "outcome"} => cur.st # "timeout"
    /\ pc \in {"closing", "verdict", "parking"} => mem.val.check.run # 0
    /\ pc = "dispatch" /\ file.status = "running" => t.val.status = "running"
    /\ pc \in Starting => /\ file.status # "running" /\ t.val.status # "running"
                          /\ IsNewest(runs, cur.run)
    /\ pc \in {"reserved", "launched"} => cur.st = "preparing"
    /\ pc = "recorded" => runs[cur.run].st # "preparing"
    /\ pc = "answered" => runs[cur.run].mode = "resume"

\* The controller is not killed.
NoKills == \A b \in Bounds : b.crashes = 0

Alive == {"live", "dying"}

\* At most one worker run is active, a task that waits for a person has none,
\* and a process outlives its record only past its time budget.
Writer ==
    /\ left.crashes = 0 /\ \A k \in DOMAIN runs : runs[k].prep
    /\ \A k \in DOMAIN runs :
         IsWorker(runs, k) /\ runs[k].fin => runs[k].proc \notin Alive \/ runs[k].st = "timeout"
    /\ \A j, k \in DOMAIN runs : IsActive(runs, j) /\ IsActive(runs, k) => j = k
    /\ \A k \in DOMAIN runs :
         IsWorker(runs, k) /\ runs[k].st = "preparing" => pc \in {"reserved", "launched"} /\ k = cur.run
    /\ pc = "reserved" => /\ runs[cur.run].st = "preparing" /\ ~ runs[cur.run].pid
                          /\ runs[cur.run].proc = "none" /\ ~ runs[cur.run].fin
    /\ pc = "launched" => ~ runs[cur.run].pid /\ runs[cur.run].st # "running"
    /\ pc \in {"collected", "outcome"} \cup Starting
         => \A k \in DOMAIN runs : IsActive(runs, k) => k = cur.run
    /\ pc \in Handling \ {"collected", "outcome"} => NoneActive(runs)
    /\ file.status = "waiting_human" /\ pc \notin Starting => NoneActive(runs)

\* A task is not both edited and answered.
NoLateEdits == \A b \in Bounds : b.answers = 0 \/ b.edits = 0

\* Every worker run is judged by what it was given: it keeps its snapshot, or
\* there is only one version of the criteria.
Judged ==
    /\ ~ ghost.moved
    /\ \/ /\ left.answers = 0
          /\ \A k \in DOMAIN runs : IsWorker(runs, k) =>
               runs[k].mode # "resume" /\ runs[k].crit = runs[k].brief /\ runs[k].crit # 0
       \/ /\ left.edits = 0 /\ file.crit = 1 /\ t.val.crit = 1 /\ op.val.crit = 1
          /\ \A k \in DOMAIN runs : IsWorker(runs, k) => runs[k].brief = 1 /\ runs[k].crit \in {0, 1}

\* Without a command the pass knows the status, a run that works belongs to a
\* running task, and a check is followed only when no worker runs.
PointerIdle(c) == c.run # 0 => NoneActive(runs) /\ file.status \notin {"ready", "waiting_human", "failed"}
Unbidden ==
    /\ op.at = "none" /\ file.status = t.val.status
    /\ "check" \notin mem.dirty => mem.val.check = disk.check
    /\ pc = "answered" => mem.dirty = {}
    /\ pc \in Starting /\ runs[cur.run].mode = "resume" => mem.val.check = disk.check
    /\ pc = "idle" => PointerIdle(disk.check)
    /\ pc # "idle" => PointerIdle(mem.val.check)
    /\ pc \in {"open_pr", "opened"} => NoneActive(runs) /\ file.status # "failed"
    /\ pc \in Starting /\ runs[cur.run].mode # "resume" => mem.val.check.run = 0
    /\ ~ NoneActive(runs) /\ pc \notin Starting => file.status = "running"
    /\ \A k \in DOMAIN runs : IsWorker(runs, k) => runs[k].st # "closed"

IInv == Shape /\ Followed /\ Place /\ (NoKills => Writer) /\ (NoLateEdits => Judged)
        /\ (NoKills /\ ~ ghost.commanded => Unbidden)

-----------------------------------------------------------------------------
(* The operators of the model.                                             *)

LEMMA RunsDomain ==
    ASSUME NEW rs \in Seq(Records)
    PROVE  Len(rs) \in Nat /\ DOMAIN rs = 1..Len(rs) /\ \A k \in DOMAIN rs : rs[k] \in Records /\ k \in Nat /\ k # 0
<1>1. Len(rs) \in Nat /\ DOMAIN rs = 1..Len(rs)
  OBVIOUS
<1>2. ASSUME NEW k \in DOMAIN rs PROVE rs[k] \in Records /\ k \in Nat /\ k # 0
  <2>1. rs[k] \in Records
    BY <1>1, ElementOfSeq
  <2> QED
    BY <1>1, <2>1
<1> QED
  BY <1>1, <1>2

LEMMA NewestIn ==
    ASSUME NEW n \in Nat, NEW S, S \subseteq 1..n, S # {}
    PROVE  Newest(S) \in S /\ \A j \in S : j <= Newest(S)
<1> DEFINE R == OpToRel(<, Nat)
           A == {n - k : k \in S}
<1>1. IsWellFoundedOn(R, Nat)
  BY NatLessThanWellFounded
<1>2. \A a, b \in Nat : a < b => <<a, b>> \in R
  BY DEF OpToRel
<1> HIDE DEF R
<1>3. A \subseteq Nat /\ A # {}
  <2>1. \A k \in S : n - k \in Nat
    OBVIOUS
  <2>2. \E k \in S : n - k \in A
    OBVIOUS
  <2> QED
    BY <2>1, <2>2
<1> HIDE DEF A
<1>4. PICK x \in A : \A y \in A : ~ (<<y, x>> \in R)
  BY <1>1, <1>3, WFMin
<1>5. PICK k \in S : x = n - k
  BY DEF A
<1>6. ASSUME NEW j \in S PROVE j <= k
  <2>1. n - j \in A
    BY DEF A
  <2>2. n - j \in Nat /\ n - k \in Nat /\ j \in Nat /\ k \in Nat
    OBVIOUS
  <2>3. ~ (n - j < n - k)
    BY <1>2, <1>4, <1>5, <2>1, <2>2
  <2> QED
    BY <2>2, <2>3
<1> QED
  BY <1>5, <1>6 DEF Newest

\* latest_worker_run: a running one if there is any, else the newest.
LEMMA LatestIs ==
    ASSUME runs \in Seq(Records)
    PROVE  \/ LatestWorkerRun = 0 /\ \A k \in DOMAIN runs : ~ IsWorker(runs, k)
           \/ /\ IsWorker(runs, LatestWorkerRun) /\ LatestWorkerRun # 0
              /\ \/ runs[LatestWorkerRun].st = "running"
                 \/ /\ IsNewest(runs, LatestWorkerRun)
                    /\ \A k \in DOMAIN runs : IsWorker(runs, k) => runs[k].st # "running"
<1> DEFINE R == {k \in Workers : runs[k].st = "running"}
<1>0. /\ \A k : k \in Workers <=> IsWorker(runs, k)
      /\ Workers \subseteq 1..Len(runs) /\ R \subseteq 1..Len(runs) /\ Len(runs) \in Nat
  BY RunsDomain DEF Workers, IsWorker
<1>1. CASE R # {}
  <2>1. LatestWorkerRun = Newest(R)
    BY <1>1 DEF LatestWorkerRun
  <2>2. Newest(R) \in R
    BY <1>0, <1>1, NewestIn
  <2> QED
    BY <1>0, <2>1, <2>2
<1>2. CASE R = {} /\ Workers # {}
  <2>1. LatestWorkerRun = Newest(Workers)
    BY <1>2 DEF LatestWorkerRun
  <2>2. Newest(Workers) \in Workers /\ \A j \in Workers : j <= Newest(Workers)
    BY <1>0, <1>2, NewestIn
  <2>3. IsNewest(runs, LatestWorkerRun)
    BY <1>0, <2>1, <2>2 DEF IsNewest
  <2> QED
    BY <1>0, <1>2, <2>1, <2>2, <2>3
<1>3. CASE R = {} /\ Workers = {}
  <2>1. LatestWorkerRun = 0
    BY <1>3 DEF LatestWorkerRun, Newest
  <2> QED
    BY <1>0, <1>3, <2>1
<1> QED
  BY <1>1, <1>2, <1>3

\* A save of the pass's task writes what the pass changed.
LEMMA MergeTaskIs ==
    ASSUME NEW base \in Tasks, NEW new \in Tasks, NEW current \in Tasks
    PROVE  /\ MergeTask(base, new, current) \in Tasks
           /\ MergeTask(base, new, current).status
                = IF new.status # base.status THEN new.status ELSE current.status
           /\ MergeTask(base, new, current).crit
                = IF new.crit # base.crit THEN new.crit ELSE current.crit
<1> DEFINE m == MergeTask(base, new, current)
<1>1. DOMAIN current = {"status", "attempts", "pr", "crit"}
  BY DEF Tasks
<1>2. m = [f \in {"status", "attempts", "pr", "crit"} |-> IF new[f] # base[f] THEN new[f] ELSE current[f]]
  BY <1>1 DEF MergeTask
<1>3. m = [status |-> m.status, attempts |-> m.attempts, pr |-> m.pr, crit |-> m.crit]
  BY <1>2
<1>4. /\ m.status = IF new.status # base.status THEN new.status ELSE current.status
      /\ m.crit = IF new.crit # base.crit THEN new.crit ELSE current.crit
      /\ m.attempts \in {new.attempts, current.attempts} /\ m.pr \in {new.pr, current.pr}
  BY <1>2
<1> HIDE DEF m
<1>5. m \in Tasks
  BY <1>3, <1>4 DEF Tasks
<1> QED
  BY <1>4, <1>5 DEF m

\* The pass's writes to the task file: it never writes the criteria.
TaskMoved(s) ==
    /\ file' \in Tasks /\ t'.val \in Tasks /\ t' = [val |-> t'.val, base |-> t'.val]
    /\ file'.crit = file.crit /\ t'.val.crit = t.val.crit /\ t'.val.status = s
    /\ file'.status = IF s # t.val.status THEN s ELSE file.status

LEMMA SaveTaskIs ==
    ASSUME Shape, NEW new \in Tasks, new.crit = t.val.crit, SaveTask(new)
    PROVE  TaskMoved(new.status)
<1>1. t.val \in Tasks /\ t.base = t.val /\ file \in Tasks
  BY DEF Shape
<1>2. file' = MergeTask(t.val, new, file) /\ t' = [val |-> new, base |-> new]
  BY <1>1 DEF SaveTask
<1>3. t'.val = new
  BY <1>2
<1> QED
  BY <1>1, <1>2, <1>3, MergeTaskIs DEF TaskMoved

LEMMA TransitionIs ==
    ASSUME Shape, NEW s \in Statuses, Transition(s)
    PROVE  TaskMoved(s)
<1>1. [t.val EXCEPT !.status = s] \in Tasks /\ [t.val EXCEPT !.status = s].crit = t.val.crit
      /\ [t.val EXCEPT !.status = s].status = s
  BY DEF Shape, Tasks
<1>2. SaveTask([t.val EXCEPT !.status = s])
  BY DEF Transition
<1> QED
  BY <1>1, <1>2, SaveTaskIs

LEMMA UnmovedIs ==
    ASSUME Shape, UNCHANGED <<file, t>> PROVE TaskMoved(t.val.status)
  BY DEF Shape, TaskMoved

\* Keys written to the state's entry.
LEMMA PutIs ==
    ASSUME NEW rs, NEW m, EntryOK(rs, m.val), NEW upd,
           "check" \in DOMAIN upd => PointerOK(rs, upd["check"]),
           "rebase" \in DOMAIN upd => upd["rebase"] \in BOOLEAN
    PROVE  /\ EntryOK(rs, Put(m, upd).val)
           /\ Put(m, upd) = [val |-> Put(m, upd).val, dirty |-> Put(m, upd).dirty]
           /\ Put(m, upd).dirty = m.dirty \cup DOMAIN upd
           /\ Put(m, upd).val.check = IF "check" \in DOMAIN upd THEN upd["check"] ELSE m.val.check
<1> DEFINE v == [k \in Keys |-> IF k \in DOMAIN upd THEN upd[k] ELSE m.val[k]]
           d == m.dirty \cup DOMAIN upd
<1>1. Put(m, upd) = [val |-> v, dirty |-> d]
  BY DEF Put, EntryOK
<1>2. DOMAIN v = Keys /\ "check" \in Keys /\ "rebase" \in Keys
  BY DEF Keys
<1>3. v.check = (IF "check" \in DOMAIN upd THEN upd["check"] ELSE m.val.check)
      /\ v.rebase = (IF "rebase" \in DOMAIN upd THEN upd["rebase"] ELSE m.val.rebase)
  BY <1>2
<1> HIDE DEF v, d
<1>4. EntryOK(rs, v)
  BY <1>2, <1>3 DEF EntryOK
<1> QED
  BY <1>1, <1>3, <1>4 DEF d

LEMMA SaveStateIs ==
    ASSUME NEW rs, NEW m, EntryOK(rs, m.val), m = [val |-> m.val, dirty |-> m.dirty],
           EntryOK(rs, disk), SaveState(m)
    PROVE  /\ EntryOK(rs, disk') /\ EntryOK(rs, mem'.val)
           /\ mem' = [val |-> mem'.val, dirty |-> mem'.dirty] /\ mem'.dirty = {}
           /\ mem'.val = m.val
           /\ disk'.check = IF "check" \in m.dirty THEN m.val.check ELSE disk.check
<1>1. mem' = [val |-> m.val, dirty |-> {}]
  <2>1. PICK v, d : m = [val |-> v, dirty |-> d]
    OBVIOUS
  <2> QED
    BY <2>1 DEF SaveState
<1>2. disk' = [k \in Keys |-> IF k \in m.dirty THEN m.val[k] ELSE disk[k]]
  BY DEF SaveState, MergeState, EntryOK
<1>3. DOMAIN disk' = Keys
      /\ disk'.check = (IF "check" \in m.dirty THEN m.val.check ELSE disk.check)
      /\ disk'.rebase = (IF "rebase" \in m.dirty THEN m.val.rebase ELSE disk.rebase)
  BY <1>2 DEF Keys
<1>4. EntryOK(rs, disk')
  BY <1>3 DEF EntryOK
<1> QED
  BY <1>1, <1>3, <1>4

-----------------------------------------------------------------------------
(* How run records change: a record keeps what it was started with, and is  *)
(* closed with its time of completion; checks come in between.              *)

Grows(r, s) ==
    /\ s.mode = r.mode /\ s.brief = r.brief /\ s.crit = r.crit /\ s.prep = r.prep
    /\ r.fin => s.fin
    /\ s.st = r.st \/ (s.st \in Closings /\ (r.mode \in WorkerModes => s.fin))

Later(rs, ss) ==
    /\ ss \in Seq(Records) /\ DOMAIN rs \subseteq DOMAIN ss
    /\ \A k \in DOMAIN rs : Grows(rs[k], ss[k])
    /\ \A k \in DOMAIN ss : k \notin DOMAIN rs => ss[k].mode = "check" /\ ss[k].prep

\* A process outlives its record only past its time budget.
Ended(r) == r.mode \in WorkerModes /\ r.fin => r.proc \notin Alive \/ r.st = "timeout"
NoneSwept(rs) == \A k \in DOMAIN rs : IsWorker(rs, k) => rs[k].st # "closed"

LEMMA LaterKeeps ==
    ASSUME NEW rs, NEW ss, Later(rs, ss)
    PROVE  /\ \A k : IsWorker(ss, k) <=> IsWorker(rs, k)
           /\ \A k : IsActive(ss, k) => IsActive(rs, k)
           /\ \A k : IsNewest(rs, k) => IsNewest(ss, k)
           /\ NoneActive(rs) => NoneActive(ss)
           /\ \A e : EntryOK(rs, e) => EntryOK(ss, e)
           /\ Closed(rs) => Closed(ss)
<1>1. \A k : IsWorker(ss, k) <=> IsWorker(rs, k)
  BY DEF Later, Grows, IsWorker, WorkerModes
<1>2. \A k : IsActive(ss, k) => IsActive(rs, k)
  BY <1>1 DEF Later, Grows, IsActive, IsWorker, Active, Closings
<1>3. \A k : IsNewest(rs, k) => IsNewest(ss, k)
  BY <1>1 DEF IsNewest, IsWorker
<1>4. NoneActive(rs) => NoneActive(ss)
  BY <1>2 DEF NoneActive, IsActive, IsWorker
<1>5. \A e : EntryOK(rs, e) => EntryOK(ss, e)
  BY <1>1 DEF EntryOK, PointerOK, Later, Grows
<1>6. Closed(rs) => Closed(ss)
  BY <1>1 DEF Closed, Later, Grows, IsWorker
<1> QED
  BY <1>1, <1>2, <1>3, <1>4, <1>5, <1>6

LEMMA LaterSame ==
    ASSUME NEW rs \in Seq(Records) PROVE Later(rs, rs)
  BY DEF Later, Grows

LEMMA RunSet ==
    ASSUME NEW rs \in Seq(Records), NEW k \in DOMAIN rs, NEW rec \in Records,
           NEW ss, ss = [rs EXCEPT ![k] = rec]
    PROVE  /\ ss \in Seq(Records) /\ ss[k] = rec /\ DOMAIN ss = DOMAIN rs
           /\ \A j \in DOMAIN rs : j # k => ss[j] = rs[j]
<1>1. ss \in Seq(Records)
  OBVIOUS
<1>2. ss[k] = rec /\ DOMAIN ss = DOMAIN rs /\ \A j \in DOMAIN rs : j # k => ss[j] = rs[j]
  OBVIOUS
<1> QED
  BY <1>1, <1>2

LEMMA RunChanged ==
    ASSUME NEW rs \in Seq(Records), NEW k \in DOMAIN rs, NEW rec \in Records,
           Grows(rs[k], rec), NEW ss, ss = [rs EXCEPT ![k] = rec]
    PROVE  /\ Later(rs, ss) /\ ss[k] = rec /\ DOMAIN ss = DOMAIN rs
           /\ \A j \in DOMAIN rs : j # k => ss[j] = rs[j]
<1>1. /\ ss \in Seq(Records) /\ ss[k] = rec /\ DOMAIN ss = DOMAIN rs
      /\ \A j \in DOMAIN rs : j # k => ss[j] = rs[j]
  BY RunSet
<1>2. \A j \in DOMAIN rs : Grows(rs[j], ss[j])
  BY <1>1 DEF Grows
<1> QED
  BY <1>1, <1>2 DEF Later

LEMMA CheckAdded ==
    ASSUME NEW rs \in Seq(Records), NEW rec \in Records, rec.mode = "check", rec.prep
    PROVE  /\ Later(rs, Append(rs, rec))
           /\ Len(rs) + 1 \in DOMAIN Append(rs, rec) /\ Append(rs, rec)[Len(rs) + 1] = rec
           /\ \A j \in DOMAIN rs : Append(rs, rec)[j] = rs[j]
           /\ \A j \in DOMAIN Append(rs, rec) : j \notin DOMAIN rs => Append(rs, rec)[j] = rec
<1> DEFINE ss == Append(rs, rec)
<1>1. ss \in Seq(Records) /\ DOMAIN ss = 1..(Len(rs) + 1) /\ DOMAIN rs = 1..Len(rs) /\ Len(rs) \in Nat
  OBVIOUS
<1>2. ss[Len(rs) + 1] = rec /\ \A j \in 1..Len(rs) : ss[j] = rs[j]
  OBVIOUS
<1> HIDE DEF ss
<1>3. \A j \in DOMAIN ss : j \notin DOMAIN rs => j = Len(rs) + 1
  BY <1>1
<1>4. \A j \in DOMAIN rs : Grows(rs[j], ss[j])
  BY <1>1, <1>2 DEF Grows
<1>5. Later(rs, ss)
  BY <1>1, <1>2, <1>3, <1>4 DEF Later
<1> QED
  BY <1>1, <1>2, <1>3, <1>5 DEF ss

-----------------------------------------------------------------------------
(* How the pass's entry of the state changes.                              *)

EntryMoved(c) ==
    /\ EntryOK(runs', disk') /\ EntryOK(runs', mem'.val)
    /\ mem' = [val |-> mem'.val, dirty |-> mem'.dirty] /\ mem'.val.check = c
    /\ ("check" \notin mem.dirty => mem.val.check = disk.check)
         => ("check" \notin mem'.dirty => mem'.val.check = disk'.check)

LEMMA EntrySame ==
    ASSUME Shape, Later(runs, runs'), UNCHANGED <<disk, mem>>
    PROVE  EntryMoved(mem.val.check)
  BY LaterKeeps DEF Shape, EntryMoved

LEMMA EntryPut ==
    ASSUME Shape, Later(runs, runs'), NEW upd, mem' = Put(mem, upd), disk' = disk,
           "check" \in DOMAIN upd => PointerOK(runs', upd["check"]),
           "rebase" \in DOMAIN upd => upd["rebase"] \in BOOLEAN
    PROVE  EntryMoved(IF "check" \in DOMAIN upd THEN upd["check"] ELSE mem.val.check)
<1>1. EntryOK(runs', disk) /\ EntryOK(runs', mem.val)
  BY LaterKeeps DEF Shape
<1> QED
  BY <1>1, PutIs DEF EntryMoved

LEMMA EntrySavedPut ==
    ASSUME Shape, Later(runs, runs'), NEW upd, SaveState(Put(mem, upd)),
           "check" \in DOMAIN upd => PointerOK(runs', upd["check"]),
           "rebase" \in DOMAIN upd => upd["rebase"] \in BOOLEAN
    PROVE  EntryMoved(IF "check" \in DOMAIN upd THEN upd["check"] ELSE mem.val.check)
<1>1. EntryOK(runs', disk) /\ EntryOK(runs', mem.val)
  BY LaterKeeps DEF Shape
<1>2. PICK m : m = Put(mem, upd)
  OBVIOUS
<1>3. /\ EntryOK(runs', m.val) /\ m = [val |-> m.val, dirty |-> m.dirty]
      /\ m.dirty = mem.dirty \cup DOMAIN upd
      /\ m.val.check = IF "check" \in DOMAIN upd THEN upd["check"] ELSE mem.val.check
  BY <1>1, <1>2, PutIs
<1>4. SaveState(m)
  BY <1>2
<1>5. /\ EntryOK(runs', disk') /\ EntryOK(runs', mem'.val)
      /\ mem' = [val |-> mem'.val, dirty |-> mem'.dirty] /\ mem'.val = m.val
      /\ disk'.check = IF "check" \in m.dirty THEN m.val.check ELSE disk.check
  BY <1>1, <1>3, <1>4, SaveStateIs
<1> QED
  BY <1>3, <1>5 DEF EntryMoved

LEMMA EntrySaved ==
    ASSUME Shape, Later(runs, runs'), SaveState(mem)
    PROVE  /\ EntryMoved(mem.val.check) /\ mem'.dirty = {}
           /\ disk'.check = IF "check" \in mem.dirty THEN mem.val.check ELSE disk.check
<1>1. EntryOK(runs', disk) /\ EntryOK(runs', mem.val)
  BY LaterKeeps DEF Shape
<1>2. mem = [val |-> mem.val, dirty |-> mem.dirty]
  BY DEF Shape
<1>3. /\ EntryOK(runs', disk') /\ EntryOK(runs', mem'.val) /\ mem'.dirty = {}
      /\ mem' = [val |-> mem'.val, dirty |-> mem'.dirty] /\ mem'.val = mem.val
      /\ disk'.check = IF "check" \in mem.dirty THEN mem.val.check ELSE disk.check
  BY <1>1, <1>2, SaveStateIs
<1> QED
  BY <1>3 DEF EntryMoved

-----------------------------------------------------------------------------
(* A step of a pass that does not start a worker.                          *)

Curs == [run : Nat, st : {"none"} \cup Active \cup Closings]
Ghosts == [cancelled : BOOLEAN, moved : BOOLEAN, edits : Nat, commanded : BOOLEAN]

\* What is left of the bounds of commands, answers, edits and kills is kept.
BudgetKept == left' \in BoundSet /\ left'.crashes = left.crashes
              /\ left'.answers = left.answers /\ left'.edits = left.edits

AllEnded(rs) == \A k \in DOMAIN rs : Ended(rs[k])
OnlyCur == \A k \in DOMAIN runs' : IsActive(runs', k) => k = cur'.run

\* What such a step has to establish about the worker runs, with the status s
\* and the check c it leaves.
Keeps(s, c) ==
    /\ AllEnded(runs')
    /\ pc' \in {"collected", "outcome"} => OnlyCur
    /\ pc' \in Handling \ {"collected", "outcome"} => NoneActive(runs')
    /\ s = "waiting_human" /\ s # t.val.status => NoneActive(runs')
KeepsUnbidden(s, c) ==
    /\ s # t.val.status => NoneActive(runs')
    /\ \/ c.run = 0
       \/ c = mem.val.check /\ s = t.val.status
       \/ NoneActive(runs') /\ s \notin {"ready", "waiting_human", "failed"}
    /\ pc' \in {"open_pr", "opened"} => NoneActive(runs') /\ s # "failed"
    /\ NoneSwept(runs')

LEMMA PassStep ==
    ASSUME IInv, NEW s \in Statuses, NEW c,
           pc # "idle", pc' \notin Starting,
           pc \in Starting => (NoKills => NoneActive(runs')),
           pc' = "answered" => mem'.dirty = {},
           pc' = "idle" => (NoKills /\ ~ ghost.commanded => disk'.check = c),
           Later(runs, runs'), TaskMoved(s), s = "running" => s = t.val.status,
           EntryMoved(c), UNCHANGED op, BudgetKept, cur' \in Curs,
           ghost' \in Ghosts, ghost'.commanded = ghost.commanded,
           NoLateEdits => ~ ghost'.moved, Place',
           NoKills => Keeps(s, c),
           NoKills /\ ~ ghost.commanded => KeepsUnbidden(s, c)
    PROVE  IInv'
<1>1. Shape /\ Followed /\ Place /\ (NoKills => Writer) /\ (NoLateEdits => Judged)
      /\ (NoKills /\ ~ ghost.commanded => Unbidden)
  BY DEF IInv
<1>2. /\ \A k : IsWorker(runs', k) <=> IsWorker(runs, k)
      /\ \A k : IsActive(runs', k) => IsActive(runs, k)
      /\ \A k : IsNewest(runs, k) => IsNewest(runs', k)
      /\ NoneActive(runs) => NoneActive(runs')
      /\ Closed(runs')
  BY <1>1, LaterKeeps DEF Shape
<1>3. /\ file' \in Tasks /\ t'.val \in Tasks /\ t' = [val |-> t'.val, base |-> t'.val]
      /\ file'.crit = file.crit /\ t'.val.crit = t.val.crit /\ t'.val.status = s
      /\ file'.status = IF s # t.val.status THEN s ELSE file.status
  BY DEF TaskMoved
<1>4. /\ EntryOK(runs', disk') /\ EntryOK(runs', mem'.val)
      /\ mem' = [val |-> mem'.val, dirty |-> mem'.dirty] /\ mem'.val.check = c
      /\ ("check" \notin mem.dirty => mem.val.check = disk.check)
           => ("check" \notin mem'.dirty => mem'.val.check = disk'.check)
  BY DEF EntryMoved
<1>5. runs' \in Seq(Records) /\ DOMAIN runs \subseteq DOMAIN runs'
  BY DEF Later
<1>6. Shape'
  BY <1>1, <1>2, <1>3, <1>4, <1>5 DEF Shape, BudgetKept, Curs, Ghosts
<1>7. Followed'
  <2> SUFFICES ASSUME file'.status = "running"
               PROVE  \E k \in DOMAIN runs' : IsNewest(runs', k) /\ runs'[k].st # "preparing"
    BY DEF Followed
  <2>1. file.status = "running"
    BY <1>3
  <2>2. PICK k \in DOMAIN runs : IsNewest(runs, k) /\ runs[k].st # "preparing"
    BY <1>1, <2>1 DEF Followed
  <2>3. Grows(runs[k], runs'[k])
    BY DEF Later
  <2>4. k \in DOMAIN runs' /\ IsNewest(runs', k)
    BY <1>2, <1>5, <2>2
  <2>5. runs'[k].st # "preparing"
    BY <2>2, <2>3 DEF Grows, Closings
  <2> QED
    BY <2>4, <2>5
<1>8. ASSUME NoKills PROVE Writer'
  <2>1. Writer /\ Keeps(s, c)
    BY <1>1, <1>8
  <2>2. \A k \in DOMAIN runs' : runs'[k].prep
    BY <2>1 DEF Writer, Later, Grows
  <2>3. \A k \in DOMAIN runs' :
         IsWorker(runs', k) /\ runs'[k].fin => runs'[k].proc \notin Alive \/ runs'[k].st = "timeout"
    BY <2>1 DEF Keeps, AllEnded, Ended, IsWorker
  <2>4. \A j, k \in DOMAIN runs' : IsActive(runs', j) /\ IsActive(runs', k) => j = k
    BY <1>2, <2>1 DEF Writer, IsActive, IsWorker
  <2>5. \A k \in DOMAIN runs' : ~ (IsWorker(runs', k) /\ runs'[k].st = "preparing")
    <3> SUFFICES ASSUME NEW k \in DOMAIN runs', IsWorker(runs', k), runs'[k].st = "preparing"
                 PROVE  FALSE
      OBVIOUS
    <3>1. IsWorker(runs, k) /\ k \in DOMAIN runs
      BY <1>2 DEF IsWorker
    <3>2. runs[k].st = "preparing"
      BY <3>1 DEF Later, Grows, Closings
    <3>3. IsActive(runs', k)
      BY DEF IsActive, Active
    <3> QED
      BY <1>8, <2>1, <3>1, <3>2, <3>3 DEF Writer, Starting, NoneActive
  <2>6. file'.status = "waiting_human" => NoneActive(runs')
    BY <1>2, <1>3, <1>8, <2>1 DEF Writer, Keeps
  <2>7. pc' \notin {"reserved", "launched"} /\ pc' \notin Starting
    BY DEF Starting
  <2>8. left'.crashes = 0
    BY <2>1 DEF Writer, BudgetKept
  <2>9. /\ pc' \in {"collected", "outcome"} \cup Starting => OnlyCur
        /\ pc' \in Handling \ {"collected", "outcome"} => NoneActive(runs')
    BY <2>1, <2>7 DEF Keeps
  <2> QED
    BY <2>2, <2>3, <2>4, <2>5, <2>6, <2>7, <2>8, <2>9 DEF Writer, OnlyCur
<1>9. ASSUME NoLateEdits PROVE Judged'
  <2>1. Judged /\ ~ ghost'.moved
    BY <1>1, <1>9
  <2>2. \A k \in DOMAIN runs' : IsWorker(runs', k) =>
          /\ k \in DOMAIN runs /\ IsWorker(runs, k) /\ runs'[k].mode = runs[k].mode
          /\ runs'[k].crit = runs[k].crit /\ runs'[k].brief = runs[k].brief
    BY <1>2 DEF IsWorker, Later, Grows
  <2> QED
    BY <1>3, <2>1, <2>2 DEF Judged, BudgetKept
<1>10. ASSUME NoKills, ~ ghost'.commanded PROVE Unbidden'
  <2>1. Unbidden /\ KeepsUnbidden(s, c)
    BY <1>1, <1>10
  <2>2. op'.at = "none" /\ file'.status = s /\ file.status = t.val.status /\ t'.val.status = s
    BY <1>3, <2>1 DEF Unbidden
  <2>3. "check" \notin mem'.dirty => mem'.val.check = disk'.check
    BY <1>4, <2>1 DEF Unbidden
  <2>4. mem'.val.check.run # 0 => NoneActive(runs') /\ file'.status \notin {"ready", "waiting_human", "failed"}
    BY <1>2, <1>4, <2>1, <2>2 DEF Unbidden, PointerIdle, KeepsUnbidden
  <2>5. ~ NoneActive(runs') => file'.status = "running"
    BY <1>2, <1>10, <2>1, <2>2 DEF Unbidden, KeepsUnbidden
  <2>6. /\ pc' \notin Starting /\ (pc' = "answered" => mem'.dirty = {})
        /\ pc' = "idle" => disk'.check = mem'.val.check
    BY <1>4, <1>10
  <2>7. pc' \in {"open_pr", "opened"} => NoneActive(runs') /\ file'.status # "failed"
    BY <2>1, <2>2 DEF KeepsUnbidden
  <2>8. \A k \in DOMAIN runs' : IsWorker(runs', k) => runs'[k].st # "closed"
    BY <2>1 DEF KeepsUnbidden, NoneSwept
  <2> QED
    BY <2>2, <2>3, <2>4, <2>5, <2>6, <2>7, <2>8 DEF Unbidden, PointerIdle
<1> QED
  BY <1>6, <1>7, <1>8, <1>9, <1>10 DEF IInv, NoKills, NoLateEdits

\* Between the steps that handle a run, Place says nothing.
Resting == {"sweep", "checking", "end"}

LEMMA RestingPlace ==
    ASSUME pc' \in Resting
    PROVE  Place' /\ pc' \notin Handling \cup Starting \cup {"idle", "answered", "open_pr", "opened"}
  BY DEF Place, Resting, Handling, Starting

LEMMA Still ==
    ASSUME IInv
    PROVE  /\ left' = left => BudgetKept
           /\ ghost' = ghost => /\ ghost' \in Ghosts /\ ghost'.commanded = ghost.commanded
                                /\ NoLateEdits => ~ ghost'.moved
           /\ cur' = cur => cur' \in Curs
           /\ NoKills => AllEnded(runs)
           /\ NoKills /\ ~ ghost.commanded => NoneSwept(runs)
           /\ Later(runs, runs) /\ t.val.status \in Statuses
<1>1. Shape
  BY DEF IInv
<1>2. left' = left => BudgetKept
  BY <1>1 DEF Shape, BudgetKept
<1>3. ghost' = ghost => /\ ghost' \in Ghosts /\ ghost'.commanded = ghost.commanded
                        /\ NoLateEdits => ~ ghost'.moved
  BY <1>1 DEF Shape, Ghosts, IInv, Judged
<1>4. cur' = cur => cur' \in Curs
  BY <1>1 DEF Shape, Curs
<1>5. NoKills => AllEnded(runs)
  BY DEF IInv, Writer, AllEnded, Ended, IsWorker
<1>6. NoKills /\ ~ ghost.commanded => NoneSwept(runs)
  BY DEF IInv, Unbidden, NoneSwept
<1>7. Later(runs, runs) /\ t.val.status \in Statuses
  BY <1>1, LaterSame DEF Shape, Tasks
<1> QED
  BY <1>2, <1>3, <1>4, <1>5, <1>6, <1>7

\* The pass only moves on, possibly to another run.
LEMMA MovesOn ==
    ASSUME IInv, pc \notin Starting \cup {"idle"}, pc' \notin Starting \cup {"idle", "answered"},
           UNCHANGED <<file, disk, runs, t, mem, op, left, ghost>>, cur' \in Curs, Place',
           NoKills => /\ pc' \in {"collected", "outcome"} => OnlyCur
                      /\ pc' \in Handling \ {"collected", "outcome"} => NoneActive(runs),
           NoKills /\ ~ ghost.commanded /\ pc' \in {"open_pr", "opened"}
             => NoneActive(runs) /\ t.val.status # "failed"
    PROVE  IInv'
<1> DEFINE s == t.val.status
           c == mem.val.check
<1>1. Shape
  BY DEF IInv
<1>2. Later(runs, runs') /\ s \in Statuses /\ BudgetKept /\ ghost' \in Ghosts
      /\ ghost'.commanded = ghost.commanded /\ (NoLateEdits => ~ ghost'.moved)
  BY Still
<1>3. TaskMoved(s)
  BY <1>1, UnmovedIs
<1>4. EntryMoved(c)
  BY <1>1, <1>2, EntrySame
<1>5. NoKills => Keeps(s, c)
  BY Still DEF Keeps
<1>6. NoKills /\ ~ ghost.commanded => KeepsUnbidden(s, c)
  BY Still DEF KeepsUnbidden
<1> HIDE DEF s, c
<1>7. s = "running" => s = t.val.status
  BY DEF s
<1> QED
  BY <1>2, <1>3, <1>4, <1>5, <1>6, <1>7, PassStep

LEMMA RestsNext ==
    ASSUME IInv, pc \notin Starting \cup {"idle"}, pc' \in Resting,
           UNCHANGED <<file, disk, runs, t, mem, cur, op, left, ghost>>
    PROVE  IInv'
<1>1. cur' \in Curs
  BY Still
<1>2. Place' /\ pc' \notin Handling \cup Starting \cup {"idle", "answered", "open_pr", "opened"}
  BY RestingPlace
<1>3. pc' \notin Starting \cup {"idle", "answered"} /\ pc' \notin {"collected", "outcome"}
  BY <1>2 DEF Handling
<1> QED
  BY <1>1, <1>2, <1>3, MovesOn

LEMMA RestingSteps ==
    ASSUME IInv, \/ ReapNothing \/ FinalizeRefused \/ CheckRefused \/ NextCheckRefused
                 \/ DispatchNothing
    PROVE  IInv'
<1>1. pc \notin Starting \cup {"idle"} /\ pc' \in Resting
  BY DEF ReapNothing, FinalizeRefused, CheckRefused, NextCheckRefused, DispatchNothing,
         Verdict, Starting, Resting
<1>2. UNCHANGED <<file, disk, runs, t, mem, cur, op, left, ghost>>
  BY DEF ReapNothing, FinalizeRefused, CheckRefused, NextCheckRefused, DispatchNothing
<1> QED
  BY <1>1, <1>2, RestsNext

LEMMA HandleIs ==
    ASSUME Shape, NEW k, IsWorker(runs, k)
    PROVE  Handle(k) \in Curs /\ Handle(k).run = k /\ Handle(k).st = runs[k].st
<1>1. k \in DOMAIN runs /\ runs[k] \in Records /\ k \in Nat
  BY RunsDomain DEF Shape, IsWorker
<1>2. runs[k].st \in Active \cup Closings
  BY <1>1 DEF Records
<1> QED
  BY <1>1, <1>2 DEF Handle, Curs

\* Without kills the run reap follows is the only one that may be active.
LEMMA OnlyLatest ==
    ASSUME IInv, NoKills, pc = "reap", LatestWorkerRun # 0
    PROVE  /\ \A k \in DOMAIN runs : IsActive(runs, k) => k = LatestWorkerRun
           /\ runs[LatestWorkerRun].st # "running" => NoneActive(runs)
<1>1. Shape /\ Writer
  BY DEF IInv
<1>2. \A k \in DOMAIN runs : IsActive(runs, k) => IsWorker(runs, k) /\ runs[k].st = "running"
  BY <1>1 DEF Writer, IsActive, Active
<1>3. IsWorker(runs, LatestWorkerRun)
      /\ \/ runs[LatestWorkerRun].st = "running"
         \/ \A k \in DOMAIN runs : IsWorker(runs, k) => runs[k].st # "running"
  BY <1>1, LatestIs DEF Shape
<1>4. runs[LatestWorkerRun].st = "running" => IsActive(runs, LatestWorkerRun)
  BY <1>3 DEF IsActive, Active
<1> QED
  BY <1>1, <1>2, <1>3, <1>4 DEF Writer, NoneActive, IsWorker

LEMMA ResumeFinalizeStep == ASSUME IInv, ResumeFinalize PROVE IInv'
<1> DEFINE k == LatestWorkerRun
<1>1. Shape
  BY DEF IInv
<1>2. /\ pc = "reap" /\ mem.val.check.run = 0 /\ t.val.status = "running"
      /\ k # 0 /\ runs[k].fin /\ cur' = Handle(k)
      /\ pc' = (IF runs[k].st = "timeout" THEN "giving_up" ELSE "outcome")
      /\ UNCHANGED <<file, disk, runs, t, mem, op, left, ghost>>
  BY DEF ResumeFinalize, ReapsWorker, St
<1>3. IsWorker(runs, k)
  BY <1>1, <1>2, LatestIs DEF Shape
<1>4. cur' \in Curs /\ cur'.run = k /\ cur'.st = runs[k].st
  BY <1>1, <1>2, <1>3, HandleIs
<1>5. NoKills => /\ \A j \in DOMAIN runs : IsActive(runs, j) => j = k
                 /\ runs[k].st # "running" => NoneActive(runs)
  BY <1>2, OnlyLatest
<1> HIDE DEF k
<1>6. Place'
  BY <1>2, <1>3, <1>4 DEF Place, Handling, Starting
<1>7. pc \notin Starting \cup {"idle"} /\ pc' \notin Starting \cup {"idle", "answered", "open_pr", "opened"}
  BY <1>2 DEF Starting
<1>8. NoKills => /\ pc' \in {"collected", "outcome"} => OnlyCur
                 /\ pc' \in Handling \ {"collected", "outcome"} => NoneActive(runs)
  BY <1>2, <1>4, <1>5 DEF OnlyCur
<1> QED
  BY <1>2, <1>4, <1>6, <1>7, <1>8, MovesOn

LEMMA PushWithoutChecksStep == ASSUME IInv, PushWithoutChecks PROVE IInv'
<1>1. pc = "push" /\ pc' = "open_pr" /\ UNCHANGED <<file, disk, runs, t, mem, cur, op, left, ghost>>
  BY DEF PushWithoutChecks
<1>2. IsWorker(runs, cur.run)
  BY <1>1 DEF IInv, Place, Handling
<1>3. Place'
  BY <1>1, <1>2 DEF Place, Handling, Starting
<1>4. (NoKills => NoneActive(runs)) /\ t.val.status = "running"
  BY <1>1 DEF IInv, Writer, Place, Handling
<1>5. pc \notin Starting \cup {"idle"} /\ pc' \notin Handling \cup Starting \cup {"idle", "answered"}
  BY <1>1 DEF Starting, Handling
<1>6. pc' \notin {"collected", "outcome"} /\ cur' \in Curs
  BY <1>1, Still
<1> QED
  BY <1>1, <1>3, <1>4, <1>5, <1>6, MovesOn

LEMMA RerouteCheckStep == ASSUME IInv, RerouteCheck PROVE IInv'
<1>1. pc = "reap" /\ pc' = "verdict" /\ mem.val.check.run # 0
      /\ UNCHANGED <<file, disk, runs, t, mem, cur, op, left, ghost>>
  BY DEF RerouteCheck, ReapsCheck, St
<1>2. Place'
  BY <1>1 DEF Place, Handling, Starting
<1>3. pc \notin Starting \cup {"idle"}
      /\ pc' \notin Handling \cup Starting \cup {"idle", "answered", "open_pr", "opened", "collected", "outcome"}
  BY <1>1 DEF Starting, Handling
<1>4. cur' \in Curs
  BY <1>1, Still
<1> QED
  BY <1>1, <1>2, <1>3, <1>4, MovesOn

LEMMA ChecksPassStep == ASSUME IInv, ChecksPass PROVE IInv'
<1> DEFINE k == mem.val.check.worker
<1>0. Shape
  BY DEF IInv
<1>1. pc = "verdict" /\ pc' = "open_pr" /\ cur' = Handle(k)
      /\ UNCHANGED <<file, disk, runs, t, mem, op, left, ghost>>
  BY DEF ChecksPass, Verdict, St
<1>2. mem.val.check.run # 0
  BY <1>1 DEF IInv, Place
<1>3. IsWorker(runs, k)
  BY <1>0, <1>2 DEF Shape, EntryOK, PointerOK
<1>4. cur' \in Curs /\ cur'.run = k
  BY <1>0, <1>1, <1>3, HandleIs
<1> HIDE DEF k
<1>5. Place'
  BY <1>1, <1>3, <1>4 DEF Place, Handling, Starting
<1>6. NoKills /\ ~ ghost.commanded => NoneActive(runs) /\ t.val.status # "failed"
  BY <1>1, <1>2 DEF IInv, Unbidden, PointerIdle
<1>7. pc \notin Starting \cup {"idle"} /\ pc' \notin Handling \cup Starting \cup {"idle", "answered"}
      /\ pc' \notin {"collected", "outcome"}
  BY <1>1 DEF Starting, Handling
<1> QED
  BY <1>1, <1>4, <1>5, <1>6, <1>7, MovesOn

-----------------------------------------------------------------------------
(* Steps that change one run record.                                       *)

\* A worker's record is closed, not by the sweep of dangling records.
LEMMA OneRunChanged ==
    ASSUME IInv, NEW k \in DOMAIN runs, NEW rec \in Records, Grows(runs[k], rec),
           runs' = [runs EXCEPT ![k] = rec], NoKills => Ended(rec)
    PROVE  /\ Later(runs, runs') /\ runs'[k] = rec
           /\ \A j \in DOMAIN runs : j # k => runs'[j] = runs[j]
           /\ DOMAIN runs' = DOMAIN runs
           /\ NoKills => AllEnded(runs')
           /\ (runs[k].mode \in WorkerModes => rec.st # "closed")
                => (NoKills /\ ~ ghost.commanded => NoneSwept(runs'))
<1>1. runs \in Seq(Records)
  BY DEF IInv, Shape
<1>2. /\ Later(runs, runs') /\ runs'[k] = rec /\ DOMAIN runs' = DOMAIN runs
      /\ \A j \in DOMAIN runs : j # k => runs'[j] = runs[j]
  BY <1>1, RunChanged
<1>3. NoKills => AllEnded(runs')
  BY <1>2, Still DEF AllEnded
<1>4. rec.mode = runs[k].mode
  BY DEF Grows
<1>5. (runs[k].mode \in WorkerModes => rec.st # "closed")
        => (NoKills /\ ~ ghost.commanded => NoneSwept(runs'))
  BY <1>2, <1>4, Still DEF NoneSwept, IsWorker
<1> QED
  BY <1>2, <1>3, <1>5

\* Only run records change, and the pass goes on.
LEMMA RecordStep ==
    ASSUME IInv, pc \notin Starting \cup {"idle"}, pc' \notin Starting \cup {"idle", "answered", "open_pr", "opened"},
           Later(runs, runs'), UNCHANGED <<file, disk, t, mem, op, ghost>>, BudgetKept,
           cur' \in Curs, Place',
           NoKills => /\ AllEnded(runs')
                      /\ pc' \in {"collected", "outcome"} => OnlyCur
                      /\ pc' \in Handling \ {"collected", "outcome"} => NoneActive(runs'),
           NoKills /\ ~ ghost.commanded => NoneSwept(runs')
    PROVE  IInv'
<1> DEFINE s == t.val.status
           c == mem.val.check
<1>1. Shape
  BY DEF IInv
<1>2. s \in Statuses /\ ghost' \in Ghosts
      /\ ghost'.commanded = ghost.commanded /\ (NoLateEdits => ~ ghost'.moved)
  BY Still
<1>3. TaskMoved(s)
  BY <1>1, UnmovedIs
<1>4. EntryMoved(c)
  BY <1>1, EntrySame
<1>5. NoKills => Keeps(s, c)
  BY DEF Keeps
<1>6. NoKills /\ ~ ghost.commanded => KeepsUnbidden(s, c)
  BY DEF KeepsUnbidden
<1> HIDE DEF s, c
<1>7. s = "running" => s = t.val.status
  BY DEF s
<1> QED
  BY <1>2, <1>3, <1>4, <1>5, <1>6, <1>7, PassStep

LEMMA TimeOutStep == ASSUME IInv, TimeOut PROVE IInv'
<1> DEFINE k == LatestWorkerRun
           rec == [runs[k] EXCEPT !.proc = "dying", !.res = "failed", !.st = "timeout", !.fin = TRUE]
<1>1. Shape
  BY DEF IInv
<1>2. /\ pc = "reap" /\ mem.val.check.run = 0 /\ t.val.status = "running"
      /\ k # 0 /\ runs[k].st = "running" /\ left.timeouts > 0
      /\ runs' = [runs EXCEPT ![k].proc = "dying", ![k].res = "failed", ![k].st = "timeout", ![k].fin = TRUE]
      /\ cur' = [run |-> k, st |-> "timeout"] /\ pc' = "timed_out"
      /\ left' = [left EXCEPT !.timeouts = @ - 1]
      /\ UNCHANGED <<file, disk, t, mem, op, ghost>>
  BY DEF TimeOut, ReapsWorker, St
<1>3. IsWorker(runs, k)
  BY <1>1, <1>2, LatestIs DEF Shape
<1>4. k \in DOMAIN runs /\ runs[k] \in Records /\ k \in Nat
  BY <1>1, <1>3, RunsDomain DEF Shape, IsWorker
<1>5. NoKills => \A j \in DOMAIN runs : IsActive(runs, j) => j = k
  BY <1>2, OnlyLatest
<1> HIDE DEF k
<1>6. runs' = [runs EXCEPT ![k] = rec]
  BY <1>2, <1>4
<1>7. rec \in Records /\ Grows(runs[k], rec) /\ Ended(rec) /\ rec.st = "timeout" /\ rec.fin
  BY <1>4 DEF Records, Grows, Closings, Ended
<1> HIDE DEF rec
<1>8. /\ Later(runs, runs') /\ runs'[k] = rec /\ (NoKills => AllEnded(runs'))
      /\ (NoKills /\ ~ ghost.commanded => NoneSwept(runs'))
  BY <1>4, <1>6, <1>7, OneRunChanged
<1>9. IsWorker(runs', k) /\ \A j : IsActive(runs', j) => IsActive(runs, j)
  BY <1>3, <1>8, LaterKeeps
<1>10. NoKills => NoneActive(runs')
  BY <1>5, <1>7, <1>8, <1>9 DEF NoneActive, IsActive, IsWorker, Active
<1>11. cur' \in Curs /\ cur'.run = k
  BY <1>2, <1>4 DEF Curs, Closings
<1>12. BudgetKept
  <2>1. left \in BoundSet
    BY <1>1 DEF Shape
  <2>2. left' \in BoundSet
    BY <1>2, <2>1 DEF BoundSet
  <2>3. left'.crashes = left.crashes /\ left'.answers = left.answers /\ left'.edits = left.edits
    BY <1>2, <2>1 DEF BoundSet
  <2> QED
    BY <2>2, <2>3 DEF BudgetKept
<1>13. Place'
  BY <1>2, <1>7, <1>8, <1>9, <1>11 DEF Place, Handling, Starting
<1>14. pc \notin Starting \cup {"idle"} /\ pc' \notin Starting \cup {"idle", "answered", "open_pr", "opened"}
       /\ pc' \notin {"collected", "outcome"}
  BY <1>2 DEF Starting
<1> QED
  BY <1>2, <1>8, <1>10, <1>11, <1>12, <1>13, <1>14, RecordStep

LEMMA CollectRunStep == ASSUME IInv, CollectRun PROVE IInv'
<1> DEFINE k == LatestWorkerRun
           rec == [runs[k] EXCEPT !.fin = TRUE]
<1>1. Shape
  BY DEF IInv
<1>2. /\ pc = "reap" /\ mem.val.check.run = 0 /\ t.val.status = "running"
      /\ k # 0 /\ runs[k].st = "running" /\ Finished(runs[k])
      /\ runs' = [runs EXCEPT ![k].fin = TRUE]
      /\ cur' = Handle(k) /\ pc' = "collected"
      /\ UNCHANGED <<file, disk, t, mem, op, left, ghost>>
  BY DEF CollectRun, ReapsWorker, St
<1>3. IsWorker(runs, k)
  BY <1>1, <1>2, LatestIs DEF Shape
<1>4. k \in DOMAIN runs /\ runs[k] \in Records
  BY <1>1, <1>3, RunsDomain DEF Shape, IsWorker
<1>5. NoKills => \A j \in DOMAIN runs : IsActive(runs, j) => j = k
  BY <1>2, OnlyLatest
<1>6. cur' \in Curs /\ cur'.run = k /\ cur'.st = "running"
  BY <1>1, <1>2, <1>3, HandleIs
<1> HIDE DEF k
<1>7. runs' = [runs EXCEPT ![k] = rec]
  BY <1>2, <1>4
<1>8. rec \in Records /\ Grows(runs[k], rec) /\ Ended(rec) /\ rec.fin /\ rec.st = "running"
  BY <1>2, <1>4 DEF Records, Grows, Ended, Finished, Alive
<1> HIDE DEF rec
<1>9. /\ Later(runs, runs') /\ runs'[k] = rec /\ (NoKills => AllEnded(runs')) /\ DOMAIN runs' = DOMAIN runs
      /\ (NoKills /\ ~ ghost.commanded => NoneSwept(runs'))
  BY <1>4, <1>7, <1>8, OneRunChanged
<1>10. IsWorker(runs', k) /\ \A j : IsActive(runs', j) => IsActive(runs, j)
  BY <1>3, <1>9, LaterKeeps
<1>11. NoKills => OnlyCur
  BY <1>5, <1>6, <1>9, <1>10 DEF OnlyCur
<1>12. Place'
  BY <1>2, <1>6, <1>8, <1>9, <1>10 DEF Place, Handling, Starting
<1>13. pc \notin Starting \cup {"idle"} /\ pc' \notin Starting \cup {"idle", "answered", "open_pr", "opened"}
       /\ pc' \in {"collected", "outcome"}
  BY <1>2 DEF Starting
<1>14. BudgetKept
  BY <1>2, Still
<1> QED
  BY <1>2, <1>6, <1>9, <1>11, <1>12, <1>13, <1>14, RecordStep

\* The end of the run is reported.
LEMMA EmitSteps == ASSUME IInv, EmitTimeout \/ EmitFinished PROVE IInv'
<1> DEFINE k == cur.run
           rec == [runs[k] EXCEPT !.events = @ + 1]
<1>1. Shape
  BY DEF IInv
<1>2. /\ pc \in {"timed_out", "collected"}
      /\ pc' = (IF pc = "timed_out" THEN "giving_up" ELSE "outcome")
      /\ runs' = [runs EXCEPT ![k].events = @ + 1]
      /\ UNCHANGED <<file, disk, t, mem, cur, op, left, ghost>>
  BY DEF EmitTimeout, EmitFinished
<1>3. IsWorker(runs, k) /\ runs[k].fin /\ t.val.status = "running" /\ mem.val.check.run = 0
      /\ (pc = "collected" => cur.st # "timeout")
  BY <1>2 DEF IInv, Place, Handling
<1>4. k \in DOMAIN runs /\ runs[k] \in Records
  BY <1>1, <1>3, RunsDomain DEF Shape, IsWorker
<1>5. NoKills => /\ pc = "collected" => \A j \in DOMAIN runs : IsActive(runs, j) => j = k
                 /\ pc = "timed_out" => NoneActive(runs)
  BY DEF IInv, Writer, Handling
<1>6. NoKills => Ended(runs[k])
  BY <1>4, Still DEF AllEnded
<1> HIDE DEF k
<1>7. runs' = [runs EXCEPT ![k] = rec]
  BY <1>2, <1>4
<1>8. rec \in Records /\ Grows(runs[k], rec) /\ rec.fin /\ rec.st = runs[k].st /\ rec.proc = runs[k].proc
      /\ rec.mode = runs[k].mode
  BY <1>3, <1>4 DEF Records, Grows
<1> HIDE DEF rec
<1>9. NoKills => Ended(rec)
  BY <1>3, <1>6, <1>8 DEF Ended
<1>10. NoKills /\ ~ ghost.commanded => (runs[k].mode \in WorkerModes => rec.st # "closed")
  BY <1>4, <1>8, Still DEF NoneSwept, IsWorker
<1>11. /\ Later(runs, runs') /\ runs'[k] = rec /\ (NoKills => AllEnded(runs')) /\ DOMAIN runs' = DOMAIN runs
       /\ (NoKills /\ ~ ghost.commanded => NoneSwept(runs'))
  BY <1>4, <1>7, <1>8, <1>9, <1>10, OneRunChanged
<1>12. IsWorker(runs', k) /\ (\A j : IsActive(runs', j) => IsActive(runs, j))
       /\ (NoneActive(runs) => NoneActive(runs'))
  BY <1>3, <1>11, LaterKeeps
<1>13. NoKills => /\ pc' \in {"collected", "outcome"} => OnlyCur
                  /\ pc' \in Handling \ {"collected", "outcome"} => NoneActive(runs')
  BY <1>2, <1>5, <1>11, <1>12 DEF OnlyCur, k
<1>14. Place'
  BY <1>2, <1>3, <1>8, <1>11, <1>12 DEF Place, Handling, Starting, k
<1>15. pc \notin Starting \cup {"idle"} /\ pc' \notin Starting \cup {"idle", "answered", "open_pr", "opened"}
  BY <1>2 DEF Starting
<1>16. BudgetKept /\ cur' \in Curs
  BY <1>2, Still
<1> QED
  BY <1>2, <1>11, <1>13, <1>14, <1>15, <1>16, RecordStep

-----------------------------------------------------------------------------
(* finalize.                                                               *)

\* The pass closes the run it handles, whose process is no longer alive.
LEMMA ClosesCur ==
    ASSUME IInv, pc = "outcome", ~ Conflict, NEW status \in Closings \ {"timeout", "closed"},
           CloseRun(status)
    PROVE  /\ Later(runs, runs') /\ cur' \in Curs /\ cur'.run = cur.run
           /\ IsWorker(runs', cur.run) /\ runs'[cur.run].fin
           /\ NoKills => AllEnded(runs') /\ NoneActive(runs')
           /\ NoKills /\ ~ ghost.commanded => NoneSwept(runs')
<1> DEFINE k == cur.run
           rec == [runs[k] EXCEPT !.st = status]
<1>1. Shape
  BY DEF IInv
<1>2. runs' = [runs EXCEPT ![k].st = status] /\ cur' = [cur EXCEPT !.st = status]
  BY DEF CloseRun
<1>3. IsWorker(runs, k) /\ runs[k].fin /\ cur.st # "timeout"
  BY DEF IInv, Place, Handling
<1>4. k \in DOMAIN runs /\ runs[k] \in Records
  BY <1>1, <1>3, RunsDomain DEF Shape, IsWorker
<1>5. NoKills => \A j \in DOMAIN runs : IsActive(runs, j) => j = k
  BY DEF IInv, Writer
<1>6. NoKills => Ended(runs[k])
  BY <1>4, Still DEF AllEnded
<1>7. runs[k].st # "timeout"
  BY <1>3 DEF Conflict
<1>8. cur' \in Curs /\ cur'.run = k
  BY <1>1, <1>2 DEF Shape, Curs
<1> HIDE DEF k
<1>9. runs' = [runs EXCEPT ![k] = rec]
  BY <1>2, <1>4
<1>10. rec \in Records /\ Grows(runs[k], rec) /\ rec.fin /\ rec.st = status
       /\ rec.proc = runs[k].proc /\ rec.mode = runs[k].mode
  BY <1>3, <1>4 DEF Records, Grows
<1> HIDE DEF rec
<1>11. NoKills => Ended(rec)
  BY <1>3, <1>6, <1>7, <1>10 DEF Ended
<1>12. /\ Later(runs, runs') /\ runs'[k] = rec /\ (NoKills => AllEnded(runs')) /\ DOMAIN runs' = DOMAIN runs
       /\ (NoKills /\ ~ ghost.commanded => NoneSwept(runs'))
  BY <1>4, <1>9, <1>10, <1>11, OneRunChanged
<1>13. IsWorker(runs', k) /\ (\A j : IsActive(runs', j) => IsActive(runs, j))
  BY <1>3, <1>12, LaterKeeps
<1>14. NoKills => NoneActive(runs')
  BY <1>5, <1>10, <1>12, <1>13 DEF NoneActive, IsActive, Closings, Active
<1> QED
  BY <1>8, <1>10, <1>12, <1>13, <1>14 DEF k

\* A step of finalize: the run is closed or was, and no other is active.
LEMMA FinalizeStep ==
    ASSUME IInv, NEW s \in Statuses, pc \in Handling,
           Later(runs, runs'), TaskMoved(s), s = "running" => s = t.val.status,
           EntryMoved(mem.val.check), UNCHANGED <<op, left, ghost>>, cur' \in Curs, cur'.run = cur.run,
           IsWorker(runs', cur.run), runs'[cur.run].fin,
           \/ pc' \in Resting
           \/ pc' \in Handling \ {"collected", "outcome"} /\ s = "running",
           NoKills => AllEnded(runs') /\ NoneActive(runs'),
           NoKills /\ ~ ghost.commanded => NoneSwept(runs')
    PROVE  IInv'
<1> DEFINE c == mem.val.check
<1>1. BudgetKept /\ ghost' \in Ghosts /\ ghost'.commanded = ghost.commanded /\ (NoLateEdits => ~ ghost'.moved)
  BY Still
<1>2. c.run = 0 /\ mem'.val.check = c /\ t'.val.status = s
  BY DEF IInv, Place, EntryMoved, TaskMoved
<1>3. pc \notin Starting \cup {"idle"} /\ pc' \notin Starting \cup {"idle", "answered", "open_pr", "opened"}
  BY DEF Starting, Handling, Resting
<1>4. Place'
  <2>1. CASE pc' \in Resting
    BY <2>1, RestingPlace
  <2>2. CASE pc' \in Handling \ {"collected", "outcome"} /\ s = "running"
    BY <1>2, <2>2 DEF Place, Handling, Starting
  <2> QED
    BY <2>1, <2>2
<1>5. NoKills => Keeps(s, c)
  BY DEF Keeps, Resting
<1>6. NoKills /\ ~ ghost.commanded => KeepsUnbidden(s, c)
  BY <1>2, <1>3 DEF KeepsUnbidden
<1> HIDE DEF c
<1>7. EntryMoved(c)
  BY DEF c
<1> QED
  BY <1>1, <1>3, <1>4, <1>5, <1>6, <1>7, PassStep

\* The outcomes that close the run and leave the task to a later step.
LEMMA OutcomeSteps == ASSUME IInv, FailRun \/ AskHuman \/ EnvStop \/ FinishRun PROVE IInv'
<1>1. Shape /\ pc = "outcome" /\ ~ Conflict
  BY DEF IInv, FailRun, AskHuman, EnvStop, FinishRun, Outcome
<1>2. PICK status \in Closings \ {"timeout", "closed"} : CloseRun(status)
  BY DEF FailRun, AskHuman, EnvStop, FinishRun, Closings
<1>3. PICK upd : /\ SaveState(Put(mem, upd)) /\ "check" \notin DOMAIN upd
                 /\ "rebase" \in DOMAIN upd => upd["rebase"] \in BOOLEAN
  <2>1. CASE FailRun \/ FinishRun
    <3>1. "check" \notin DOMAIN [envs |-> 0] /\ "rebase" \notin DOMAIN [envs |-> 0]
      OBVIOUS
    <3> QED
      BY <2>1, <3>1 DEF FailRun, FinishRun
  <2>2. CASE AskHuman
    <3>1. "check" \notin DOMAIN [envs |-> 0, question |-> TRUE] /\ "rebase" \notin DOMAIN [envs |-> 0, question |-> TRUE]
      OBVIOUS
    <3> QED
      BY <2>2, <3>1 DEF AskHuman
  <2>3. CASE EnvStop
    <3> DEFINE r == runs[cur.run]
               n == St.envs + 1
               v == IF St.revisions > 0 THEN St.revisions - 1 ELSE 0
               u1 == [envs |-> n, human |-> TRUE]
               u2 == [envs |-> n, feedback |-> TRUE, rebase |-> TRUE]
               u3 == [envs |-> n, feedback |-> TRUE, revisions |-> v]
               u4 == [envs |-> n, question |-> r.question]
               u5 == [envs |-> n]
    <3>1. PICK u \in {u1, u2, u3, u4, u5} : SaveState(Put(mem, u))
      BY <2>3 DEF EnvStop
    <3>2. "check" \notin DOMAIN u /\ ("rebase" \in DOMAIN u => u["rebase"] \in BOOLEAN)
      <4>1. CASE u = u1
        BY <4>1
      <4>2. CASE u = u2
        BY <4>2
      <4>3. CASE u = u3
        BY <4>3
      <4>4. CASE u = u4
        BY <4>4
      <4>5. CASE u = u5
        BY <4>5
      <4> QED
        BY <4>1, <4>2, <4>3, <4>4, <4>5
    <3> QED
      BY <3>1, <3>2
  <2> QED
    BY <2>1, <2>2, <2>3
<1>4. UNCHANGED <<file, t, op, left, ghost>> /\ pc' \in {"giving_up", "asking", "env_stopped", "push"}
  BY DEF FailRun, AskHuman, EnvStop, FinishRun
<1>5. /\ Later(runs, runs') /\ cur' \in Curs /\ cur'.run = cur.run
      /\ IsWorker(runs', cur.run) /\ runs'[cur.run].fin
      /\ (NoKills => AllEnded(runs') /\ NoneActive(runs'))
      /\ (NoKills /\ ~ ghost.commanded => NoneSwept(runs'))
  BY <1>1, <1>2, ClosesCur
<1>6. EntryMoved(mem.val.check)
  BY <1>1, <1>3, <1>5, EntrySavedPut
<1>7. TaskMoved(t.val.status)
  BY <1>1, <1>4, UnmovedIs
<1>8. t.val.status = "running" /\ "running" \in Statuses
  BY <1>1 DEF IInv, Place, Handling, Statuses
<1>9. pc \in Handling /\ pc' \in Handling \ {"collected", "outcome"}
  BY <1>1, <1>4 DEF Handling
<1>10. TaskMoved("running")
  BY <1>7, <1>8
<1> QED
  BY <1>4, <1>5, <1>6, <1>8, <1>9, <1>10, FinalizeStep

LEMMA BlockRunStep == ASSUME IInv, BlockRun PROVE IInv'
<1>1. Shape /\ pc = "outcome" /\ ~ Conflict /\ CloseRun("blocked")
      /\ SaveState(Put(mem, [envs |-> 0])) /\ Transition("failed") /\ pc' = "sweep"
      /\ UNCHANGED <<op, left, ghost>>
  BY DEF IInv, BlockRun, Outcome
<1>2. "blocked" \in Closings \ {"timeout", "closed"} /\ "failed" \in Statuses
  BY DEF Closings, Statuses
<1>3. /\ Later(runs, runs') /\ cur' \in Curs /\ cur'.run = cur.run
      /\ IsWorker(runs', cur.run) /\ runs'[cur.run].fin
      /\ (NoKills => AllEnded(runs') /\ NoneActive(runs'))
      /\ (NoKills /\ ~ ghost.commanded => NoneSwept(runs'))
  BY <1>1, <1>2, ClosesCur
<1>4. "check" \notin DOMAIN [envs |-> 0] /\ "rebase" \notin DOMAIN [envs |-> 0]
  OBVIOUS
<1>5. EntryMoved(mem.val.check)
  BY <1>1, <1>3, <1>4, EntrySavedPut
<1>6. TaskMoved("failed")
  BY <1>1, <1>2, TransitionIs
<1>7. pc \in Handling /\ pc' \in Resting /\ "failed" # "running"
  BY <1>1 DEF Handling, Resting
<1> QED
  BY <1>1, <1>2, <1>3, <1>5, <1>6, <1>7, FinalizeStep

\* The task follows the run that was closed.
LEMMA FollowSteps ==
    ASSUME IInv, RetryOrFail \/ AskTransition \/ EnvStopTransition \/ PushFails PROVE IInv'
<1>1. Shape /\ pc \in {"giving_up", "asking", "env_stopped", "push"} /\ pc' = "sweep"
      /\ UNCHANGED <<disk, runs, mem, cur, op, left, ghost>>
  BY DEF IInv, RetryOrFail, AskTransition, EnvStopTransition, PushFails
<1>2. PICK s \in Statuses \ {"running"} : TaskMoved(s)
  <2>1. ASSUME NEW s \in Statuses \ {"running"}, Transition(s) PROVE TaskMoved(s)
    BY <1>1, <2>1, TransitionIs
  <2>2. CASE AskTransition \/ PushFails
    BY <2>1, <2>2 DEF AskTransition, PushFails, Statuses
  <2>3. CASE RetryOrFail
    BY <2>1, <2>3 DEF RetryOrFail, RetryStatus, Statuses
  <2>4. CASE EnvStopTransition
    <3> DEFINE mode == runs[cur.run].mode
    <3>1. PICK a, s : /\ a = (IF mode = "work" /\ t.val.attempts > 0 THEN t.val.attempts - 1 ELSE t.val.attempts)
                      /\ s = (IF St.envs >= EnvCap \/ mode = "resume" THEN "waiting_human"
                              ELSE IF mode = "revise" /\ t.val.pr THEN "changes_requested" ELSE "ready")
      OBVIOUS
    <3>2. SaveTask([t.val EXCEPT !.attempts = a, !.status = s])
      BY <1>1, <2>4, <3>1 DEF EnvStopTransition, Shape, Tasks
    <3>3. s \in Statuses \ {"running"}
      BY <3>1 DEF Statuses
    <3>4. t.val \in Tasks /\ a \in Int
      BY <1>1, <3>1 DEF Shape, Tasks
    <3>5. /\ [t.val EXCEPT !.attempts = a, !.status = s] \in Tasks
          /\ [t.val EXCEPT !.attempts = a, !.status = s].status = s
          /\ [t.val EXCEPT !.attempts = a, !.status = s].crit = t.val.crit
      BY <3>3, <3>4 DEF Tasks
    <3>6. TaskMoved(s)
      BY <1>1, <3>2, <3>5, SaveTaskIs
    <3> QED
      BY <3>3, <3>6
  <2> QED
    BY <2>2, <2>3, <2>4
<1>3. /\ Later(runs, runs') /\ cur' \in Curs /\ IsWorker(runs', cur.run) /\ runs'[cur.run].fin
      /\ (NoKills => AllEnded(runs') /\ NoneActive(runs'))
      /\ (NoKills /\ ~ ghost.commanded => NoneSwept(runs'))
  <2>1. IsWorker(runs, cur.run) /\ runs[cur.run].fin /\ (NoKills => NoneActive(runs))
    BY <1>1 DEF IInv, Place, Writer, Handling
  <2> QED
    BY <1>1, <2>1, Still
<1>4. EntryMoved(mem.val.check)
  BY <1>1, <1>3, EntrySame
<1>5. pc \in Handling /\ pc' \in Resting /\ s # "running" /\ cur'.run = cur.run
  BY <1>1 DEF Handling, Resting
<1> QED
  BY <1>1, <1>2, <1>3, <1>4, <1>5, FinalizeStep

-----------------------------------------------------------------------------
(* The checks.                                                             *)

LEMMA NoPointerOK == ASSUME NEW rs PROVE PointerOK(rs, NoCheckRun) /\ NoCheckRun.run = 0
  BY DEF PointerOK, NoCheckRun, Pointers

\* While a check's run is followed no worker run is active.
LEMMA CheckedIdle ==
    ASSUME IInv, pc # "idle", mem.val.check.run # 0, Later(runs, runs')
    PROVE  /\ NoKills /\ ~ ghost.commanded => NoneActive(runs) /\ NoneActive(runs')
           /\ NoKills /\ ~ ghost.commanded => t.val.status \notin {"ready", "waiting_human", "failed"}
<1>1. NoKills /\ ~ ghost.commanded => NoneActive(runs) /\ t.val.status \notin {"ready", "waiting_human", "failed"}
  BY DEF IInv, Unbidden, PointerIdle
<1> QED
  BY <1>1, LaterKeeps

\* A step that rests: what it has to establish.
LEMMA RestingStep ==
    ASSUME IInv, NEW s \in Statuses, NEW c,
           pc \notin Starting \cup {"idle"}, pc' \in Resting,
           Later(runs, runs'), TaskMoved(s), s = "running" => s = t.val.status,
           EntryMoved(c), UNCHANGED op, BudgetKept, cur' \in Curs,
           ghost' \in Ghosts, ghost'.commanded = ghost.commanded, NoLateEdits => ~ ghost'.moved,
           NoKills => /\ AllEnded(runs')
                      /\ s = "waiting_human" /\ s # t.val.status => NoneActive(runs'),
           NoKills /\ ~ ghost.commanded => KeepsUnbidden(s, c)
    PROVE  IInv'
<1>1. Place' /\ pc' \notin Handling \cup Starting \cup {"idle", "answered", "open_pr", "opened"}
  BY RestingPlace
<1>2. NoKills => Keeps(s, c)
  BY <1>1 DEF Keeps, Handling
<1>3. pc' \notin Starting \cup {"idle", "answered"}
  BY <1>1
<1> QED
  BY <1>1, <1>2, <1>3, PassStep

\* The check c replaces the one followed so far.
LEMMA CheckLet ==
    ASSUME IInv, NEW s \in Statuses \ {"waiting_human"}, NEW c,
           pc \notin Starting \cup {"idle"}, pc' \in Resting, mem.val.check.run # 0,
           s # t.val.status => s \notin {"ready", "running", "failed"},
           Later(runs, runs'), TaskMoved(s), EntryMoved(c), UNCHANGED <<cur, op, ghost>>, BudgetKept,
           NoKills => AllEnded(runs'),
           NoKills /\ ~ ghost.commanded => NoneSwept(runs')
    PROVE  IInv'
<1>1. cur' \in Curs /\ ghost' \in Ghosts /\ ghost'.commanded = ghost.commanded /\ (NoLateEdits => ~ ghost'.moved)
  BY Still
<1>2. /\ NoKills /\ ~ ghost.commanded => NoneActive(runs')
      /\ NoKills /\ ~ ghost.commanded => t.val.status \notin {"ready", "waiting_human", "failed"}
  BY CheckedIdle
<1>3. pc' \notin {"open_pr", "opened"}
  BY DEF Resting
<1>4. NoKills /\ ~ ghost.commanded => KeepsUnbidden(s, c)
  BY <1>2, <1>3 DEF KeepsUnbidden
<1> QED
  BY <1>1, <1>4, RestingStep

\* A check is started for the worker run w.
LEMMA CheckStarted ==
    ASSUME IInv, NEW stage \in {"pre_pr", "base_probe", "rebase_recheck"}, NEW retries \in Nat, NEW w,
           IsWorker(runs, w), StartCheck(stage, retries, w)
    PROVE  /\ Later(runs, runs') /\ (NoKills => AllEnded(runs'))
           /\ NoKills /\ ~ ghost.commanded => NoneSwept(runs')
           /\ BudgetKept /\ pc' \in Resting /\ UNCHANGED <<file, t, cur, op, ghost>>
           /\ \E c : EntryMoved(c) /\ mem'.val.check = c
<1> DEFINE rec == [NewRun("check", 0, FALSE) EXCEPT !.st = "running", !.pid = TRUE, !.proc = "live"]
           c == [run |-> Len(runs) + 1, stage |-> stage, collected |-> FALSE, retries |-> retries, worker |-> w]
<1>1. Shape /\ runs \in Seq(Records) /\ left \in BoundSet
  BY DEF IInv, Shape
<1>2. /\ left.checks > 0 /\ runs' = Append(runs, rec) /\ mem' = Put(mem, [check |-> c])
      /\ left' = [left EXCEPT !.checks = @ - 1] /\ pc' = "checking"
      /\ UNCHANGED <<file, disk, t, cur, op, ghost>>
  BY DEF StartCheck
<1>3. rec \in Records /\ rec.mode = "check" /\ rec.prep
  BY DEF NewRun, Records, Active
<1> HIDE DEF rec
<1>4. /\ Later(runs, runs') /\ Len(runs) + 1 \in DOMAIN runs' /\ runs'[Len(runs) + 1] = rec
      /\ \A j \in DOMAIN runs : runs'[j] = runs[j]
      /\ \A j \in DOMAIN runs' : j \notin DOMAIN runs => runs'[j] = rec
  BY <1>1, <1>2, <1>3, CheckAdded
<1>5. NoKills => AllEnded(runs')
  BY <1>3, <1>4, Still DEF AllEnded, Ended, WorkerModes
<1>6. NoKills /\ ~ ghost.commanded => NoneSwept(runs')
  BY <1>3, <1>4, Still DEF NoneSwept, IsWorker, WorkerModes
<1>7. BudgetKept
  <2>0. left \in BoundSet /\ left' = [left EXCEPT !.checks = @ - 1] /\ left.checks > 0
    BY <1>1, <1>2
  <2>1. left' \in BoundSet
    BY <2>0 DEF BoundSet
  <2>2. left'.crashes = left.crashes /\ left'.answers = left.answers /\ left'.edits = left.edits
    BY <2>0 DEF BoundSet
  <2> QED
    BY <2>1, <2>2 DEF BudgetKept
<1>8. PointerOK(runs', c)
  <2>1. IsWorker(runs', w)
    BY <1>4, LaterKeeps
  <2>2. w \in Nat /\ Len(runs) \in Nat
    BY <1>1, RunsDomain DEF IsWorker
  <2>3. PICK n \in Nat : n = Len(runs) + 1
    BY <2>2
  <2>4. c = [run |-> n, stage |-> stage, collected |-> FALSE, retries |-> retries, worker |-> w]
    BY <2>3
  <2>5. c \in Pointers /\ c.run = Len(runs) + 1 /\ c.worker = w
    BY <2>2, <2>3, <2>4 DEF Pointers
  <2> QED
    BY <1>3, <1>4, <2>1, <2>5 DEF PointerOK
<1> HIDE DEF c
<1>9. "check" \in DOMAIN [check |-> c] /\ [check |-> c]["check"] = c /\ "rebase" \notin DOMAIN [check |-> c]
  OBVIOUS
<1>10. EntryMoved(c)
  BY <1>1, <1>2, <1>4, <1>8, <1>9, EntryPut
<1> QED
  BY <1>2, <1>4, <1>5, <1>6, <1>7, <1>10 DEF Resting, EntryMoved

LEMMA NextCheckSteps == ASSUME IInv, RetryCheck \/ ProbeBase \/ RebaseAndRecheck PROVE IInv'
<1>1. Shape /\ pc = "verdict"
  BY DEF IInv, RetryCheck, ProbeBase, RebaseAndRecheck, Verdict
<1>2. mem.val.check.run # 0
  BY <1>1 DEF IInv, Place
<1>3. IsWorker(runs, mem.val.check.worker) /\ mem.val.check \in Pointers
  BY <1>1, <1>2 DEF Shape, EntryOK, PointerOK
<1>4. PICK stage \in {"pre_pr", "base_probe", "rebase_recheck"}, retries \in Nat :
        StartCheck(stage, retries, mem.val.check.worker)
  <2>1. CASE RetryCheck
    <3>1. mem.val.check.stage \in {"pre_pr", "base_probe", "rebase_recheck"} /\ mem.val.check.retries + 1 \in Nat
      BY <1>3, <2>1 DEF RetryCheck, Verdict, St, Pointers
    <3> QED
      BY <2>1, <3>1 DEF RetryCheck, St
  <2>2. CASE ProbeBase \/ RebaseAndRecheck
    BY <2>2 DEF ProbeBase, RebaseAndRecheck, St
  <2> QED
    BY <2>1, <2>2
<1>5. /\ Later(runs, runs') /\ (NoKills => AllEnded(runs'))
      /\ (NoKills /\ ~ ghost.commanded => NoneSwept(runs'))
      /\ BudgetKept /\ pc' \in Resting /\ UNCHANGED <<file, t, cur, op, ghost>>
      /\ \E c : EntryMoved(c) /\ mem'.val.check = c
  BY <1>3, <1>4, CheckStarted
<1>6. PICK c : EntryMoved(c)
  BY <1>5
<1>7. TaskMoved(t.val.status) /\ t.val.status \in Statuses
  BY <1>1, <1>5, UnmovedIs, Still
<1>8. pc \notin Starting \cup {"idle"}
  BY <1>1 DEF Starting
<1>9. cur' \in Curs /\ ghost' \in Ghosts /\ ghost'.commanded = ghost.commanded /\ (NoLateEdits => ~ ghost'.moved)
  BY <1>5, Still
<1>10. NoKills /\ ~ ghost.commanded => KeepsUnbidden(t.val.status, c)
  <2>1. NoKills /\ ~ ghost.commanded => NoneActive(runs') /\ t.val.status \notin {"ready", "waiting_human", "failed"}
    BY <1>1, <1>2, <1>5, CheckedIdle
  <2>2. pc' \notin {"open_pr", "opened"}
    BY <1>5 DEF Resting
  <2> QED
    BY <1>5, <2>1, <2>2 DEF KeepsUnbidden
<1> QED
  BY <1>5, <1>6, <1>7, <1>8, <1>9, <1>10, RestingStep

LEMMA PushThenCheckStep == ASSUME IInv, PushThenCheck PROVE IInv'
<1>1. Shape /\ pc = "push" /\ StartCheck("pre_pr", 0, cur.run)
  BY DEF IInv, PushThenCheck
<1>2. IsWorker(runs, cur.run) /\ t.val.status = "running" /\ (NoKills => NoneActive(runs))
  BY <1>1 DEF IInv, Place, Writer, Handling
<1>3. /\ Later(runs, runs') /\ (NoKills => AllEnded(runs'))
      /\ (NoKills /\ ~ ghost.commanded => NoneSwept(runs'))
      /\ BudgetKept /\ pc' \in Resting /\ UNCHANGED <<file, t, cur, op, ghost>>
      /\ \E c : EntryMoved(c) /\ mem'.val.check = c
  BY <1>1, <1>2, CheckStarted
<1>4. PICK c : EntryMoved(c)
  BY <1>3
<1>5. TaskMoved(t.val.status) /\ t.val.status \in Statuses
  BY <1>1, <1>3, UnmovedIs, Still
<1>6. pc \notin Starting \cup {"idle"}
  BY <1>1 DEF Starting
<1>7. cur' \in Curs /\ ghost' \in Ghosts /\ ghost'.commanded = ghost.commanded /\ (NoLateEdits => ~ ghost'.moved)
  BY <1>3, Still
<1>8. NoKills /\ ~ ghost.commanded => KeepsUnbidden(t.val.status, c)
  <2>1. NoKills => NoneActive(runs')
    BY <1>2, <1>3, LaterKeeps
  <2>2. pc' \notin {"open_pr", "opened"}
    BY <1>3 DEF Resting
  <2> QED
    BY <1>2, <1>3, <2>1, <2>2 DEF KeepsUnbidden
<1> QED
  BY <1>3, <1>4, <1>5, <1>6, <1>7, <1>8, RestingStep

LEMMA SaveCheckPointerStep == ASSUME IInv, SaveCheckPointer PROVE IInv'
<1>1. Shape /\ pc = "checking" /\ pc' = "sweep" /\ SaveState(mem)
      /\ UNCHANGED <<file, runs, t, cur, op, left, ghost>>
  BY DEF IInv, SaveCheckPointer
<1>2. /\ Later(runs, runs') /\ t.val.status \in Statuses /\ BudgetKept /\ cur' \in Curs
      /\ ghost' \in Ghosts /\ ghost'.commanded = ghost.commanded /\ (NoLateEdits => ~ ghost'.moved)
      /\ (NoKills => AllEnded(runs')) /\ (NoKills /\ ~ ghost.commanded => NoneSwept(runs'))
  BY <1>1, Still
<1>3. EntryMoved(mem.val.check) /\ TaskMoved(t.val.status)
  BY <1>1, <1>2, EntrySaved, UnmovedIs
<1>4. pc \notin Starting \cup {"idle"} /\ pc' \in Resting /\ pc' \notin {"open_pr", "opened"}
  BY <1>1 DEF Starting, Resting
<1>5. NoKills /\ ~ ghost.commanded => KeepsUnbidden(t.val.status, mem.val.check)
  BY <1>2, <1>4 DEF KeepsUnbidden
<1> QED
  BY <1>1, <1>2, <1>3, <1>4, <1>5, RestingStep

LEMMA ForgetIs ==
           /\ "check" \in DOMAIN ForgetPointer /\ ForgetPointer["check"] = NoCheckRun
           /\ "rebase" \notin DOMAIN ForgetPointer
  BY DEF ForgetPointer

\* The pointer is let go, with or without a save.
LEMMA Forgotten ==
    ASSUME Shape, Later(runs, runs'),
           \/ SaveState(Put(mem, ForgetPointer))
           \/ mem' = Put(mem, ForgetPointer) /\ disk' = disk
    PROVE  EntryMoved(NoCheckRun)
<1>1. PointerOK(runs', NoCheckRun)
  BY NoPointerOK
<1> QED
  BY <1>1, ForgetIs, EntrySavedPut, EntryPut

LEMMA ForgetSteps == ASSUME IInv, ForgetCheck \/ RebaseFails PROVE IInv'
<1>1. Shape /\ pc \in {"reap", "verdict"} /\ pc' = "sweep" /\ mem' = Put(mem, ForgetPointer) /\ disk' = disk
      /\ UNCHANGED <<file, runs, t, cur, op, left, ghost>>
  BY DEF IInv, ForgetCheck, RebaseFails, ReapsCheck, Verdict
<1>2. /\ Later(runs, runs') /\ t.val.status \in Statuses /\ BudgetKept /\ cur' \in Curs
      /\ ghost' \in Ghosts /\ ghost'.commanded = ghost.commanded /\ (NoLateEdits => ~ ghost'.moved)
      /\ (NoKills => AllEnded(runs')) /\ (NoKills /\ ~ ghost.commanded => NoneSwept(runs'))
  BY <1>1, Still
<1>3. EntryMoved(NoCheckRun) /\ TaskMoved(t.val.status)
  BY <1>1, <1>2, Forgotten, UnmovedIs
<1>4. pc \notin Starting \cup {"idle"} /\ pc' \in Resting /\ pc' \notin {"open_pr", "opened"}
  BY <1>1 DEF Starting, Resting
<1>5. NoKills /\ ~ ghost.commanded => KeepsUnbidden(t.val.status, NoCheckRun)
  BY <1>2, <1>4, NoPointerOK DEF KeepsUnbidden
<1> QED
  BY <1>1, <1>2, <1>3, <1>4, <1>5, RestingStep

\* The record of a check is not a worker's.
LEMMA CheckRecord ==
    ASSUME IInv, mem.val.check.run # 0
    PROVE  LET k == mem.val.check.run
           IN  k \in DOMAIN runs /\ runs[k] \in Records /\ runs[k].mode = "check"
  BY RunsDomain DEF IInv, Shape, EntryOK, PointerOK

LEMMA RetiredIs ==
    ASSUME NEW r \in Records, r.mode = "check"
    PROVE  Retired(r) \in Records /\ Grows(r, Retired(r)) /\ Ended(Retired(r))
<1>1. PICK st, proc, e : /\ st = (IF Finished(r) THEN "done" ELSE "cancelled")
                         /\ proc = (IF Finished(r) THEN r.proc ELSE "gone") /\ e = r.events + 1
  OBVIOUS
<1>2. st \in {"done", "cancelled"} /\ proc \in {"none", "live", "dying", "exited", "gone"} /\ e \in Nat
  BY <1>1 DEF Records
<1>3. Retired(r) = [r EXCEPT !.st = st, !.proc = proc, !.fin = TRUE, !.events = e]
  <2>1. "proc" \in DOMAIN r /\ "events" \in DOMAIN r
    BY DEF Records
  <2>2. [r EXCEPT !.st = st].proc = r.proc
    BY <2>1
  <2>3. [r EXCEPT !.st = st, !.proc = proc, !.fin = TRUE].events = r.events
    BY <2>1
  <2> QED
    BY <1>1, <2>2, <2>3 DEF Retired
<1>4. Retired(r) \in Records
  BY <1>2, <1>3 DEF Records, Closings
<1> QED
  BY <1>2, <1>3, <1>4 DEF Records, Grows, Closings, Ended, WorkerModes

LEMMA RetireCheckStep == ASSUME IInv, RetireCheck PROVE IInv'
<1> DEFINE k == mem.val.check.run
<1>1. Shape /\ pc = "reap" /\ k # 0 /\ t.val.status = "cancelled" /\ pc' = "sweep"
      /\ SaveState(Put(mem, ForgetPointer)) /\ UNCHANGED <<file, t, cur, op, left, ghost>>
  BY DEF IInv, RetireCheck, St
<1>2. k \in DOMAIN runs /\ runs[k] \in Records /\ runs[k].mode = "check"
  BY <1>1, CheckRecord
<1>3. /\ Later(runs, runs') /\ (NoKills => AllEnded(runs'))
      /\ (NoKills /\ ~ ghost.commanded => NoneSwept(runs'))
  <2>1. CASE runs[k].st # "running"
    <3>1. runs' = runs
      BY <2>1 DEF RetireCheck, St, Check
    <3> QED
      BY <3>1, Still
  <2>2. CASE runs[k].st = "running"
    <3>1. runs' = [runs EXCEPT ![k] = Retired(runs[k])]
      BY <2>2 DEF RetireCheck, St, Check
    <3>2. Retired(runs[k]) \in Records /\ Grows(runs[k], Retired(runs[k])) /\ Ended(Retired(runs[k]))
      BY <1>2, RetiredIs
    <3>3. runs[k].mode \notin WorkerModes
      BY <1>2 DEF WorkerModes
    <3> HIDE DEF k
    <3> QED
      BY <1>2, <3>1, <3>2, <3>3, OneRunChanged
  <2> QED
    BY <2>1, <2>2
<1> HIDE DEF k
<1>4. EntryMoved(NoCheckRun) /\ TaskMoved(t.val.status)
  BY <1>1, <1>3, Forgotten, UnmovedIs
<1>5. BudgetKept /\ pc \notin Starting \cup {"idle"} /\ pc' \in Resting
      /\ t.val.status \in Statuses \ {"waiting_human"}
  BY <1>1, Still DEF Starting, Resting
<1>6. mem.val.check.run # 0
  BY <1>1 DEF k
<1> QED
  BY <1>1, <1>3, <1>4, <1>5, <1>6, CheckLet

LEMMA CloseCheckStep == ASSUME IInv, CloseCheck PROVE IInv'
<1> DEFINE k == mem.val.check.run
           rec == [runs[k] EXCEPT !.st = "done", !.fin = TRUE]
<1>1. Shape /\ pc = "reap" /\ k # 0 /\ pc' = "closing"
      /\ runs' = [runs EXCEPT ![k].st = "done", ![k].fin = TRUE]
      /\ UNCHANGED <<file, disk, t, mem, cur, op, left, ghost>>
  BY DEF IInv, CloseCheck, ReapsCheck, St
<1>2. k \in DOMAIN runs /\ runs[k] \in Records /\ runs[k].mode = "check"
  BY <1>1, CheckRecord
<1> HIDE DEF k
<1>3. runs' = [runs EXCEPT ![k] = rec]
  BY <1>1, <1>2
<1>4. rec \in Records /\ Grows(runs[k], rec) /\ Ended(rec) /\ runs[k].mode \notin WorkerModes
  BY <1>2 DEF Records, Grows, Closings, Ended, WorkerModes
<1> HIDE DEF rec
<1>5. /\ Later(runs, runs') /\ (NoKills => AllEnded(runs'))
      /\ (NoKills /\ ~ ghost.commanded => NoneSwept(runs'))
  BY <1>2, <1>3, <1>4, OneRunChanged
<1>6. Place'
  BY <1>1 DEF Place, Handling, Starting, k
<1>7. pc \notin Starting \cup {"idle"} /\ pc' \notin Starting \cup {"idle", "answered", "open_pr", "opened"}
      /\ pc' \notin Handling /\ pc' \notin {"collected", "outcome"}
  BY <1>1 DEF Starting, Handling
<1>8. BudgetKept /\ cur' \in Curs
  BY <1>1, Still
<1> QED
  BY <1>1, <1>5, <1>6, <1>7, <1>8, RecordStep

LEMMA MarkCollectedStep == ASSUME IInv, MarkCollected PROVE IInv'
<1> DEFINE k == mem.val.check.run
           c == [mem.val.check EXCEPT !.collected = TRUE]
           rec == [runs[k] EXCEPT !.events = @ + 1]
<1>1. Shape /\ pc = "closing" /\ pc' = "verdict" /\ SaveState(Put(mem, [check |-> c]))
      /\ runs' = [runs EXCEPT ![k].events = @ + 1] /\ UNCHANGED <<file, t, cur, op, left, ghost>>
  BY DEF IInv, MarkCollected, St
<1>2. mem.val.check.run # 0
  BY <1>1 DEF IInv, Place
<1>3. k \in DOMAIN runs /\ runs[k] \in Records /\ runs[k].mode = "check"
  BY <1>2, CheckRecord
<1>4. PointerOK(runs, c) /\ c.run = k
  BY <1>1 DEF Shape, EntryOK, PointerOK, Pointers
<1> HIDE DEF k, c
<1>5. runs' = [runs EXCEPT ![k] = rec]
  BY <1>1, <1>3
<1>6. rec \in Records /\ Grows(runs[k], rec) /\ Ended(rec) /\ runs[k].mode \notin WorkerModes
  BY <1>3 DEF Records, Grows, Ended, WorkerModes
<1> HIDE DEF rec
<1>7. /\ Later(runs, runs') /\ (NoKills => AllEnded(runs'))
      /\ (NoKills /\ ~ ghost.commanded => NoneSwept(runs'))
  BY <1>3, <1>5, <1>6, OneRunChanged
<1>8. PointerOK(runs', c)
  BY <1>4, <1>7, LaterKeeps DEF PointerOK, Later, Grows
<1>9. "check" \in DOMAIN [check |-> c] /\ [check |-> c]["check"] = c /\ "rebase" \notin DOMAIN [check |-> c]
  OBVIOUS
<1>10. EntryMoved(c)
  BY <1>1, <1>7, <1>8, <1>9, EntrySavedPut
<1>11. TaskMoved(t.val.status) /\ t.val.status \in Statuses
  BY <1>1, UnmovedIs, Still
<1>12. mem'.val.check.run # 0
  BY <1>2, <1>4, <1>10 DEF EntryMoved, k
<1>13. Place'
  BY <1>1, <1>12 DEF Place, Handling, Starting
<1>14. pc \notin Starting \cup {"idle"} /\ pc' \notin Starting \cup {"idle", "answered", "open_pr", "opened"}
      /\ pc' \notin Handling /\ pc' \notin {"collected", "outcome"}
  BY <1>1 DEF Starting, Handling
<1>15. BudgetKept /\ cur' \in Curs
       /\ ghost' \in Ghosts /\ ghost'.commanded = ghost.commanded /\ (NoLateEdits => ~ ghost'.moved)
  BY <1>1, Still
<1>16. NoKills => Keeps(t.val.status, c)
  BY <1>7, <1>14 DEF Keeps
<1>17. NoKills /\ ~ ghost.commanded => KeepsUnbidden(t.val.status, c)
  <2>1. NoKills /\ ~ ghost.commanded => NoneActive(runs') /\ t.val.status \notin {"ready", "waiting_human", "failed"}
    BY <1>1, <1>2, <1>7, CheckedIdle
  <2> QED
    BY <1>7, <1>14, <2>1 DEF KeepsUnbidden
<1> QED
  BY <1>1, <1>7, <1>10, <1>11, <1>13, <1>14, <1>15, <1>16, <1>17, PassStep

LEMMA ParkCheckStep == ASSUME IInv, ParkCheck PROVE IInv'
<1>1. Shape /\ pc = "verdict" /\ pc' = "parking" /\ SaveState(Put(mem, [human |-> TRUE]))
      /\ UNCHANGED <<file, runs, t, cur, op, left, ghost>>
  BY DEF IInv, ParkCheck, Verdict
<1>2. mem.val.check.run # 0
  BY <1>1 DEF IInv, Place
<1>3. /\ Later(runs, runs') /\ t.val.status \in Statuses /\ BudgetKept /\ cur' \in Curs
      /\ ghost' \in Ghosts /\ ghost'.commanded = ghost.commanded /\ (NoLateEdits => ~ ghost'.moved)
      /\ (NoKills => AllEnded(runs')) /\ (NoKills /\ ~ ghost.commanded => NoneSwept(runs'))
  BY <1>1, Still
<1>4. "check" \notin DOMAIN [human |-> TRUE] /\ "rebase" \notin DOMAIN [human |-> TRUE]
  OBVIOUS
<1>5. EntryMoved(mem.val.check) /\ TaskMoved(t.val.status)
  BY <1>1, <1>3, <1>4, EntrySavedPut, UnmovedIs
<1>6. mem'.val.check.run # 0
  BY <1>2, <1>5 DEF EntryMoved
<1>7. Place'
  BY <1>1, <1>6 DEF Place, Handling, Starting
<1>8. pc \notin Starting \cup {"idle"} /\ pc' \notin Starting \cup {"idle", "answered", "open_pr", "opened"}
      /\ pc' \notin Handling /\ pc' \notin {"collected", "outcome"}
  BY <1>1 DEF Starting, Handling
<1>9. NoKills => Keeps(t.val.status, mem.val.check)
  BY <1>3, <1>8 DEF Keeps
<1>10. NoKills /\ ~ ghost.commanded => KeepsUnbidden(t.val.status, mem.val.check)
  BY <1>3, <1>8 DEF KeepsUnbidden
<1> QED
  BY <1>1, <1>3, <1>5, <1>7, <1>8, <1>9, <1>10, PassStep

\* A verdict that ends the check and sends the task on.
LEMMA VerdictStep ==
    ASSUME IInv, pc \in {"verdict", "parking"}, pc' = "sweep", NEW s \in {"in_review", "changes_requested"},
           Transition(s), EntryMoved(NoCheckRun), UNCHANGED <<runs, cur, op, left, ghost>>
    PROVE  IInv'
<1>1. Shape /\ s \in Statuses \ {"waiting_human"} /\ s \notin {"ready", "running"}
  BY DEF IInv, Statuses
<1>2. mem.val.check.run # 0
  BY DEF IInv, Place
<1>3. /\ Later(runs, runs') /\ BudgetKept
      /\ (NoKills => AllEnded(runs')) /\ (NoKills /\ ~ ghost.commanded => NoneSwept(runs'))
  BY Still
<1>4. TaskMoved(s)
  BY <1>1, TransitionIs
<1>5. pc \notin Starting \cup {"idle"} /\ pc' \in Resting
  BY DEF Starting, Resting
<1> QED
  BY <1>1, <1>2, <1>3, <1>4, <1>5, CheckLet

LEMMA ParkTransitionStep == ASSUME IInv, ParkTransition PROVE IInv'
<1>1. Shape /\ pc = "parking" /\ pc' = "sweep" /\ SaveState(Put(mem, ForgetPointer))
      /\ UNCHANGED <<runs, cur, op, left, ghost>>
  BY DEF IInv, ParkTransition
<1>2. PICK s \in {"in_review", "changes_requested"} : Transition(s)
  BY DEF ParkTransition
<1>3. EntryMoved(NoCheckRun)
  BY <1>1, Forgotten, Still
<1> QED
  BY <1>1, <1>2, <1>3, VerdictStep

LEMMA FaultSteps == ASSUME IInv, BaseBroken \/ BranchAtFault \/ RebaseConflicts PROVE IInv'
<1>1. Shape /\ pc = "verdict" /\ pc' = "sweep" /\ Transition("changes_requested")
      /\ UNCHANGED <<disk, runs, cur, op, left, ghost>>
  BY DEF IInv, BaseBroken, BranchAtFault, RebaseConflicts, CheckRevise, Verdict
<1>2. PICK upd : /\ mem' = Put(mem, upd) /\ "check" \in DOMAIN upd /\ upd["check"] = NoCheckRun
                 /\ "rebase" \in DOMAIN upd => upd["rebase"] \in BOOLEAN
  <2>1. CASE BaseBroken
    <3> DEFINE u == [human |-> TRUE, check |-> NoCheckRun]
    <3>1. "check" \in DOMAIN u /\ u["check"] = NoCheckRun /\ "rebase" \notin DOMAIN u
      OBVIOUS
    <3>2. mem' = Put(mem, u)
      BY <2>1 DEF BaseBroken
    <3> HIDE DEF u
    <3> QED
      BY <3>1, <3>2
  <2>2. ASSUME NEW b \in BOOLEAN, CheckRevise(b)
        PROVE  \E upd : /\ mem' = Put(mem, upd) /\ "check" \in DOMAIN upd /\ upd["check"] = NoCheckRun
                        /\ "rebase" \in DOMAIN upd => upd["rebase"] \in BOOLEAN
    <3> DEFINE u == [feedback |-> TRUE, rebase |-> b \/ St.rebase,
                     human |-> St.human \/ (~ b /\ St.revisions >= MaxRevisions),
                     check |-> NoCheckRun]
    <3>1. "check" \in DOMAIN u /\ u["check"] = NoCheckRun /\ u["rebase"] \in BOOLEAN
      OBVIOUS
    <3>2. mem' = Put(mem, u)
      BY <2>2 DEF CheckRevise
    <3> HIDE DEF u
    <3> QED
      BY <3>1, <3>2
  <2> QED
    BY <2>1, <2>2 DEF BranchAtFault, RebaseConflicts
<1>3. Later(runs, runs') /\ PointerOK(runs', NoCheckRun)
  BY <1>1, Still, NoPointerOK
<1>4. EntryMoved(NoCheckRun)
  BY <1>1, <1>2, <1>3, EntryPut
<1> QED
  BY <1>1, <1>4, VerdictStep

-----------------------------------------------------------------------------
(* The pull request.                                                       *)

\* Without late edits a result is judged by what its worker was given.
LEMMA JudgedRight ==
    ASSUME IInv, pc = "open_pr", Judge
    PROVE  ghost' \in Ghosts /\ ghost'.commanded = ghost.commanded /\ (NoLateEdits => ~ ghost'.moved)
<1>1. Shape /\ IsWorker(runs, cur.run)
  BY DEF IInv, Place
<1>2. PICK m \in BOOLEAN : m = (ghost.moved \/ Moved)
  BY <1>1 DEF Shape
<1>3. ghost' = [ghost EXCEPT !.moved = m] /\ ghost \in Ghosts
  BY <1>1, <1>2 DEF Shape, Ghosts, Judge
<1>4. ASSUME NoLateEdits PROVE ~ m
  <2>1. Judged
    BY <1>4 DEF IInv
  <2>2. Criteria(runs[cur.run]) = runs[cur.run].brief
    BY <1>1, <2>1 DEF Judged, Criteria, IsWorker
  <2> QED
    BY <1>2, <2>1, <2>2 DEF Judged, Moved
<1> QED
  BY <1>3, <1>4 DEF Ghosts

LEMMA OpenedIs ==
    ASSUME IInv, UNCHANGED runs
    PROVE  /\ Later(runs, runs') /\ PointerOK(runs', NoCheckRun) /\ NoCheckRun.run = 0
           /\ (left' = left => BudgetKept) /\ (cur' = cur => cur' \in Curs)
           /\ (NoKills => AllEnded(runs')) /\ (NoKills /\ ~ ghost.commanded => NoneSwept(runs'))
           /\ (NoKills /\ ~ ghost.commanded /\ pc \in {"open_pr", "opened"} => NoneActive(runs'))
<1>1. NoKills /\ ~ ghost.commanded /\ pc \in {"open_pr", "opened"} => NoneActive(runs)
  BY DEF IInv, Unbidden
<1> QED
  BY <1>1, Still, NoPointerOK

LEMMA PrEndSteps == ASSUME IInv, EvidenceGaps \/ OpenPrFails \/ OpenPrTransition PROVE IInv'
<1>1. /\ Shape /\ pc \in {"open_pr", "opened"} /\ pc' = "sweep"
      /\ UNCHANGED <<disk, runs, cur, op, left>>
  BY DEF IInv, EvidenceGaps, OpenPrFails, OpenPrTransition, Evident
<1>2. /\ Later(runs, runs') /\ PointerOK(runs', NoCheckRun) /\ NoCheckRun.run = 0 /\ BudgetKept /\ cur' \in Curs
      /\ (NoKills => AllEnded(runs')) /\ (NoKills /\ ~ ghost.commanded => NoneSwept(runs'))
      /\ (NoKills /\ ~ ghost.commanded => NoneActive(runs'))
  BY <1>1, OpenedIs
<1>3. ghost' \in Ghosts /\ ghost'.commanded = ghost.commanded /\ (NoLateEdits => ~ ghost'.moved)
  <2>1. CASE EvidenceGaps \/ OpenPrFails
    BY <2>1, JudgedRight DEF EvidenceGaps, OpenPrFails, Evident
  <2>2. CASE OpenPrTransition
    BY <2>2, Still DEF OpenPrTransition
  <2> QED
    BY <2>1, <2>2
<1>4. EntryMoved(NoCheckRun)
  <2>1. CASE EvidenceGaps
    <3> DEFINE u == [feedback |-> TRUE, human |-> St.human \/ St.revisions >= MaxRevisions,
                     check |-> NoCheckRun]
    <3>1. "check" \in DOMAIN u /\ u["check"] = NoCheckRun /\ "rebase" \notin DOMAIN u
      OBVIOUS
    <3>2. mem' = Put(mem, u)
      BY <2>1 DEF EvidenceGaps
    <3> HIDE DEF u
    <3> QED
      BY <1>1, <1>2, <3>1, <3>2, EntryPut
  <2>2. CASE OpenPrFails \/ OpenPrTransition
    BY <1>1, <1>2, <2>2, Forgotten DEF OpenPrFails, OpenPrTransition
  <2> QED
    BY <2>1, <2>2
<1>5. PICK s \in {"in_review", "changes_requested"} : TaskMoved(s)
  <2>1. CASE EvidenceGaps \/ OpenPrFails
    <3>1. PICK s \in {"in_review", "changes_requested"} : Transition(s)
      BY <2>1 DEF EvidenceGaps, OpenPrFails
    <3> QED
      BY <1>1, <3>1, TransitionIs DEF Statuses
  <2>2. CASE OpenPrTransition
    <3> DEFINE new == [t.val EXCEPT !.status = "in_review", !.pr = TRUE]
    <3>1. new \in Tasks /\ new.crit = t.val.crit /\ new.status = "in_review"
      BY <1>1 DEF Shape, Tasks, Statuses
    <3>2. SaveTask(new)
      BY <2>2 DEF OpenPrTransition
    <3> HIDE DEF new
    <3>3. TaskMoved("in_review")
      BY <1>1, <3>1, <3>2, SaveTaskIs
    <3> QED
      BY <3>3
  <2> QED
    BY <2>1, <2>2
<1>6. s \in Statuses /\ s # "running" /\ s # "waiting_human"
  BY DEF Statuses
<1>7. pc \notin Starting \cup {"idle"} /\ pc' \in Resting /\ pc' \notin {"open_pr", "opened"}
  BY <1>1 DEF Starting, Resting
<1>8. NoKills /\ ~ ghost.commanded => KeepsUnbidden(s, NoCheckRun)
  BY <1>2, <1>7 DEF KeepsUnbidden
<1> QED
  BY <1>1, <1>2, <1>3, <1>4, <1>5, <1>6, <1>7, <1>8, RestingStep

LEMMA OpenPrStep == ASSUME IInv, OpenPr PROVE IInv'
<1>1. /\ Shape /\ pc = "open_pr" /\ pc' = "opened" /\ Judge
      /\ (mem' = mem \/ mem' = Put(mem, [revisions |-> 0]))
      /\ UNCHANGED <<file, disk, runs, t, cur, op, left>>
  BY DEF IInv, OpenPr, Evident
<1>2. /\ Later(runs, runs') /\ BudgetKept /\ cur' \in Curs
      /\ (NoKills => AllEnded(runs')) /\ (NoKills /\ ~ ghost.commanded => NoneSwept(runs'))
      /\ (NoKills /\ ~ ghost.commanded => NoneActive(runs'))
  BY <1>1, OpenedIs
<1>3. ghost' \in Ghosts /\ ghost'.commanded = ghost.commanded /\ (NoLateEdits => ~ ghost'.moved)
  BY <1>1, JudgedRight
<1>4. "check" \notin DOMAIN [revisions |-> 0] /\ "rebase" \notin DOMAIN [revisions |-> 0]
  OBVIOUS
<1>5. EntryMoved(mem.val.check)
  BY <1>1, <1>2, <1>4, EntryPut, EntrySame
<1>6. TaskMoved(t.val.status) /\ t.val.status \in Statuses
  BY <1>1, UnmovedIs, Still
<1>7. Place'
  <2>1. IsWorker(runs', cur'.run)
    BY <1>1 DEF IInv, Place
  <2> QED
    BY <1>1, <2>1 DEF Place, Handling, Starting
<1>8. pc \notin Starting \cup {"idle"} /\ pc' \notin Starting \cup {"idle", "answered"}
      /\ pc' \notin Handling /\ pc' \notin {"collected", "outcome"}
  BY <1>1 DEF Starting, Handling
<1>9. NoKills => Keeps(t.val.status, mem.val.check)
  BY <1>2, <1>8 DEF Keeps
<1>10. NoKills /\ ~ ghost.commanded => KeepsUnbidden(t.val.status, mem.val.check)
  <2>1. NoKills /\ ~ ghost.commanded => t.val.status # "failed"
    BY <1>1 DEF IInv, Unbidden
  <2> QED
    BY <1>2, <2>1 DEF KeepsUnbidden
<1> QED
  BY <1>1, <1>2, <1>3, <1>5, <1>6, <1>7, <1>8, <1>9, <1>10, PassStep

-----------------------------------------------------------------------------
(* The sweep of dead runs.                                                 *)

\* A record closed with its time of completion, and reported.
ClosedAs(r, status) == [r EXCEPT !.st = status, !.fin = TRUE, !.events = @ + 1]

LEMMA ClosedAsIs ==
    ASSUME NEW r \in Records, NEW status \in Closings
    PROVE  /\ ClosedAs(r, status) \in Records /\ Grows(r, ClosedAs(r, status))
           /\ ClosedAs(r, status).proc = r.proc /\ ClosedAs(r, status).st = status
           /\ ClosedAs(r, status).fin /\ ClosedAs(r, status).mode = r.mode
           /\ ClosedAs(r, status).pid = r.pid
<1>1. PICK e \in Nat : e = r.events + 1
  BY DEF Records
<1>2. ClosedAs(r, status) = [r EXCEPT !.st = status, !.fin = TRUE, !.events = e]
  <2>1. "events" \in DOMAIN r
    BY DEF Records
  <2>2. [r EXCEPT !.st = status, !.fin = TRUE].events = r.events
    BY <2>1
  <2> QED
    BY <1>1, <2>2 DEF ClosedAs
<1>3. ClosedAs(r, status) \in Records
  BY <1>2 DEF Records
<1>4. /\ ClosedAs(r, status).mode = r.mode /\ ClosedAs(r, status).brief = r.brief
      /\ ClosedAs(r, status).crit = r.crit /\ ClosedAs(r, status).prep = r.prep
      /\ ClosedAs(r, status).fin = TRUE /\ ClosedAs(r, status).st = status
      /\ ClosedAs(r, status).proc = r.proc /\ ClosedAs(r, status).pid = r.pid
  BY <1>2 DEF Records
<1> QED
  BY <1>3, <1>4 DEF Grows

LEMMA ActiveIs ==
    ASSUME Shape, NEW k \in ActiveRuns
    PROVE  /\ k \in DOMAIN runs /\ runs[k] \in Records /\ k \in Nat /\ runs[k].st \in Active
           /\ runs[k].mode \in WorkerModes => IsWorker(runs, k) /\ IsActive(runs, k)
<1>1. k \in DOMAIN runs /\ runs[k].st \in Active
  BY DEF ActiveRuns
<1>2. runs[k] \in Records /\ k \in Nat
  BY <1>1, RunsDomain DEF Shape
<1> QED
  BY <1>1, <1>2 DEF IsWorker, IsActive

LEMMA SweepDeadStep == ASSUME IInv, NEW k, SweepDead(k) PROVE IInv'
<1> DEFINE rec == ClosedAs(runs[k], "failed")
           c == mem.val.check
<1>1. /\ Shape /\ pc = "sweep" /\ k \in ActiveRuns /\ (NeverStarted(k) \/ Vanished(k))
      /\ runs' = [runs EXCEPT ![k].st = "failed", ![k].fin = TRUE, ![k].events = @ + 1]
      /\ cur' = [run |-> k, st |-> "failed"] /\ UNCHANGED <<disk, mem, pc, op, left, ghost>>
  BY DEF IInv, SweepDead
<1>2. /\ k \in DOMAIN runs /\ runs[k] \in Records /\ k \in Nat /\ runs[k].st \in Active
      /\ runs[k].mode \in WorkerModes => IsWorker(runs, k) /\ IsActive(runs, k)
  BY <1>1, ActiveIs
<1>3. runs' = [runs EXCEPT ![k] = rec]
  BY <1>1, <1>2 DEF ClosedAs
<1>4. rec \in Records /\ Grows(runs[k], rec) /\ rec.proc = runs[k].proc /\ rec.st = "failed"
  BY <1>2, ClosedAsIs DEF Closings
<1> HIDE DEF rec
<1>5. NoKills => Ended(rec)
  <2>1. NoKills => runs[k].prep
    BY <1>2 DEF IInv, Writer
  <2>2. NoKills => runs[k].proc = "gone"
    BY <1>1, <2>1 DEF NeverStarted, Vanished
  <2> QED
    BY <1>4, <2>2 DEF Ended, Alive
<1>6. /\ Later(runs, runs') /\ runs'[k] = rec /\ (NoKills => AllEnded(runs'))
      /\ (NoKills /\ ~ ghost.commanded => NoneSwept(runs'))
  BY <1>2, <1>3, <1>4, <1>5, OneRunChanged
<1>7. cur' \in Curs
  BY <1>1, <1>2 DEF Curs, Closings
<1>8. BudgetKept /\ ghost' \in Ghosts /\ ghost'.commanded = ghost.commanded /\ (NoLateEdits => ~ ghost'.moved)
      /\ t.val.status \in Statuses
  BY <1>1, Still
<1>9. EntryMoved(c)
  BY <1>1, <1>6, EntrySame
<1>10. pc # "idle" /\ pc \notin Starting \cup {"idle"} /\ pc' \in Resting /\ pc' \notin {"open_pr", "opened"}
  BY <1>1 DEF Starting, Resting
<1>11. CASE t.val.status = "running" /\ k \in Workers /\ LatestWorkerRun = k
  <2>1. PICK s \in {"ready", "failed"} : Transition(s)
    BY <1>11 DEF SweepDead, RetryStatus
  <2>2. s \in Statuses /\ s # "running" /\ s # "waiting_human"
    BY DEF Statuses
  <2>3. TaskMoved(s)
    BY <1>1, <2>1, <2>2, TransitionIs
  <2>4. IsActive(runs, k)
    BY <1>2, <1>11 DEF Workers
  <2>5. NoKills => NoneActive(runs')
    <3>1. NoKills => \A j \in DOMAIN runs : IsActive(runs, j) => j = k
      BY <1>2, <2>4 DEF IInv, Writer
    <3>2. \A j : IsActive(runs', j) => IsActive(runs, j)
      BY <1>6, LaterKeeps
    <3>3. ~ IsActive(runs', k)
      BY <1>4, <1>6 DEF IsActive, Active
    <3> QED
      BY <3>1, <3>2, <3>3 DEF NoneActive, IsActive, IsWorker
  <2>6. NoKills /\ ~ ghost.commanded => c.run = 0
    BY <1>2, <1>10, <2>4 DEF IInv, Unbidden, PointerIdle, NoneActive
  <2>7. NoKills /\ ~ ghost.commanded => KeepsUnbidden(s, c)
    BY <1>6, <1>10, <2>5, <2>6 DEF KeepsUnbidden
  <2> HIDE DEF c
  <2> QED
    BY <1>1, <1>6, <1>7, <1>8, <1>9, <1>10, <2>2, <2>3, <2>7, RestingStep
<1>12. CASE ~ (t.val.status = "running" /\ k \in Workers /\ LatestWorkerRun = k)
  <2>1. UNCHANGED <<file, t>>
    BY <1>12 DEF SweepDead
  <2>2. TaskMoved(t.val.status)
    BY <1>1, <2>1, UnmovedIs
  <2>3. NoKills /\ ~ ghost.commanded => KeepsUnbidden(t.val.status, c)
    BY <1>6, <1>10 DEF KeepsUnbidden
  <2> HIDE DEF c
  <2> QED
    BY <1>1, <1>6, <1>7, <1>8, <1>9, <1>10, <2>2, <2>3, RestingStep
<1> QED
  BY <1>11, <1>12

\* Unless a command was given, a worker run the sweep meets is the one followed.
LEMMA SweptWorker ==
    ASSUME IInv, NoKills, ~ ghost.commanded, NEW k \in ActiveRuns, pc = "sweep", runs[k].mode \in WorkerModes
    PROVE  t.val.status = "running" /\ LatestWorkerRun = k /\ IsActive(runs, k) /\ k \in DOMAIN runs
<1>1. Shape /\ Writer /\ Unbidden
  BY DEF IInv
<1>2. k \in DOMAIN runs /\ IsActive(runs, k) /\ IsWorker(runs, k)
  BY <1>1, ActiveIs
<1>3. t.val.status = "running"
  BY <1>1, <1>2 DEF Unbidden, NoneActive, Starting
<1>4. runs[k].st = "running"
  BY <1>1, <1>2 DEF Writer, IsActive, Active
<1>5. /\ IsWorker(runs, LatestWorkerRun)
      /\ \/ runs[LatestWorkerRun].st = "running"
         \/ \A j \in DOMAIN runs : IsWorker(runs, j) => runs[j].st # "running"
  BY <1>1, <1>2, LatestIs DEF Shape
<1>6. LatestWorkerRun \in DOMAIN runs /\ IsActive(runs, LatestWorkerRun)
  BY <1>2, <1>4, <1>5 DEF IsActive, IsWorker, Active
<1>7. LatestWorkerRun = k
  BY <1>1, <1>2, <1>6 DEF Writer
<1> QED
  BY <1>2, <1>3, <1>7

LEMMA SweptIsCheck ==
    ASSUME IInv, NoKills, ~ ghost.commanded, NEW k \in ActiveRuns, pc = "sweep", Dangling(k)
    PROVE  runs[k].mode \notin WorkerModes
  BY SweptWorker DEF Dangling, Owned

LEMMA SweepDanglingStep == ASSUME IInv, NEW k, SweepDangling(k) PROVE IInv'
<1> DEFINE rec == ClosedAs(runs[k], "closed")
<1>1. /\ Shape /\ pc = "sweep" /\ k \in ActiveRuns /\ Dangling(k)
      /\ runs' = [runs EXCEPT ![k].st = "closed", ![k].fin = TRUE, ![k].events = @ + 1]
      /\ UNCHANGED <<file, disk, t, mem, pc, cur, op, left, ghost>>
  BY DEF IInv, SweepDangling
<1>2. k \in DOMAIN runs /\ runs[k] \in Records
  BY <1>1, ActiveIs
<1>3. runs' = [runs EXCEPT ![k] = rec]
  BY <1>1, <1>2 DEF ClosedAs
<1>4. rec \in Records /\ Grows(runs[k], rec) /\ rec.proc = runs[k].proc
  BY <1>2, ClosedAsIs DEF Closings
<1>5. runs[k].proc \notin Alive
  BY <1>1 DEF Dangling, Finished, Alive
<1> HIDE DEF rec
<1>6. Ended(rec)
  BY <1>4, <1>5 DEF Ended
<1>7. NoKills /\ ~ ghost.commanded => runs[k].mode \notin WorkerModes
  BY <1>1, SweptIsCheck
<1>8. /\ Later(runs, runs') /\ (NoKills => AllEnded(runs'))
      /\ (NoKills /\ ~ ghost.commanded => NoneSwept(runs'))
  BY <1>2, <1>3, <1>4, <1>6, <1>7, OneRunChanged
<1>9. BudgetKept /\ cur' \in Curs
  BY <1>1, Still
<1>10. Place' /\ pc' \notin Handling \cup Starting \cup {"idle", "answered", "open_pr", "opened"}
  BY <1>1, RestingPlace DEF Resting
<1>11. pc \notin Starting \cup {"idle"} /\ pc' \notin {"collected", "outcome"}
       /\ pc' \notin Starting \cup {"idle", "answered", "open_pr", "opened"}
  BY <1>1 DEF Starting
<1> QED
  BY <1>1, <1>8, <1>9, <1>10, <1>11, RecordStep

-----------------------------------------------------------------------------
(* The pass reads the task's files.                                        *)

LEMMA ReloadSteps == ASSUME IInv, TickStart \/ SweepDone PROVE IInv'
<1>1. /\ Shape /\ Followed /\ (NoKills => Writer) /\ (NoLateEdits => Judged)
      /\ (NoKills /\ ~ ghost.commanded => Unbidden)
  BY DEF IInv
<1>2. /\ pc \in {"idle", "sweep"} /\ pc' = (IF pc = "idle" THEN "reap" ELSE "dispatch")
      /\ mem' = (IF pc = "idle" THEN Clean(disk) ELSE mem)
      /\ t' = [val |-> file, base |-> file] /\ cur' = Nothing
      /\ UNCHANGED <<file, disk, runs, op, left, ghost>>
  BY DEF TickStart, SweepDone
<1>3. t'.val = file /\ cur' \in Curs
  BY <1>2 DEF Nothing, Curs
<1>4. /\ EntryOK(runs', mem'.val) /\ mem' = [val |-> mem'.val, dirty |-> mem'.dirty]
      /\ mem'.val.check = (IF pc = "idle" THEN disk.check ELSE mem.val.check)
      /\ pc = "sweep" => mem'.dirty = mem.dirty
  BY <1>1, <1>2 DEF Shape, Clean
<1>5. Shape'
  BY <1>1, <1>2, <1>3, <1>4 DEF Shape, Curs
<1>6. Followed'
  BY <1>1, <1>2 DEF Followed
<1>7. Place'
  BY <1>2, <1>3 DEF Place, Handling, Starting
<1>8. pc \notin Starting /\ pc' \notin Handling \cup Starting \cup {"idle", "answered", "open_pr", "opened", "collected", "outcome", "reserved", "launched"}
      /\ pc \notin {"reserved", "launched"}
  BY <1>2 DEF Starting, Handling
<1>9. NoKills => Writer'
  BY <1>1, <1>2, <1>8 DEF Writer
<1>10. NoLateEdits => Judged'
  BY <1>1, <1>2, <1>3 DEF Judged
<1>11. NoKills /\ ~ ghost'.commanded => Unbidden'
  BY <1>1, <1>2, <1>3, <1>4, <1>8 DEF Unbidden, PointerIdle
<1> QED
  BY <1>5, <1>6, <1>7, <1>9, <1>10, <1>11 DEF IInv, NoKills, NoLateEdits

LEMMA TickEndStep == ASSUME IInv, TickEnd PROVE IInv'
<1> DEFINE s == t.val.status
           c == mem.val.check
<1>1. Shape /\ pc = "end" /\ pc' = "idle" /\ SaveState(mem)
      /\ UNCHANGED <<file, runs, t, cur, op, left, ghost>>
  BY DEF IInv, TickEnd
<1>2. /\ Later(runs, runs') /\ s \in Statuses /\ BudgetKept /\ cur' \in Curs
      /\ ghost' \in Ghosts /\ ghost'.commanded = ghost.commanded /\ (NoLateEdits => ~ ghost'.moved)
      /\ (NoKills => AllEnded(runs')) /\ (NoKills /\ ~ ghost.commanded => NoneSwept(runs'))
  BY <1>1, Still
<1>3. EntryMoved(c) /\ TaskMoved(s) /\ disk'.check = (IF "check" \in mem.dirty THEN mem.val.check ELSE disk.check)
  BY <1>1, <1>2, EntrySaved, UnmovedIs
<1>4. NoKills /\ ~ ghost.commanded => disk'.check = c
  BY <1>3 DEF IInv, Unbidden
<1>5. pc # "idle" /\ pc \notin Starting /\ pc' \notin Starting /\ pc' # "answered"
      /\ pc' \notin Handling \cup {"collected", "outcome", "open_pr", "opened"}
  BY <1>1 DEF Starting, Handling
<1>6. Place'
  BY <1>1 DEF Place, Handling, Starting
<1>7. NoKills => Keeps(s, c)
  BY <1>2, <1>5 DEF Keeps
<1>8. NoKills /\ ~ ghost.commanded => KeepsUnbidden(s, c)
  BY <1>2, <1>5 DEF KeepsUnbidden
<1>9. s = "running" => s = t.val.status
  OBVIOUS
<1> HIDE DEF s, c
<1> QED
  BY <1>1, <1>2, <1>3, <1>4, <1>5, <1>6, <1>7, <1>8, <1>9, PassStep

-----------------------------------------------------------------------------
(* Dispatch.                                                               *)

LEMMA WorkerAdded ==
    ASSUME Shape, NEW mode \in WorkerModes, NEW crit \in Nat, NEW rb \in BOOLEAN,
           runs' = Append(runs, NewRun(mode, crit, rb))
    PROVE  LET n == Len(runs) + 1
           IN  /\ runs' \in Seq(Records) /\ Closed(runs') /\ n \in Nat
               /\ DOMAIN runs' = DOMAIN runs \cup {n} /\ n \notin DOMAIN runs
               /\ runs'[n] = NewRun(mode, crit, rb) /\ \A k \in DOMAIN runs : runs'[k] = runs[k]
               /\ \A k : IsWorker(runs', k) <=> IsWorker(runs, k) \/ k = n
               /\ IsNewest(runs', n)
               /\ \A e : EntryOK(runs, e) => EntryOK(runs', e)
<1> DEFINE n == Len(runs) + 1
<1>0. runs \in Seq(Records) /\ Len(runs) \in Nat /\ DOMAIN runs = 1..Len(runs)
  BY RunsDomain DEF Shape
<1>1. PICK rec : rec = NewRun(mode, crit, rb)
  OBVIOUS
<1>2. rec \in Records /\ rec.mode = mode /\ rec.st = "preparing"
  BY <1>1 DEF NewRun, Records, Active
<1>3. runs' = Append(runs, rec)
  BY <1>1
<1>4. runs' \in Seq(Records) /\ DOMAIN runs' = 1..n
  BY <1>0, <1>2, <1>3
<1>5. runs'[n] = rec /\ \A k \in DOMAIN runs : runs'[k] = runs[k]
  BY <1>0, <1>3
<1>6. DOMAIN runs' = DOMAIN runs \cup {n} /\ n \notin DOMAIN runs /\ n \in Nat
      /\ \A k \in DOMAIN runs : k <= n
  BY <1>0, <1>4
<1> HIDE DEF n
<1>7. \A k : IsWorker(runs', k) <=> IsWorker(runs, k) \/ k = n
  BY <1>2, <1>5, <1>6 DEF IsWorker
<1>8. IsNewest(runs', n)
  BY <1>6, <1>7 DEF IsNewest, IsWorker
<1>9. Closed(runs')
  BY <1>2, <1>5, <1>6, <1>7 DEF Shape, Closed, IsWorker, Closings
<1>10. \A e : EntryOK(runs, e) => EntryOK(runs', e)
  BY <1>5, <1>6, <1>7 DEF EntryOK, PointerOK
<1> QED
  BY <1>1, <1>4, <1>5, <1>6, <1>7, <1>8, <1>9, <1>10 DEF n

\* A worker run is reserved while none is active.
LEMMA Reserves ==
    ASSUME IInv, NEW mode \in WorkerModes, NEW crit \in Nat, NEW rb \in BOOLEAN,
           runs' = Append(runs, NewRun(mode, crit, rb)),
           cur' = [run |-> Len(runs) + 1, st |-> "preparing"], pc \notin Starting, pc' = "reserved",
           file.status # "running", UNCHANGED <<file, disk, op, ghost>>,
           t'.val \in Tasks, t' = [val |-> t'.val, base |-> t'.val], t'.val.status # "running",
           EntryOK(runs, mem'.val), mem' = [val |-> mem'.val, dirty |-> mem'.dirty],
           left' \in BoundSet, left'.crashes = left.crashes,
           NoKills => NoneActive(runs),
           {crit, t'.val.crit} \subseteq {t.val.crit, file.crit}, crit # 0,
           left'.edits = left.edits,
           IF mode = "resume" THEN left.answers # 0 ELSE left'.answers = left.answers,
           NoKills /\ ~ ghost.commanded =>
             /\ file.status = t'.val.status /\ mem'.val.check.run = 0
             /\ "check" \notin mem'.dirty => mem'.val.check = disk.check
             /\ mode = "resume" => mem'.val.check = disk.check
    PROVE  IInv'
<1> DEFINE n == Len(runs) + 1
           rec == NewRun(mode, crit, rb)
<1>1. Shape /\ (NoKills => Writer) /\ (NoLateEdits => Judged)
      /\ (NoKills /\ ~ ghost.commanded => Unbidden)
  BY DEF IInv
<1>2. /\ runs' \in Seq(Records) /\ Closed(runs') /\ n \in Nat
      /\ DOMAIN runs' = DOMAIN runs \cup {n} /\ n \notin DOMAIN runs
      /\ runs'[n] = rec /\ \A k \in DOMAIN runs : runs'[k] = runs[k]
      /\ \A k : IsWorker(runs', k) <=> IsWorker(runs, k) \/ k = n
      /\ IsNewest(runs', n)
      /\ \A e : EntryOK(runs, e) => EntryOK(runs', e)
  BY <1>1, WorkerAdded
<1>3. /\ rec.mode = mode /\ rec.st = "preparing" /\ ~ rec.fin /\ ~ rec.pid /\ rec.prep /\ rec.proc = "none"
      /\ rec.brief = crit /\ rec.crit = crit
  BY DEF NewRun
<1> HIDE DEF rec
<1>4. cur' \in Curs /\ cur'.run = n /\ cur'.st = "preparing"
  BY <1>2 DEF Curs, Active
<1> HIDE DEF n
<1>5. Shape'
  BY <1>1, <1>2, <1>4 DEF Shape, Curs
<1>6. Followed'
  BY DEF Followed
<1>7. Place'
  <2>1. IsWorker(runs', cur'.run) /\ IsNewest(runs', cur'.run)
    BY <1>2, <1>4
  <2> QED
    BY <1>4, <2>1 DEF Place, Handling, Starting
<1>8. ASSUME NEW k \in DOMAIN runs', NoKills, IsActive(runs', k) PROVE k = n
  BY <1>2, <1>8 DEF IsActive, NoneActive, IsWorker
<1>9. ASSUME NoKills PROVE Writer'
  <2>1. Writer /\ pc \notin {"reserved", "launched"}
    BY <1>1, <1>9 DEF Starting
  <2>2. left'.crashes = 0 /\ \A k \in DOMAIN runs' : runs'[k].prep
    BY <1>2, <1>3, <2>1 DEF Writer
  <2>3. \A k \in DOMAIN runs' :
         IsWorker(runs', k) /\ runs'[k].fin => runs'[k].proc \notin Alive \/ runs'[k].st = "timeout"
    BY <1>2, <1>3, <2>1 DEF Writer, IsWorker
  <2>4. \A k \in DOMAIN runs' : IsWorker(runs', k) /\ runs'[k].st = "preparing" => k = n
    BY <1>8, <1>9 DEF IsActive, Active
  <2>5. \A j, k \in DOMAIN runs' : IsActive(runs', j) /\ IsActive(runs', k) => j = k
    BY <1>8, <1>9
  <2>6. pc' \in Starting /\ pc' \notin Handling
    BY DEF Starting, Handling
  <2>7. \A k \in DOMAIN runs' : IsActive(runs', k) => k = cur'.run
    BY <1>4, <1>8, <1>9
  <2> QED
    BY <1>2, <1>3, <1>4, <2>2, <2>3, <2>4, <2>5, <2>6, <2>7 DEF Writer
<1>10. ASSUME NoLateEdits PROVE Judged'
  <2>1. Judged
    BY <1>1, <1>10
  <2>2. \A k \in DOMAIN runs' : IsWorker(runs', k) =>
          \/ k \in DOMAIN runs /\ IsWorker(runs, k) /\ runs'[k] = runs[k]
          \/ runs'[k] = rec
    BY <1>2 DEF IsWorker
  <2> QED
    BY <1>3, <2>1, <2>2 DEF Judged
<1>11. ASSUME NoKills, ~ ghost'.commanded PROVE Unbidden'
  <2>1. Unbidden
    BY <1>1, <1>11
  <2>2. \A k \in DOMAIN runs' : IsWorker(runs', k) => runs'[k].st # "closed"
    BY <1>2, <1>3, <2>1 DEF Unbidden, IsWorker
  <2>3. runs'[cur'.run].mode = "resume" => mem'.val.check = disk'.check
    BY <1>2, <1>3, <1>4, <1>11
  <2>4. pc' \in Starting /\ pc' \notin {"idle", "answered", "open_pr", "opened"}
    BY DEF Starting
  <2> QED
    BY <1>11, <2>1, <2>2, <2>3, <2>4 DEF Unbidden, PointerIdle
<1> QED
  BY <1>5, <1>6, <1>7, <1>9, <1>10, <1>11 DEF IInv, NoKills, NoLateEdits

LEMMA DispatchReserveStep == ASSUME IInv, DispatchReserve PROVE IInv'
<1>1. /\ Shape /\ pc = "dispatch" /\ QueuedMode # "none" /\ ~ WorkerInFlight /\ left.workers > 0
      /\ runs' = Append(runs, NewRun(QueuedMode, t.val.crit, mem.val.rebase))
      /\ cur' = [run |-> Len(runs) + 1, st |-> "preparing"] /\ pc' = "reserved"
      /\ mem' = Put(mem, [human |-> FALSE]) /\ left' = [left EXCEPT !.workers = @ - 1]
      /\ UNCHANGED <<file, disk, t, op, ghost>>
  BY DEF IInv, DispatchReserve, Reserve, St
<1>2. /\ QueuedMode \in {"work", "revise"} /\ t.val.status \in {"ready", "changes_requested"}
      /\ t.val.status = "ready" \/ mem.val.check.run = 0
  BY <1>1 DEF QueuedMode, St
<1>3. file.status # "running"
  BY <1>1, <1>2 DEF IInv, Place
<1>4. t.val \in Tasks /\ t.val.crit \in Nat \ {0} /\ mem.val.rebase \in BOOLEAN
      /\ t = [val |-> t.val, base |-> t.val]
  BY <1>1 DEF Shape, Tasks, EntryOK
<1>5. NoneActive(runs)
  BY <1>1 DEF WorkerInFlight, ActiveRuns, Workers, NoneActive, IsActive, IsWorker
<1>6. "check" \notin DOMAIN [human |-> FALSE] /\ "rebase" \notin DOMAIN [human |-> FALSE]
  OBVIOUS
<1>7. /\ EntryOK(runs, mem'.val) /\ mem' = [val |-> mem'.val, dirty |-> mem'.dirty]
      /\ mem'.dirty = mem.dirty \cup DOMAIN [human |-> FALSE] /\ mem'.val.check = mem.val.check
  <2> DEFINE u == [human |-> FALSE]
  <2>1. EntryOK(runs, mem.val) /\ mem' = Put(mem, u) /\ "check" \notin DOMAIN u /\ "rebase" \notin DOMAIN u
    BY <1>1, <1>6 DEF Shape
  <2> HIDE DEF u
  <2>2. /\ EntryOK(runs, mem'.val) /\ mem' = [val |-> mem'.val, dirty |-> mem'.dirty]
        /\ mem'.dirty = mem.dirty \cup DOMAIN u /\ mem'.val.check = mem.val.check
    BY <2>1, PutIs
  <2> QED
    BY <2>2 DEF u
<1>8. /\ left' \in BoundSet /\ left'.crashes = left.crashes /\ left'.edits = left.edits
      /\ left'.answers = left.answers
  <2>1. left \in BoundSet /\ left.workers > 0 /\ left' = [left EXCEPT !.workers = @ - 1]
    BY <1>1 DEF Shape
  <2>2. left' \in BoundSet
    BY <2>1 DEF BoundSet
  <2> QED
    BY <2>1, <2>2 DEF BoundSet
<1>9. NoKills /\ ~ ghost.commanded =>
        /\ file.status = t'.val.status /\ mem'.val.check.run = 0
        /\ "check" \notin mem'.dirty => mem'.val.check = disk.check
  BY <1>1, <1>2, <1>6, <1>7 DEF IInv, Unbidden, PointerIdle
<1>10. QueuedMode \in WorkerModes /\ QueuedMode # "resume" /\ pc \notin Starting
  BY <1>1, <1>2 DEF WorkerModes, Starting
<1>11. t'.val \in Tasks /\ t' = [val |-> t'.val, base |-> t'.val] /\ t'.val.status # "running"
       /\ {t.val.crit, t'.val.crit} \subseteq {t.val.crit, file.crit}
  BY <1>1, <1>2, <1>4
<1> QED
  BY <1>1, <1>3, <1>4, <1>5, <1>7, <1>8, <1>9, <1>10, <1>11, Reserves

LEMMA AnswerStep == ASSUME IInv, Answer PROVE IInv'
<1> DEFINE u == [question |-> FALSE, human |-> FALSE]
<1>1. /\ Shape /\ pc = "idle" /\ left.answers > 0 /\ left.workers > 0 /\ file.status = "waiting_human"
      /\ runs' = Append(runs, NewRun("resume", file.crit, mem.val.rebase))
      /\ cur' = [run |-> Len(runs) + 1, st |-> "preparing"] /\ pc' = "reserved"
      /\ t' = [val |-> file, base |-> file]
      /\ mem' = Put(Clean(disk), u) /\ left' = [left EXCEPT !.workers = @ - 1, !.answers = @ - 1]
      /\ UNCHANGED <<file, disk, op, ghost>>
  BY DEF IInv, Answer, Reserve, St
<1>2. "resume" \in WorkerModes /\ file \in Tasks /\ file.crit \in Nat \ {0} /\ mem.val.rebase \in BOOLEAN
      /\ pc \notin Starting
  BY <1>1 DEF Shape, Tasks, EntryOK, WorkerModes, Starting
<1>3. NoKills => NoneActive(runs)
  BY <1>1, <1>2 DEF IInv, Writer
<1>4. "check" \notin DOMAIN u /\ "rebase" \notin DOMAIN u
  OBVIOUS
<1> HIDE DEF u
<1>5. PICK m : m = Clean(disk)
  OBVIOUS
<1>6. m.val = disk /\ m.dirty = {}
  BY <1>5 DEF Clean
<1>7. /\ EntryOK(runs, mem'.val) /\ mem' = [val |-> mem'.val, dirty |-> mem'.dirty]
      /\ mem'.val.check = disk.check
  <2>1. EntryOK(runs, m.val) /\ mem' = Put(m, u)
    BY <1>1, <1>5, <1>6 DEF Shape
  <2>2. /\ EntryOK(runs, mem'.val) /\ mem' = [val |-> mem'.val, dirty |-> mem'.dirty]
        /\ mem'.val.check = m.val.check
    BY <1>4, <2>1, PutIs
  <2> QED
    BY <1>6, <2>2
<1>8. left' \in BoundSet /\ left'.crashes = left.crashes /\ left'.edits = left.edits /\ left.answers # 0
  <2>1. left \in BoundSet /\ left.workers > 0 /\ left.answers > 0
        /\ left' = [left EXCEPT !.workers = @ - 1, !.answers = @ - 1]
    BY <1>1 DEF Shape
  <2>2. PICK w \in Nat, a \in Nat : w = left.workers - 1 /\ a = left.answers - 1
    BY <2>1 DEF BoundSet
  <2>3. left' = [left EXCEPT !.workers = w, !.answers = a]
    BY <2>1, <2>2 DEF BoundSet
  <2>4. left' \in BoundSet
    BY <2>1, <2>3 DEF BoundSet
  <2> QED
    BY <2>1, <2>3, <2>4 DEF BoundSet
<1>9. t'.val = file
  BY <1>1
<1>10. NoKills /\ ~ ghost.commanded =>
        /\ file.status = t'.val.status /\ mem'.val.check.run = 0 /\ mem'.val.check = disk.check
  BY <1>1, <1>7, <1>9 DEF IInv, Unbidden, PointerIdle
<1>11. t'.val \in Tasks /\ t' = [val |-> t'.val, base |-> t'.val] /\ t'.val.status # "running"
       /\ file.status # "running" /\ {file.crit, t'.val.crit} \subseteq {t.val.crit, file.crit}
  BY <1>1, <1>2, <1>9
<1> QED
  BY <1>1, <1>2, <1>3, <1>7, <1>8, <1>10, <1>11, Reserves

\* The dispatch ends without a worker: the reservation is closed.
LEMMA DispatchEnds ==
    ASSUME IInv, pc \in {"reserved", "launched"}, Later(runs, runs'),
           NoKills => AllEnded(runs') /\ NoneActive(runs'),
           NoKills /\ ~ ghost.commanded => NoneSwept(runs'),
           UNCHANGED <<disk, cur, op, left, ghost>>,
           \/ pc' = "end" /\ UNCHANGED mem /\ (UNCHANGED <<file, t>> \/ (runs[cur.run].mode # "resume" /\ Transition("failed")))
           \/ /\ pc' = "idle" /\ mem' = Clean(disk) /\ UNCHANGED <<file, t>>
              /\ runs[cur.run].mode = "resume"
    PROVE  IInv'
<1>1. Shape /\ "failed" \in Statuses
  BY DEF IInv, Statuses
<1>2. /\ t.val.status \in Statuses /\ BudgetKept /\ cur' \in Curs
      /\ ghost' \in Ghosts /\ ghost'.commanded = ghost.commanded /\ (NoLateEdits => ~ ghost'.moved)
  BY Still
<1>3. t.val.status # "running" /\ pc \in Starting /\ pc # "idle"
  BY DEF IInv, Place, Starting
<1>4. PICK s \in Statuses : TaskMoved(s) /\ s \in {"failed", t.val.status}
                            /\ (s = t.val.status \/ (pc' # "idle" /\ runs[cur.run].mode # "resume"))
  BY <1>1, <1>2, UnmovedIs, TransitionIs
<1>5. PICK c : EntryMoved(c) /\ (IF pc' = "idle" THEN c = disk.check ELSE c = mem.val.check)
  <2>1. CASE pc' = "end"
    BY <1>1, <2>1, EntrySame
  <2>2. CASE pc' = "idle"
    <3>1. mem' = [val |-> disk, dirty |-> {}] /\ EntryOK(runs', disk)
      BY <1>1, <2>2, LaterKeeps DEF Clean, Shape
    <3>2. EntryMoved(disk.check)
      BY <3>1 DEF EntryMoved
    <3> QED
      BY <2>2, <3>2
  <2> QED
    BY <2>1, <2>2
<1>6. s = "running" => s = t.val.status
  BY <1>3, <1>4
<1>7. pc' \notin Starting /\ pc' # "answered" /\ pc' \notin Handling \cup {"collected", "outcome", "open_pr", "opened"}
  BY DEF Starting, Handling
<1>8. Place'
  BY DEF Place, Handling, Starting
<1>9. NoKills => Keeps(s, c)
  BY <1>7 DEF Keeps
<1>10. NoKills /\ ~ ghost.commanded => c = mem.val.check
  BY <1>3, <1>5, <1>7 DEF IInv, Unbidden
<1>11. NoKills /\ ~ ghost.commanded => KeepsUnbidden(s, c)
  <2>1. NoKills /\ ~ ghost.commanded /\ mem.val.check.run # 0 => t.val.status \notin {"ready", "waiting_human", "failed"}
    BY <1>3 DEF IInv, Unbidden, PointerIdle
  <2>2. NoKills /\ ~ ghost.commanded /\ s # t.val.status => mem.val.check.run = 0
    BY <1>3, <1>4 DEF IInv, Unbidden
  <2> QED
    BY <1>4, <1>7, <1>10, <2>1, <2>2 DEF KeepsUnbidden
<1>12. pc' = "idle" => disk'.check = c
  BY <1>5
<1> QED
  BY <1>2, <1>3, <1>4, <1>5, <1>6, <1>7, <1>8, <1>9, <1>11, <1>12, PassStep

\* What is known of the run a dispatch prepares.
LEMMA Preparing ==
    ASSUME IInv, pc \in Starting
    PROVE  /\ cur.run \in DOMAIN runs /\ runs[cur.run] \in Records /\ IsWorker(runs, cur.run)
           /\ NoKills => \A k \in DOMAIN runs : IsActive(runs, k) => k = cur.run
           /\ NoKills /\ ~ ghost.commanded => PointerIdle(mem.val.check)
<1>1. Shape /\ IsWorker(runs, cur.run)
  BY DEF IInv, Place
<1>2. cur.run \in DOMAIN runs /\ runs[cur.run] \in Records
  BY <1>1, RunsDomain DEF Shape, IsWorker
<1>3. NoKills => \A k \in DOMAIN runs : IsActive(runs, k) => k = cur.run
  BY DEF IInv, Writer
<1>4. NoKills /\ ~ ghost.commanded => PointerIdle(mem.val.check)
  BY DEF IInv, Unbidden, Starting
<1> QED
  BY <1>1, <1>2, <1>3, <1>4

LEMMA DispatchFailureSteps == ASSUME IInv, DispatchFails \/ DispatchDeferred PROVE IInv'
<1> DEFINE k == cur.run
           rec == ClosedAs(runs[k], "failed")
<1>1. Shape /\ pc = "reserved" /\ CloseDispatchFailure /\ pc \in Starting /\ UNCHANGED <<disk, cur, op, left, ghost>>
  BY DEF IInv, DispatchFails, DispatchDeferred, DispatchRaised, Starting
<1>2. /\ k \in DOMAIN runs /\ runs[k] \in Records /\ IsWorker(runs, k)
      /\ NoKills => \A j \in DOMAIN runs : IsActive(runs, j) => j = k
  BY <1>1, Preparing
<1>3. NoKills => runs[k].proc = "none"
  BY <1>1 DEF IInv, Writer
<1>4. \/ pc' = "end" /\ UNCHANGED mem /\ (UNCHANGED <<file, t>> \/ (runs[cur.run].mode # "resume" /\ Transition("failed")))
      \/ /\ pc' = "idle" /\ mem' = Clean(disk) /\ UNCHANGED <<file, t>>
         /\ runs[cur.run].mode = "resume"
  BY DEF DispatchFails, DispatchDeferred, DispatchRaised
<1>5. runs' = [runs EXCEPT ![k].st = "failed", ![k].fin = TRUE, ![k].events = @ + 1]
  BY <1>1 DEF CloseDispatchFailure
<1> HIDE DEF k
<1>6. runs' = [runs EXCEPT ![k] = rec]
  BY <1>2, <1>5 DEF ClosedAs
<1>7. rec \in Records /\ Grows(runs[k], rec) /\ rec.proc = runs[k].proc /\ rec.st = "failed"
  BY <1>2, ClosedAsIs DEF Closings
<1> HIDE DEF rec
<1>8. NoKills => Ended(rec)
  BY <1>3, <1>7 DEF Ended, Alive
<1>9. /\ Later(runs, runs') /\ runs'[k] = rec /\ (NoKills => AllEnded(runs'))
      /\ (NoKills /\ ~ ghost.commanded => NoneSwept(runs'))
  BY <1>2, <1>6, <1>7, <1>8, OneRunChanged
<1>10. NoKills => NoneActive(runs')
  <2>1. \A j : IsActive(runs', j) => IsActive(runs, j)
    BY <1>9, LaterKeeps
  <2> QED
    BY <1>2, <1>7, <1>9, <2>1 DEF NoneActive, IsActive, IsWorker, Active
<1> QED
  BY <1>1, <1>4, <1>9, <1>10, DispatchEnds

LEMMA DispatchConflictStep == ASSUME IInv, DispatchConflict PROVE IInv'
<1>1. pc = "launched" /\ Conflict /\ pc \in Starting /\ UNCHANGED <<disk, runs, cur, op, left, ghost>>
  BY DEF DispatchConflict, DispatchRaised, Starting
<1>2. \/ pc' = "end" /\ UNCHANGED mem /\ (UNCHANGED <<file, t>> \/ (runs[cur.run].mode # "resume" /\ Transition("failed")))
      \/ /\ pc' = "idle" /\ mem' = Clean(disk) /\ UNCHANGED <<file, t>>
         /\ runs[cur.run].mode = "resume"
  BY DEF DispatchConflict, DispatchRaised
<1>3. NoKills => \A k \in DOMAIN runs : IsActive(runs, k) => k = cur.run
  BY <1>1, Preparing
<1>4. NoKills => runs[cur.run].st \notin Active
  BY <1>1 DEF IInv, Place, Writer, Conflict, Active
<1>5. NoKills => NoneActive(runs')
  BY <1>1, <1>3, <1>4 DEF NoneActive, IsActive
<1>6. /\ Later(runs, runs') /\ (NoKills => AllEnded(runs'))
      /\ (NoKills /\ ~ ghost.commanded => NoneSwept(runs'))
  BY <1>1, Still
<1> QED
  BY <1>1, <1>2, <1>5, <1>6, DispatchEnds

LEMMA DispatchSaveStep == ASSUME IInv, DispatchSave PROVE IInv'
<1> DEFINE s == t.val.status
           c == mem.val.check
<1>1. Shape /\ pc = "transitioned" /\ SaveState(mem) /\ UNCHANGED <<file, runs, t, cur, op, left, ghost>>
      /\ pc' = (IF runs[cur.run].mode = "resume" THEN "answered" ELSE "end")
  BY DEF IInv, DispatchSave
<1>2. IsWorker(runs, cur.run)
  BY <1>1 DEF IInv, Place
<1>3. /\ Later(runs, runs') /\ s \in Statuses /\ BudgetKept /\ cur' \in Curs
      /\ ghost' \in Ghosts /\ ghost'.commanded = ghost.commanded /\ (NoLateEdits => ~ ghost'.moved)
      /\ (NoKills => AllEnded(runs')) /\ (NoKills /\ ~ ghost.commanded => NoneSwept(runs'))
  BY <1>1, Still
<1>4. EntryMoved(c) /\ TaskMoved(s) /\ mem'.dirty = {}
  BY <1>1, <1>3, EntrySaved, UnmovedIs
<1>5. pc # "idle" /\ pc \notin Starting /\ pc' \notin Starting /\ pc' # "idle"
      /\ pc' \notin Handling \cup {"collected", "outcome", "open_pr", "opened"}
  BY <1>1 DEF Starting, Handling
<1>6. Place'
  BY <1>1, <1>2 DEF Place, Handling, Starting
<1>7. NoKills => Keeps(s, c)
  BY <1>3, <1>5 DEF Keeps
<1>8. NoKills /\ ~ ghost.commanded => KeepsUnbidden(s, c)
  BY <1>3, <1>5 DEF KeepsUnbidden
<1>9. s = "running" => s = t.val.status
  OBVIOUS
<1> HIDE DEF s, c
<1> QED
  BY <1>1, <1>3, <1>4, <1>5, <1>6, <1>7, <1>8, <1>9, PassStep

\* Records that differ in nothing but what became of their processes, or their
\* snapshots.
Alike(rs, ss) ==
    /\ ss \in Seq(Records) /\ DOMAIN ss = DOMAIN rs
    /\ \A k \in DOMAIN rs :
         /\ ss[k].mode = rs[k].mode /\ ss[k].st = rs[k].st /\ ss[k].fin = rs[k].fin
         /\ ss[k].pid = rs[k].pid /\ ss[k].prep = rs[k].prep /\ ss[k].brief = rs[k].brief

LEMMA AlikeKeeps ==
    ASSUME NEW rs, NEW ss, Alike(rs, ss)
    PROVE  /\ \A k : IsWorker(ss, k) <=> IsWorker(rs, k)
           /\ \A k : IsActive(ss, k) <=> IsActive(rs, k)
           /\ \A k : IsNewest(ss, k) <=> IsNewest(rs, k)
           /\ NoneActive(rs) <=> NoneActive(ss)
           /\ \A e : EntryOK(rs, e) => EntryOK(ss, e)
           /\ Closed(rs) => Closed(ss)
<1>1. \A k : IsWorker(ss, k) <=> IsWorker(rs, k)
  BY DEF Alike, IsWorker
<1>2. \A k : IsActive(ss, k) <=> IsActive(rs, k)
  BY <1>1 DEF Alike, IsActive, IsWorker
<1>3. \A k : IsNewest(ss, k) <=> IsNewest(rs, k)
  BY <1>1 DEF IsNewest, Alike
<1>4. NoneActive(rs) <=> NoneActive(ss)
  BY <1>2 DEF NoneActive, Alike
<1>5. \A e : EntryOK(rs, e) => EntryOK(ss, e)
  BY <1>1 DEF EntryOK, PointerOK, Alike
<1>6. Closed(rs) => Closed(ss)
  BY <1>1 DEF Closed, Alike
<1> QED
  BY <1>1, <1>2, <1>3, <1>4, <1>5, <1>6

LEMMA JudgedKept ==
    ASSUME Judged, file'.crit = file.crit, t'.val.crit = t.val.crit, op'.val.crit = op.val.crit,
           left'.answers = left.answers, left'.edits = left.edits, ghost'.moved = ghost.moved,
           \A j \in DOMAIN runs' : IsWorker(runs', j) =>
             /\ j \in DOMAIN runs /\ IsWorker(runs, j) /\ runs'[j].mode = runs[j].mode
             /\ runs'[j].crit = runs[j].crit /\ runs'[j].brief = runs[j].brief
    PROVE  Judged'
  BY DEF Judged

\* The run that is prepared is started, and then recorded as running.
LEMMA Starts ==
    ASSUME IInv, pc \in Starting, pc' \in {"launched", "recorded"}, NEW rec \in Records,
           runs' = [runs EXCEPT ![cur.run] = rec],
           rec.mode = runs[cur.run].mode, rec.brief = runs[cur.run].brief, rec.crit = runs[cur.run].crit,
           rec.prep = runs[cur.run].prep, rec.fin = runs[cur.run].fin,
           rec.st = runs[cur.run].st \/ rec.st = "running",
           cur' \in Curs, cur'.run = cur.run, UNCHANGED <<file, disk, t, mem, op, left, ghost>>,
           pc' = "launched" => cur'.st = "preparing",
           pc' = "recorded" => rec.st # "preparing",
           NoKills => Ended(rec) /\ IsActive(runs, cur.run),
           NoKills /\ pc' = "launched" => ~ rec.pid /\ rec.st # "running"
    PROVE  IInv'
<1> DEFINE k == cur.run
<1>1. Shape /\ Followed /\ Place /\ (NoKills => Writer) /\ (NoLateEdits => Judged)
      /\ (NoKills /\ ~ ghost.commanded => Unbidden)
  BY DEF IInv
<1>2. /\ k \in DOMAIN runs /\ runs[k] \in Records /\ IsWorker(runs, k)
      /\ NoKills => \A j \in DOMAIN runs : IsActive(runs, j) => j = k
      /\ NoKills /\ ~ ghost.commanded => PointerIdle(mem.val.check)
  BY Preparing
<1>3. /\ runs' \in Seq(Records) /\ DOMAIN runs' = DOMAIN runs /\ runs'[k] = rec
      /\ \A j \in DOMAIN runs : j # k => runs'[j] = runs[j]
  BY <1>1, <1>2 DEF Shape
<1>4. \A j : IsWorker(runs', j) <=> IsWorker(runs, j)
  BY <1>2, <1>3 DEF IsWorker
<1>5. file.status # "running" /\ t.val.status # "running" /\ IsNewest(runs', k)
  BY <1>1, <1>3, <1>4 DEF Place, IsNewest
<1>6. \A e : EntryOK(runs, e) => EntryOK(runs', e)
  BY <1>3, <1>4 DEF EntryOK, PointerOK
<1>7. Closed(runs')
  BY <1>1, <1>2, <1>3, <1>4 DEF Shape, Closed, Closings
<1>8. Shape'
  BY <1>1, <1>3, <1>6, <1>7 DEF Shape, Curs
<1>9. Followed'
  BY <1>5 DEF Followed
<1>10. pc' \in Starting /\ pc' \notin Handling \cup {"reserved", "idle", "answered", "open_pr", "opened"}
  BY DEF Starting, Handling
<1>11. Place'
  BY <1>2, <1>3, <1>4, <1>5 DEF Place, Handling, Starting
<1>12. ASSUME NoKills PROVE Writer'
  <2>1. Writer /\ Ended(rec) /\ IsActive(runs, k)
    BY <1>1, <1>12
  <2>2. left'.crashes = 0 /\ \A j \in DOMAIN runs' : runs'[j].prep
    BY <1>2, <1>3, <2>1 DEF Writer
  <2>3. \A j \in DOMAIN runs' :
         IsWorker(runs', j) /\ runs'[j].fin => runs'[j].proc \notin Alive \/ runs'[j].st = "timeout"
    BY <1>3, <1>4, <2>1 DEF Writer, Ended, IsWorker
  <2>4. \A j \in DOMAIN runs' : IsActive(runs', j) => j = k
    <3> SUFFICES ASSUME NEW j \in DOMAIN runs', IsActive(runs', j), j # k PROVE FALSE
      OBVIOUS
    <3>1. j \in DOMAIN runs /\ runs'[j] = runs[j]
      BY <1>3
    <3>2. IsActive(runs, j)
      BY <3>1 DEF IsActive, IsWorker
    <3> QED
      BY <1>2, <1>12, <3>1, <3>2
  <2>5. \A j \in DOMAIN runs' : IsWorker(runs', j) /\ runs'[j].st = "preparing" => pc' = "launched" /\ j = k
    <3>1. \A j \in DOMAIN runs' : IsWorker(runs', j) /\ runs'[j].st = "preparing" => IsActive(runs', j)
      BY DEF IsActive, Active
    <3> QED
      BY <1>3, <2>4, <3>1
  <2>6. pc' = "launched" => ~ runs'[k].pid /\ runs'[k].st # "running"
    BY <1>3, <1>12
  <2> QED
    BY <1>10, <2>2, <2>3, <2>4, <2>5, <2>6 DEF Writer
<1>13. ASSUME NoLateEdits PROVE Judged'
  <2>1. Judged
    BY <1>1, <1>13
  <2>2. \A j \in DOMAIN runs : runs'[j].crit = runs[j].crit /\ runs'[j].brief = runs[j].brief
                               /\ runs'[j].mode = runs[j].mode
    BY <1>2, <1>3
  <2>3. \A j \in DOMAIN runs' : IsWorker(runs', j) =>
          /\ j \in DOMAIN runs /\ IsWorker(runs, j) /\ runs'[j].mode = runs[j].mode
          /\ runs'[j].crit = runs[j].crit /\ runs'[j].brief = runs[j].brief
    BY <1>3, <1>4, <2>2
  <2> QED
    BY <2>1, <2>3, JudgedKept
<1>14. ASSUME NoKills, ~ ghost'.commanded PROVE Unbidden'
  <2>1. Unbidden /\ mem.val.check.run = 0
    BY <1>1, <1>2, <1>14 DEF PointerIdle, NoneActive
  <2>2. \A j \in DOMAIN runs' : IsWorker(runs', j) => runs'[j].st # "closed"
    BY <1>2, <1>3, <1>4, <2>1 DEF Unbidden
  <2>3. runs'[cur'.run].mode = "resume" => mem'.val.check = disk'.check
    BY <1>3, <2>1 DEF Unbidden
  <2> QED
    BY <1>10, <2>1, <2>2, <2>3 DEF Unbidden, PointerIdle
<1> QED
  BY <1>8, <1>9, <1>11, <1>12, <1>13, <1>14 DEF IInv, NoKills, NoLateEdits

LEMMA DispatchLaunchStep == ASSUME IInv, DispatchLaunch PROVE IInv'
<1> DEFINE rec == [runs[cur.run] EXCEPT !.proc = "live"]
<1>1. /\ Shape /\ pc = "reserved" /\ pc' = "launched" /\ pc \in Starting
      /\ runs' = [runs EXCEPT ![cur.run].proc = "live"]
      /\ UNCHANGED <<file, disk, t, mem, cur, op, left, ghost>>
  BY DEF IInv, DispatchLaunch, Starting
<1>2. cur.run \in DOMAIN runs /\ runs[cur.run] \in Records /\ IsWorker(runs, cur.run)
  BY <1>1, Preparing
<1>3. NoKills => runs[cur.run].st = "preparing" /\ ~ runs[cur.run].pid /\ ~ runs[cur.run].fin
  BY <1>1 DEF IInv, Writer
<1>4. runs' = [runs EXCEPT ![cur.run] = rec]
  BY <1>1, <1>2
<1>5. /\ rec \in Records /\ rec.mode = runs[cur.run].mode /\ rec.brief = runs[cur.run].brief
      /\ rec.crit = runs[cur.run].crit /\ rec.prep = runs[cur.run].prep /\ rec.fin = runs[cur.run].fin
      /\ rec.st = runs[cur.run].st /\ rec.pid = runs[cur.run].pid
  BY <1>2 DEF Records
<1> HIDE DEF rec
<1>6. cur.st = "preparing" /\ cur' \in Curs
  BY <1>1, Still DEF IInv, Place
<1>7. NoKills => /\ Ended(rec) /\ IsActive(runs, cur.run)
                 /\ ~ rec.pid /\ rec.st # "running"
  BY <1>2, <1>3, <1>5 DEF Ended, IsActive, Active
<1> QED
  BY <1>1, <1>4, <1>5, <1>6, <1>7, Starts

LEMMA DispatchRecordPidStep == ASSUME IInv, DispatchRecordPid PROVE IInv'
<1> DEFINE rec == [runs[cur.run] EXCEPT !.pid = TRUE, !.st = "running"]
<1>1. /\ Shape /\ pc = "launched" /\ ~ Conflict /\ pc' = "recorded" /\ pc \in Starting
      /\ runs' = [runs EXCEPT ![cur.run].pid = TRUE, ![cur.run].st = "running"]
      /\ cur' = [cur EXCEPT !.st = "running"]
      /\ UNCHANGED <<file, disk, t, mem, op, left, ghost>>
  BY DEF IInv, DispatchRecordPid, Starting
<1>2. cur.run \in DOMAIN runs /\ runs[cur.run] \in Records /\ IsWorker(runs, cur.run)
  BY <1>1, Preparing
<1>3. runs[cur.run].st = "preparing"
  BY <1>1 DEF IInv, Place, Conflict
<1>4. NoKills => Ended(runs[cur.run])
  BY <1>2, Still DEF AllEnded
<1>5. runs' = [runs EXCEPT ![cur.run] = rec]
  BY <1>1, <1>2
<1>6. /\ rec \in Records /\ rec.mode = runs[cur.run].mode /\ rec.brief = runs[cur.run].brief
      /\ rec.crit = runs[cur.run].crit /\ rec.prep = runs[cur.run].prep /\ rec.fin = runs[cur.run].fin
      /\ rec.st = "running" /\ rec.proc = runs[cur.run].proc
  BY <1>2 DEF Records, Active
<1> HIDE DEF rec
<1>7. cur' \in Curs /\ cur'.run = cur.run
  BY <1>1 DEF Shape, Curs, Active
<1>8. NoKills => Ended(rec) /\ IsActive(runs, cur.run)
  BY <1>2, <1>3, <1>4, <1>6 DEF Ended, IsActive, Active
<1> QED
  BY <1>1, <1>5, <1>6, <1>7, <1>8, Starts

LEMMA DispatchTransitionStep == ASSUME IInv, DispatchTransition PROVE IInv'
<1> DEFINE c == mem.val.check
<1>1. /\ Shape /\ Place /\ (NoKills => Writer) /\ (NoLateEdits => Judged)
      /\ (NoKills /\ ~ ghost.commanded => Unbidden)
  BY DEF IInv
<1>2. pc = "recorded" /\ pc' = "transitioned" /\ UNCHANGED <<disk, runs, cur, op, left, ghost>>
  BY DEF DispatchTransition
<1>3. /\ IsWorker(runs, cur.run) /\ IsNewest(runs, cur.run) /\ runs[cur.run].st # "preparing"
      /\ t.val.status # "running" /\ pc \in Starting
  BY <1>1, <1>2 DEF Place, Starting
<1>4. TaskMoved("running")
  <2>1. PICK a \in Int : a = (IF runs[cur.run].mode = "work" THEN t.val.attempts + 1 ELSE t.val.attempts)
    BY <1>1 DEF Shape, Tasks
  <2> DEFINE new == [t.val EXCEPT !.status = "running", !.attempts = a]
  <2>2. new \in Tasks /\ new.crit = t.val.crit /\ new.status = "running"
    BY <1>1 DEF Shape, Tasks, Statuses
  <2>3. SaveTask(new)
    BY <1>1, <2>1 DEF DispatchTransition, Shape, Tasks
  <2> HIDE DEF new
  <2> QED
    BY <1>1, <2>2, <2>3, SaveTaskIs
<1>5. EntryMoved(c)
  <2> DEFINE u1 == [feedback |-> FALSE, rebase |-> FALSE,
                    revisions |-> IF St.rebase THEN St.revisions ELSE St.revisions + 1]
             u2 == [rebase |-> FALSE]
  <2>1. mem' = Put(mem, u1) \/ mem' = Put(mem, u2)
    BY DEF DispatchTransition
  <2>2. "check" \notin DOMAIN u1 /\ u1["rebase"] \in BOOLEAN /\ "check" \notin DOMAIN u2 /\ u2["rebase"] \in BOOLEAN
    OBVIOUS
  <2> HIDE DEF u1, u2
  <2>3. Later(runs, runs')
    BY <1>2, Still
  <2> QED
    BY <1>1, <1>2, <2>1, <2>2, <2>3, EntryPut
<1>6. /\ file' \in Tasks /\ t'.val \in Tasks /\ t' = [val |-> t'.val, base |-> t'.val]
      /\ file'.crit = file.crit /\ t'.val.crit = t.val.crit /\ t'.val.status = "running"
      /\ file'.status = "running"
  BY <1>3, <1>4 DEF TaskMoved
<1>7. Shape'
  BY <1>1, <1>2, <1>5, <1>6 DEF Shape, EntryMoved
<1>8. Followed'
  BY <1>2, <1>3 DEF Followed, IsWorker
<1>9. Place'
  BY <1>2, <1>3 DEF Place, Handling, Starting
<1>10. pc' \notin Handling \cup Starting \cup {"reserved", "launched", "collected", "outcome", "idle", "answered", "open_pr", "opened"}
       /\ pc \notin {"reserved", "launched", "idle"}
  BY <1>2 DEF Handling, Starting
<1>11. NoKills => Writer'
  BY <1>1, <1>2, <1>6, <1>10 DEF Writer
<1>12. NoLateEdits => Judged'
  BY <1>1, <1>2, <1>6 DEF Judged
<1>13. NoKills /\ ~ ghost'.commanded => Unbidden'
  BY <1>1, <1>2, <1>5, <1>6, <1>10 DEF Unbidden, PointerIdle, EntryMoved
<1> QED
  BY <1>7, <1>8, <1>9, <1>11, <1>12, <1>13 DEF IInv, NoKills, NoLateEdits

LEMMA AnswerSnapshotStep == ASSUME IInv, AnswerSnapshot PROVE IInv'
<1> DEFINE k == cur.run
           rec == [runs[k] EXCEPT !.crit = 0, !.question = TRUE]
<1>1. /\ Shape /\ Followed /\ Place /\ (NoKills => Writer) /\ (NoLateEdits => Judged)
      /\ (NoKills /\ ~ ghost.commanded => Unbidden)
  BY DEF IInv
<1>2. /\ pc = "answered" /\ pc' = "idle" /\ runs' = [runs EXCEPT ![k].crit = 0, ![k].question = TRUE]
      /\ UNCHANGED <<file, disk, t, mem, cur, op, left, ghost>>
  BY DEF AnswerSnapshot
<1>3. IsWorker(runs, k) /\ runs[k].mode = "resume"
  BY <1>1, <1>2 DEF Place
<1>4. k \in DOMAIN runs /\ runs[k] \in Records
  BY <1>1, <1>3, RunsDomain DEF Shape, IsWorker
<1> HIDE DEF k
<1>5. runs' = [runs EXCEPT ![k] = rec]
  BY <1>2, <1>4
<1>6. /\ rec \in Records /\ rec.mode = runs[k].mode /\ rec.st = runs[k].st /\ rec.fin = runs[k].fin
      /\ rec.pid = runs[k].pid /\ rec.prep = runs[k].prep /\ rec.brief = runs[k].brief
      /\ rec.proc = runs[k].proc /\ rec.crit = 0
  BY <1>4 DEF Records
<1> HIDE DEF rec
<1>7. runs \in Seq(Records)
  BY <1>1 DEF Shape
<1>8. /\ runs' \in Seq(Records) /\ DOMAIN runs' = DOMAIN runs /\ runs'[k] = rec
      /\ \A j \in DOMAIN runs : j # k => runs'[j] = runs[j]
  BY <1>4, <1>5, <1>6, <1>7
<1>9. Alike(runs, runs') /\ \A j \in DOMAIN runs : runs'[j].proc = runs[j].proc
  BY <1>6, <1>8 DEF Alike
<1>10. /\ \A j : IsWorker(runs', j) <=> IsWorker(runs, j)
       /\ \A j : IsActive(runs', j) <=> IsActive(runs, j)
       /\ \A j : IsNewest(runs', j) <=> IsNewest(runs, j)
       /\ NoneActive(runs) <=> NoneActive(runs')
       /\ \A e : EntryOK(runs, e) => EntryOK(runs', e)
       /\ Closed(runs) => Closed(runs')
  BY <1>9, AlikeKeeps
<1>11. Shape'
  BY <1>1, <1>2, <1>8, <1>10 DEF Shape
<1>12. Followed'
  BY <1>1, <1>2, <1>9, <1>10 DEF Followed, Alike
<1>13. Place'
  BY <1>2 DEF Place, Handling, Starting
<1>14. pc \notin Handling \cup Starting /\ pc' \notin Handling \cup Starting
       /\ {pc, pc'} \cap {"reserved", "launched", "collected", "outcome", "open_pr", "opened"} = {}
  BY <1>2 DEF Handling, Starting
<1>15. ASSUME NoKills PROVE Writer'
  <2>1. Writer
    BY <1>1, <1>15
  <2>2. left'.crashes = 0 /\ \A j \in DOMAIN runs' : runs'[j].prep
    BY <1>2, <1>9, <2>1 DEF Writer, Alike
  <2>3. \A j \in DOMAIN runs' :
         IsWorker(runs', j) /\ runs'[j].fin => runs'[j].proc \notin Alive \/ runs'[j].st = "timeout"
    BY <1>9, <1>10, <2>1 DEF Writer, Alike
  <2>4. \A i, j \in DOMAIN runs' : IsActive(runs', i) /\ IsActive(runs', j) => i = j
    BY <1>8, <1>10, <2>1 DEF Writer
  <2>5. \A j \in DOMAIN runs' : ~ (IsWorker(runs', j) /\ runs'[j].st = "preparing")
    BY <1>9, <1>10, <1>14, <2>1 DEF Writer, Alike
  <2>6. file'.status = "waiting_human" => NoneActive(runs')
    BY <1>2, <1>10, <1>14, <2>1 DEF Writer
  <2> QED
    BY <1>14, <2>2, <2>3, <2>4, <2>5, <2>6 DEF Writer
<1>16. ASSUME NoLateEdits PROVE Judged'
  <2>1. Judged
    BY <1>1, <1>16
  <2>2. /\ left.edits = 0 /\ file.crit = 1 /\ t.val.crit = 1 /\ op.val.crit = 1
        /\ \A j \in DOMAIN runs : IsWorker(runs, j) => runs[j].brief = 1 /\ runs[j].crit \in {0, 1}
    BY <1>3, <1>4, <2>1 DEF Judged
  <2>3. \A j \in DOMAIN runs' : IsWorker(runs', j) => runs'[j].brief = 1 /\ runs'[j].crit \in {0, 1}
    BY <1>4, <1>6, <1>8, <1>10, <2>2
  <2> QED
    BY <1>2, <2>1, <2>2, <2>3 DEF Judged
<1>17. ASSUME NoKills, ~ ghost'.commanded PROVE Unbidden'
  <2>1. Unbidden
    BY <1>1, <1>2, <1>17
  <2>2. mem.val.check = disk.check /\ PointerIdle(disk.check)
    BY <1>2, <2>1 DEF Unbidden
  <2>3. \A j \in DOMAIN runs' : IsWorker(runs', j) => runs'[j].st # "closed"
    BY <1>9, <1>10, <2>1 DEF Unbidden, Alike
  <2>4. PointerIdle(disk.check)'
    BY <1>2, <1>10, <2>2 DEF PointerIdle
  <2> QED
    BY <1>2, <1>10, <1>14, <2>1, <2>2, <2>3, <2>4 DEF Unbidden
<1> QED
  BY <1>11, <1>12, <1>13, <1>15, <1>16, <1>17 DEF IInv, NoKills, NoLateEdits

-----------------------------------------------------------------------------
(* Processes, and the commands that stop them.                             *)

LEMMA ProcessesEnd ==
    ASSUME IInv, Alike(runs, runs'), UNCHANGED <<file, disk, t, mem, pc, cur, ghost>>, BudgetKept,
           op'.val = op.val, DOMAIN op' = {"at", "kind", "val", "st"}, op.at = "none" => op'.at = "none",
           \A k \in DOMAIN runs :
             /\ runs'[k].crit = runs[k].crit
             /\ runs'[k].proc = runs[k].proc \/ (runs[k].proc \in Alive /\ runs'[k].proc \notin Alive)
    PROVE  IInv'
<1>1. /\ Shape /\ Followed /\ Place /\ (NoKills => Writer) /\ (NoLateEdits => Judged)
      /\ (NoKills /\ ~ ghost.commanded => Unbidden)
  BY DEF IInv
<1>2. /\ \A j : IsWorker(runs', j) <=> IsWorker(runs, j)
      /\ \A j : IsActive(runs', j) <=> IsActive(runs, j)
      /\ \A j : IsNewest(runs', j) <=> IsNewest(runs, j)
      /\ NoneActive(runs) <=> NoneActive(runs')
      /\ \A e : EntryOK(runs, e) => EntryOK(runs', e)
      /\ Closed(runs) => Closed(runs')
  BY AlikeKeeps
<1>3. runs' \in Seq(Records) /\ DOMAIN runs' = DOMAIN runs
      /\ \A k \in DOMAIN runs :
           /\ runs'[k].mode = runs[k].mode /\ runs'[k].st = runs[k].st /\ runs'[k].fin = runs[k].fin
           /\ runs'[k].pid = runs[k].pid /\ runs'[k].prep = runs[k].prep /\ runs'[k].brief = runs[k].brief
  BY DEF Alike
<1>4. Shape'
  BY <1>1, <1>2, <1>3 DEF Shape, BudgetKept
<1>5. Followed'
  BY <1>1, <1>2, <1>3 DEF Followed
<1>6. Place'
  BY <1>1, <1>2, <1>3 DEF Place, IsWorker, Handling, Starting
<1>7. ASSUME NoKills PROVE Writer'
  <2>1. Writer
    BY <1>1, <1>7
  <2>2. left'.crashes = 0 /\ \A k \in DOMAIN runs' : runs'[k].prep
    BY <1>3, <2>1 DEF Writer, BudgetKept
  <2>3. \A k \in DOMAIN runs' :
         IsWorker(runs', k) /\ runs'[k].fin => runs'[k].proc \notin Alive \/ runs'[k].st = "timeout"
    BY <1>2, <1>3, <2>1 DEF Writer
  <2>4. pc \in Starting => cur.run \in DOMAIN runs
    BY <1>1 DEF Place, IsWorker
  <2>5. pc' = "reserved" => /\ runs'[cur'.run].st = "preparing" /\ ~ runs'[cur'.run].pid
                            /\ runs'[cur'.run].proc = "none" /\ ~ runs'[cur'.run].fin
    BY <1>3, <2>1, <2>4 DEF Writer, Alive, Starting
  <2>6. pc' = "launched" => ~ runs'[cur'.run].pid /\ runs'[cur'.run].st # "running"
    BY <1>3, <2>1, <2>4 DEF Writer, Starting
  <2>7. \A j, k \in DOMAIN runs' : IsActive(runs', j) /\ IsActive(runs', k) => j = k
    BY <1>2, <1>3, <2>1 DEF Writer
  <2>8. \A k \in DOMAIN runs' :
         IsWorker(runs', k) /\ runs'[k].st = "preparing" => pc' \in {"reserved", "launched"} /\ k = cur'.run
    BY <1>2, <1>3, <2>1 DEF Writer
  <2>9. pc' \in {"collected", "outcome"} \cup Starting
         => \A k \in DOMAIN runs' : IsActive(runs', k) => k = cur'.run
    BY <1>2, <1>3, <2>1 DEF Writer
  <2>10. /\ pc' \in Handling \ {"collected", "outcome"} => NoneActive(runs')
         /\ file'.status = "waiting_human" /\ pc' \notin Starting => NoneActive(runs')
    BY <1>2, <2>1 DEF Writer
  <2> QED
    BY <2>2, <2>3, <2>5, <2>6, <2>7, <2>8, <2>9, <2>10 DEF Writer
<1>8. ASSUME NoLateEdits PROVE Judged'
  <2>1. Judged /\ left'.answers = left.answers /\ left'.edits = left.edits
    BY <1>1, <1>8 DEF BudgetKept
  <2>2. \A j \in DOMAIN runs' : IsWorker(runs', j) =>
          /\ j \in DOMAIN runs /\ IsWorker(runs, j) /\ runs'[j].mode = runs[j].mode
          /\ runs'[j].crit = runs[j].crit /\ runs'[j].brief = runs[j].brief
    BY <1>2, <1>3
  <2> QED
    BY <2>1, <2>2, JudgedKept
<1>9. ASSUME NoKills, ~ ghost'.commanded PROVE Unbidden'
  <2>1. Unbidden
    BY <1>1, <1>9
  <2>2. \A j \in DOMAIN runs' : IsWorker(runs', j) => runs'[j].st # "closed"
    BY <1>2, <1>3, <2>1 DEF Unbidden
  <2>3. pc \in Starting => runs'[cur.run].mode = runs[cur.run].mode
    BY <1>1, <1>3 DEF Place, IsWorker
  <2> QED
    BY <1>2, <2>1, <2>2, <2>3 DEF Unbidden, PointerIdle
<1> QED
  BY <1>4, <1>5, <1>6, <1>7, <1>8, <1>9 DEF IInv, NoKills, NoLateEdits

\* One process ends.
LEMMA ProcessEnded ==
    ASSUME IInv, NEW k \in DOMAIN runs, NEW rec \in Records, runs' = [runs EXCEPT ![k] = rec],
           rec.mode = runs[k].mode, rec.st = runs[k].st, rec.fin = runs[k].fin, rec.pid = runs[k].pid,
           rec.prep = runs[k].prep, rec.brief = runs[k].brief, rec.crit = runs[k].crit,
           runs[k].proc \in Alive, rec.proc \notin Alive,
           UNCHANGED <<file, disk, t, mem, pc, cur, op, ghost>>, BudgetKept
    PROVE  IInv'
<1>1. Shape /\ runs \in Seq(Records) /\ DOMAIN op = {"at", "kind", "val", "st"}
  BY DEF IInv, Shape
<1>2. /\ runs' \in Seq(Records) /\ DOMAIN runs' = DOMAIN runs /\ runs'[k] = rec
      /\ \A j \in DOMAIN runs : j # k => runs'[j] = runs[j]
  BY <1>1, RunSet
<1>3. Alike(runs, runs')
  BY <1>2 DEF Alike
<1>4. \A j \in DOMAIN runs :
        /\ runs'[j].crit = runs[j].crit
        /\ runs'[j].proc = runs[j].proc \/ (runs[j].proc \in Alive /\ runs'[j].proc \notin Alive)
  BY <1>2
<1> QED
  BY <1>1, <1>3, <1>4, ProcessesEnd

LEMMA ProcessSteps ==
    ASSUME IInv, NEW k \in DOMAIN runs,
           \/ \E result : ProcessEnds(k, result)
           \/ ProcessVanishes(k) \/ ProcessDies(k)
    PROVE  IInv'
<1>1. Shape /\ left \in BoundSet /\ runs[k] \in Records /\ UNCHANGED <<file, disk, t, mem, pc, cur, op, ghost>>
  BY RunsDomain DEF IInv, Shape, ProcessEnds, ProcessVanishes, ProcessDies
<1>2. CASE \E result : ProcessEnds(k, result)
  <2>1. PICK result : ProcessEnds(k, result)
    BY <1>2
  <2>2. /\ runs[k].proc \in Alive /\ runs' = [runs EXCEPT ![k].proc = "exited", ![k].res = result]
        /\ result \in {"none", "done", "gaps", "failed", "blocked", "needs_input", "env_error",
                       "pass", "fail", "norun"}
    BY <2>1 DEF ProcessEnds, Alive
  <2>3. PICK e \in Nat : left' = [left EXCEPT !.env = e]
    <3>1. /\ result = "env_error" => left.env > 0
          /\ left' = [left EXCEPT !.env = @ - (IF result = "env_error" THEN 1 ELSE 0)]
      BY <2>1 DEF ProcessEnds
    <3>2. left.env \in Nat
      BY <1>1 DEF BoundSet
    <3>3. left.env - (IF result = "env_error" THEN 1 ELSE 0) \in Nat
      BY <3>1, <3>2
    <3> QED
      BY <3>1, <3>3
  <2>4. BudgetKept
    BY <1>1, <2>3 DEF BudgetKept, BoundSet
  <2>5. PICK rec : rec = [runs[k] EXCEPT !.proc = "exited", !.res = result]
    OBVIOUS
  <2>6. runs' = [runs EXCEPT ![k] = rec]
    BY <2>2, <2>5
  <2>7. /\ rec \in Records /\ rec.mode = runs[k].mode /\ rec.st = runs[k].st /\ rec.fin = runs[k].fin
        /\ rec.pid = runs[k].pid /\ rec.prep = runs[k].prep /\ rec.brief = runs[k].brief
        /\ rec.crit = runs[k].crit /\ rec.proc \notin Alive
    BY <1>1, <2>2, <2>5 DEF Records, Alive
  <2> QED
    BY <1>1, <2>2, <2>4, <2>6, <2>7, ProcessEnded
<1>3. CASE ProcessVanishes(k)
  <2>1. PICK result \in {"norun", "failed", "done"} : runs' = [runs EXCEPT ![k].proc = "gone", ![k].res = result]
    BY <1>3 DEF ProcessVanishes
  <2>2. runs[k].proc \in Alive
    BY <1>3 DEF ProcessVanishes, Alive
  <2>3. PICK e \in Nat : left' = [left EXCEPT !.vanish = e]
    <3>1. left.vanish \in Nat
      BY <1>1 DEF BoundSet
    <3> QED
      <4>1. left.vanish > 0 /\ left' = [left EXCEPT !.vanish = @ - 1]
        BY <1>3 DEF ProcessVanishes
      <4>2. left.vanish - 1 \in Nat
        BY <3>1, <4>1
      <4> QED
        BY <4>1, <4>2
  <2>4. BudgetKept
    BY <1>1, <2>3 DEF BudgetKept, BoundSet
  <2>5. PICK rec : rec = [runs[k] EXCEPT !.proc = "gone", !.res = result]
    OBVIOUS
  <2>6. runs' = [runs EXCEPT ![k] = rec]
    BY <2>1, <2>5
  <2>7. /\ rec \in Records /\ rec.mode = runs[k].mode /\ rec.st = runs[k].st /\ rec.fin = runs[k].fin
        /\ rec.pid = runs[k].pid /\ rec.prep = runs[k].prep /\ rec.brief = runs[k].brief
        /\ rec.crit = runs[k].crit /\ rec.proc \notin Alive
    BY <1>1, <2>1, <2>5 DEF Records, Alive
  <2> QED
    BY <1>1, <2>2, <2>4, <2>6, <2>7, ProcessEnded
<1>4. CASE ProcessDies(k)
  <2>1. runs[k].proc \in Alive /\ runs' = [runs EXCEPT ![k].proc = "gone"] /\ left' = left
    BY <1>4 DEF ProcessDies, Alive
  <2>2. PICK result \in {"none", "done", "gaps", "failed", "blocked", "needs_input", "env_error",
                         "pass", "fail", "norun"} : result = runs[k].res
    BY <1>1 DEF Records
  <2>3. PICK rec : rec = [runs[k] EXCEPT !.proc = "gone", !.res = result]
    OBVIOUS
  <2>4. runs' = [runs EXCEPT ![k] = rec]
    BY <1>1, <2>1, <2>2, <2>3 DEF Records
  <2>5. BudgetKept
    BY <2>1, Still
  <2>6. /\ rec \in Records /\ rec.mode = runs[k].mode /\ rec.st = runs[k].st /\ rec.fin = runs[k].fin
        /\ rec.pid = runs[k].pid /\ rec.prep = runs[k].prep /\ rec.brief = runs[k].brief
        /\ rec.crit = runs[k].crit /\ rec.proc \notin Alive
    BY <1>1, <2>2, <2>3 DEF Records, Alive
  <2> QED
    BY <1>1, <2>1, <2>4, <2>5, <2>6, ProcessEnded
<1> QED
  BY <1>2, <1>3, <1>4

\* A write of another process to the task file or the state, between two steps
\* of a pass.
LEMMA OutsideStep ==
    ASSUME IInv, UNCHANGED <<runs, t, mem, pc, cur>>, file' \in Tasks, op'.val \in Tasks,
           DOMAIN op' = {"at", "kind", "val", "st"}, EntryOK(runs, disk'), left' \in BoundSet,
           left'.crashes = left.crashes, ghost' \in Ghosts,
           file'.status \in {"running", "waiting_human"} => file'.status = file.status,
           \/ NoKills => ghost'.commanded
           \/ /\ ghost'.commanded = ghost.commanded /\ file'.status = file.status
              /\ UNCHANGED <<disk, op>>,
           NoLateEdits => Judged'
    PROVE  IInv'
<1>1. /\ Shape /\ Followed /\ Place /\ (NoKills => Writer)
      /\ (NoKills /\ ~ ghost.commanded => Unbidden)
  BY DEF IInv
<1>2. Shape'
  BY <1>1 DEF Shape, Ghosts
<1>3. Followed'
  BY <1>1 DEF Followed
<1>4. Place'
  BY <1>1 DEF Place
<1>5. NoKills => Writer'
  BY <1>1 DEF Writer
<1>6. ASSUME NoKills, ~ ghost'.commanded PROVE Unbidden'
  <2>1. UNCHANGED <<disk, op>> /\ file'.status = file.status /\ Unbidden
    BY <1>1, <1>6
  <2> QED
    BY <2>1 DEF Unbidden, PointerIdle
<1> QED
  BY <1>2, <1>3, <1>4, <1>5, <1>6 DEF IInv, NoKills, NoLateEdits

LEMMA EditCriteriaStep == ASSUME IInv, EditCriteria PROVE IInv'
<1>1. Shape /\ (NoLateEdits => Judged) /\ file \in Tasks /\ left \in BoundSet /\ ghost \in Ghosts
  BY DEF IInv, Shape, Ghosts
<1>2. /\ left.edits > 0 /\ file' = [file EXCEPT !.crit = @ + 1]
      /\ left' = [left EXCEPT !.edits = @ - 1] /\ ghost' = [ghost EXCEPT !.edits = @ + 1]
      /\ UNCHANGED <<disk, runs, t, mem, pc, cur, op>>
  BY DEF EditCriteria
<1>3. PICK n \in Nat \ {0} : file' = [file EXCEPT !.crit = n]
  <2>1. file.crit + 1 \in Nat \ {0}
    BY <1>1 DEF Tasks
  <2> QED
    BY <1>2, <2>1
<1>4. PICK e \in Nat : left' = [left EXCEPT !.edits = e]
  <2>1. left.edits - 1 \in Nat
    BY <1>1, <1>2 DEF BoundSet
  <2> QED
    BY <1>2, <2>1
<1>5. PICK g \in Nat : ghost' = [ghost EXCEPT !.edits = g]
  <2>1. ghost.edits + 1 \in Nat
    BY <1>1 DEF Ghosts
  <2> QED
    BY <1>2, <2>1
<1>6. file' \in Tasks /\ file'.status = file.status
  BY <1>1, <1>3 DEF Tasks
<1>7. left' \in BoundSet /\ left'.crashes = left.crashes /\ left'.answers = left.answers
  BY <1>1, <1>4 DEF BoundSet
<1>8. ghost' \in Ghosts /\ ghost'.commanded = ghost.commanded /\ ghost'.moved = ghost.moved
  BY <1>1, <1>5 DEF Ghosts
<1>9. ASSUME NoLateEdits PROVE Judged'
  <2>1. Judged /\ left.edits # 0
    BY <1>1, <1>2, <1>9 DEF BoundSet
  <2> QED
    BY <1>2, <1>7, <1>8, <2>1 DEF Judged
<1>10. op'.val \in Tasks /\ DOMAIN op' = {"at", "kind", "val", "st"} /\ EntryOK(runs, disk')
  BY <1>1, <1>2 DEF Shape
<1> QED
  BY <1>2, <1>6, <1>7, <1>8, <1>9, <1>10, OutsideStep

LEMMA CommandLoadsStep == ASSUME IInv, NEW kind, CommandLoads(kind) PROVE IInv'
<1>1. Shape /\ (NoLateEdits => Judged) /\ file \in Tasks /\ left \in BoundSet /\ ghost \in Ghosts
      /\ EntryOK(runs, disk)
  BY DEF IInv, Shape, Ghosts
<1>2. /\ left.commands > 0 /\ op' = [at |-> "loaded", kind |-> kind, val |-> file, st |-> disk]
      /\ left' = [left EXCEPT !.commands = @ - 1] /\ ghost' = [ghost EXCEPT !.commanded = TRUE]
      /\ UNCHANGED <<file, disk, runs, t, mem, pc, cur>>
  BY DEF CommandLoads
<1>3. PICK e \in Nat : left' = [left EXCEPT !.commands = e]
  <2>1. left.commands - 1 \in Nat
    BY <1>1, <1>2 DEF BoundSet
  <2> QED
    BY <1>2, <2>1
<1>4. /\ left' \in BoundSet /\ left'.crashes = left.crashes /\ left'.answers = left.answers
      /\ left'.edits = left.edits
  BY <1>1, <1>3 DEF BoundSet
<1>5. ghost' \in Ghosts /\ ghost'.commanded /\ ghost'.moved = ghost.moved
  BY <1>1, <1>2 DEF Ghosts
<1>6. op'.val = file /\ DOMAIN op' = {"at", "kind", "val", "st"}
  BY <1>2
<1>7. NoLateEdits => Judged'
  BY <1>1, <1>2, <1>4, <1>5, <1>6 DEF Judged
<1> QED
  BY <1>1, <1>2, <1>4, <1>5, <1>6, <1>7, OutsideStep

\* A command that is under way was typed.
LEMMA Commanded == ASSUME IInv, NoKills, op.at # "none" PROVE ghost.commanded
  BY DEF IInv, Unbidden

LEMMA OpMoves ==
    ASSUME Shape, NEW at, op' = [op EXCEPT !.at = at]
    PROVE  op'.val = op.val /\ op'.val \in Tasks /\ DOMAIN op' = {"at", "kind", "val", "st"} /\ op'.at = at
<1>1. DOMAIN op = {"at", "kind", "val", "st"} /\ op.val \in Tasks
  BY DEF Shape
<1> QED
  BY <1>1

LEMMA CommandTransitionStep == ASSUME IInv, CommandTransition PROVE IInv'
<1>1. Shape /\ (NoLateEdits => Judged) /\ file \in Tasks /\ op.val \in Tasks /\ ghost \in Ghosts
      /\ left \in BoundSet /\ EntryOK(runs, disk)
  BY DEF IInv, Shape, Ghosts
<1>2. /\ op.at = "stopped" /\ op' = [op EXCEPT !.at = "moved"]
      /\ ghost' = [ghost EXCEPT !.cancelled = @ \/ op.kind = "cancel"]
      /\ UNCHANGED <<disk, runs, t, mem, pc, cur, left>>
  BY DEF CommandTransition
<1>3. PICK new \in Tasks : /\ file' = MergeTask(op.val, new, file) /\ new.crit = op.val.crit
                           /\ new.status \in {"cancelled", "changes_requested", "ready"}
  <2> DEFINE n == CASE op.kind = "cancel" -> [op.val EXCEPT !.status = "cancelled"]
                      [] op.kind = "retry" /\ RetriesRevision ->
                           [op.val EXCEPT !.status = "changes_requested"]
                      [] OTHER -> [op.val EXCEPT !.status = "ready", !.attempts = 0]
  <2>1. file' = MergeTask(op.val, n, file)
    BY DEF CommandTransition
  <2>2. \/ n = [op.val EXCEPT !.status = "cancelled"]
        \/ n = [op.val EXCEPT !.status = "changes_requested"]
        \/ n = [op.val EXCEPT !.status = "ready", !.attempts = 0]
    OBVIOUS
  <2> HIDE DEF n
  <2>3. /\ n \in Tasks /\ n.crit = op.val.crit
        /\ n.status \in {"cancelled", "changes_requested", "ready"}
    <3>1. CASE n = [op.val EXCEPT !.status = "cancelled"]
      BY <1>1, <3>1 DEF Tasks, Statuses
    <3>2. CASE n = [op.val EXCEPT !.status = "changes_requested"]
      BY <1>1, <3>2 DEF Tasks, Statuses
    <3>3. CASE n = [op.val EXCEPT !.status = "ready", !.attempts = 0]
      <4>1. PICK v : v = [op.val EXCEPT !.status = "ready"]
        OBVIOUS
      <4>2. v \in Tasks /\ v.crit = op.val.crit /\ v.status = "ready"
        BY <1>1, <4>1 DEF Tasks, Statuses
      <4>3. n = [v EXCEPT !.attempts = 0]
        BY <3>3, <4>1
      <4> QED
        BY <4>2, <4>3 DEF Tasks
    <3> QED
      BY <2>2, <3>1, <3>2, <3>3
  <2> QED
    BY <2>1, <2>3
<1>4. /\ file' \in Tasks /\ file'.crit = file.crit
      /\ file'.status = IF new.status # op.val.status THEN new.status ELSE file.status
  BY <1>1, <1>3, MergeTaskIs
<1>5. PICK b \in BOOLEAN : ghost' = [ghost EXCEPT !.cancelled = b]
  <2>1. (ghost.cancelled \/ op.kind = "cancel") \in BOOLEAN
    OBVIOUS
  <2> QED
    BY <1>2, <2>1
<1>6. ghost' \in Ghosts /\ ghost'.commanded = ghost.commanded /\ ghost'.moved = ghost.moved
  BY <1>1, <1>5 DEF Ghosts
<1>7. op'.val = op.val /\ op'.val \in Tasks /\ DOMAIN op' = {"at", "kind", "val", "st"}
  BY <1>1, <1>2, OpMoves
<1>8. NoLateEdits => Judged'
  BY <1>1, <1>2, <1>4, <1>6, <1>7 DEF Judged
<1>9. NoKills => ghost'.commanded
  BY <1>2, <1>6, Commanded
<1>10. file'.status \in {"running", "waiting_human"} => file'.status = file.status
  BY <1>3, <1>4
<1> QED
  BY <1>1, <1>2, <1>4, <1>6, <1>7, <1>8, <1>9, <1>10, OutsideStep

LEMMA CommandSavesStep == ASSUME IInv, CommandSaves PROVE IInv'
<1>1. Shape /\ (NoLateEdits => Judged) /\ file \in Tasks /\ ghost \in Ghosts
      /\ left \in BoundSet /\ EntryOK(runs, disk)
  BY DEF IInv, Shape, Ghosts
<1>2. /\ op.at = "moved" /\ op' = [op EXCEPT !.at = "none"]
      /\ UNCHANGED <<file, runs, t, mem, pc, cur, left, ghost>>
  BY DEF CommandSaves
<1>3. PICK upd : /\ "check" \in DOMAIN upd => upd["check"] = NoCheckRun
                 /\ "rebase" \notin DOMAIN upd
                 /\ disk' = [k \in DOMAIN disk |-> IF k \in {j \in DOMAIN upd : upd[j] # op.st[j]}
                                                   THEN upd[k] ELSE disk[k]]
  <2> DEFINE upd == IF op.kind = "cancel"
                      THEN [human |-> FALSE, feedback |-> FALSE, check |-> NoCheckRun]
                    ELSE IF RetriesRevision
                      THEN [human |-> FALSE, feedback |-> TRUE,
                            revisions |-> IF op.st.revisions >= MaxRevisions
                                            THEN MaxRevisions - 1 ELSE op.st.revisions]
                    ELSE [human |-> FALSE]
  <2>1. disk' = [k \in DOMAIN disk |-> IF k \in {j \in DOMAIN upd : upd[j] # op.st[j]}
                                       THEN upd[k] ELSE disk[k]]
    BY DEF CommandSaves
  <2>2. /\ "check" \in DOMAIN upd => upd["check"] = NoCheckRun
        /\ "rebase" \notin DOMAIN upd
    OBVIOUS
  <2> QED
    BY <2>1, <2>2
<1>4. /\ DOMAIN disk' = Keys /\ disk'.rebase = disk.rebase
      /\ disk'.check = disk.check \/ disk'.check = NoCheckRun
  BY <1>1, <1>3 DEF EntryOK, Keys
<1>5. EntryOK(runs, disk')
  BY <1>1, <1>4, NoPointerOK DEF EntryOK
<1>6. op'.val = op.val /\ op'.val \in Tasks /\ DOMAIN op' = {"at", "kind", "val", "st"}
  BY <1>1, <1>2, OpMoves
<1>7. NoLateEdits => Judged'
  BY <1>1, <1>2, <1>6 DEF Judged
<1>8. NoKills => ghost'.commanded
  BY <1>2, Commanded
<1> QED
  BY <1>1, <1>2, <1>5, <1>6, <1>7, <1>8, OutsideStep

LEMMA RunsMapped ==
    ASSUME NEW rs \in Seq(Records), NEW ss \in [DOMAIN rs -> Records]
    PROVE  ss \in Seq(Records) /\ DOMAIN ss = DOMAIN rs
<1>1. Len(rs) \in Nat /\ DOMAIN rs = 1..Len(rs)
  BY RunsDomain
<1>2. ss \in [1..Len(rs) -> Records]
  BY <1>1
<1> QED
  BY <1>1, <1>2, SeqDef

\* Run.stop changes a record's process and nothing else of it.
LEMMA StoppedIs ==
    ASSUME NEW r \in Records
    PROVE  /\ Stopped(r) \in Records /\ Stopped(r).mode = r.mode /\ Stopped(r).st = r.st
           /\ Stopped(r).fin = r.fin /\ Stopped(r).pid = r.pid /\ Stopped(r).prep = r.prep
           /\ Stopped(r).brief = r.brief /\ Stopped(r).crit = r.crit
           /\ Stopped(r).proc = r.proc \/ (r.proc \in Alive /\ Stopped(r).proc \notin Alive)
           /\ r.pid => Stopped(r).proc \notin Alive
<1>1. CASE r.pid /\ r.proc \in Alive
  <2>1. PICK res \in {"norun", "failed"} : Stopped(r) = [r EXCEPT !.proc = "gone", !.res = res]
    BY <1>1 DEF Stopped, Alive
  <2> QED
    BY <1>1, <2>1 DEF Records, Alive
<1>2. CASE ~ (r.pid /\ r.proc \in Alive)
  <2>1. Stopped(r) = r
    BY <1>2 DEF Stopped, Alive
  <2> QED
    BY <1>2, <2>1
<1> QED
  BY <1>1, <1>2

LEMMA CommandRefusedStep == ASSUME IInv, CommandRefused PROVE IInv'
<1>1. Shape /\ runs \in Seq(Records) /\ \A j \in DOMAIN runs : runs[j] \in Records
  BY RunsDomain DEF IInv, Shape
<1>2. op.at = "loaded" /\ op' = [op EXCEPT !.at = "none"]
      /\ UNCHANGED <<file, disk, t, mem, pc, cur, left, ghost>>
  BY DEF CommandRefused
<1>3. PICK S : runs' = [j \in DOMAIN runs |-> IF j \in S THEN Stopped(runs[j]) ELSE runs[j]]
  <2>1. PICK k : runs' = [j \in DOMAIN runs |->
                            IF j \in ActiveRuns /\ j < k THEN Stopped(runs[j]) ELSE runs[j]]
    BY DEF CommandRefused
  <2> DEFINE S == {j \in ActiveRuns : j < k}
  <2>2. runs' = [j \in DOMAIN runs |-> IF j \in S THEN Stopped(runs[j]) ELSE runs[j]]
    BY <2>1
  <2> QED
    BY <2>2
<1>4. /\ runs' = [j \in DOMAIN runs |-> runs'[j]] /\ DOMAIN runs' = DOMAIN runs
      /\ \A j \in DOMAIN runs : runs'[j] = Stopped(runs[j]) \/ runs'[j] = runs[j]
  BY <1>3
<1>5. \A j \in DOMAIN runs :
        /\ runs'[j] \in Records
        /\ runs'[j].mode = runs[j].mode /\ runs'[j].st = runs[j].st /\ runs'[j].fin = runs[j].fin
        /\ runs'[j].pid = runs[j].pid /\ runs'[j].prep = runs[j].prep /\ runs'[j].brief = runs[j].brief
        /\ runs'[j].crit = runs[j].crit
        /\ runs'[j].proc = runs[j].proc \/ (runs[j].proc \in Alive /\ runs'[j].proc \notin Alive)
  BY <1>1, <1>4, StoppedIs
<1>6. runs' \in [DOMAIN runs -> Records]
  BY <1>4, <1>5
<1>7. Alike(runs, runs')
  BY <1>1, <1>5, <1>6, RunsMapped DEF Alike
<1>8. op'.val = op.val /\ DOMAIN op' = {"at", "kind", "val", "st"} /\ (op.at = "none" => op'.at = "none")
  BY <1>1, <1>2, OpMoves
<1>9. BudgetKept
  BY <1>1, <1>2 DEF BudgetKept, Shape
<1> QED
  BY <1>2, <1>5, <1>7, <1>8, <1>9, ProcessesEnd

\* A command that stops the task's processes ends every active run; it waits
\* for a reservation to have a process it can stop.
LEMMA CommandStopsStep == ASSUME IInv, CommandStops PROVE IInv'
<1>1. /\ Shape /\ Followed /\ Place /\ (NoKills => Writer) /\ (NoLateEdits => Judged)
      /\ runs \in Seq(Records) /\ \A j \in DOMAIN runs : runs[j] \in Records
  BY RunsDomain DEF IInv, Shape
<1>2. /\ op.at = "loaded" /\ op' = [op EXCEPT !.at = "stopped"]
      /\ UNCHANGED <<file, disk, t, mem, pc, cur, left, ghost>>
      /\ \A k \in ActiveRuns : Stoppable(k)
  BY DEF CommandStops
<1>3. /\ runs' = [k \in DOMAIN runs |-> IF k \notin ActiveRuns THEN runs[k]
                    ELSE [Stopped(runs[k]) EXCEPT !.st = "cancelled", !.fin = TRUE]]
  BY DEF CommandStops
<1>4. \A k \in DOMAIN runs :
        IF runs[k].st \in Active
          THEN runs'[k] = [Stopped(runs[k]) EXCEPT !.st = "cancelled", !.fin = TRUE]
               /\ (runs[k].pid \/ runs[k].proc = "exited")
          ELSE runs'[k] = runs[k]
  BY <1>2, <1>3 DEF ActiveRuns, Stoppable
<1>5. ASSUME NEW k \in DOMAIN runs, runs[k].st \in Active
      PROVE  /\ runs'[k] \in Records /\ runs'[k].mode = runs[k].mode /\ runs'[k].pid = runs[k].pid
             /\ runs'[k].prep = runs[k].prep /\ runs'[k].brief = runs[k].brief /\ runs'[k].crit = runs[k].crit
             /\ runs'[k].st = "cancelled" /\ runs'[k].fin /\ runs'[k].proc \notin Alive
  <2>1. PICK r : r = Stopped(runs[k])
    OBVIOUS
  <2>2. runs'[k] = [r EXCEPT !.st = "cancelled", !.fin = TRUE] /\ (runs[k].pid \/ runs[k].proc = "exited")
    BY <1>4, <1>5, <2>1
  <2>3. /\ r \in Records /\ r.mode = runs[k].mode /\ r.pid = runs[k].pid /\ r.prep = runs[k].prep
        /\ r.brief = runs[k].brief /\ r.crit = runs[k].crit
        /\ r.proc = runs[k].proc \/ r.proc \notin Alive
        /\ runs[k].pid => r.proc \notin Alive
    BY <1>1, <2>1, StoppedIs
  <2>4. r.proc \notin Alive
    BY <2>2, <2>3 DEF Alive
  <2>5. PICK v : v = runs'[k]
    OBVIOUS
  <2>6. v = [r EXCEPT !.st = "cancelled", !.fin = TRUE]
    BY <2>2, <2>5
  <2>7. /\ v \in Records /\ v.mode = r.mode /\ v.pid = r.pid /\ v.prep = r.prep /\ v.brief = r.brief
        /\ v.crit = r.crit /\ v.proc = r.proc /\ v.st = "cancelled" /\ v.fin
    BY <2>3, <2>6 DEF Records, Closings
  <2> QED
    BY <2>3, <2>4, <2>5, <2>7
<1>6. ASSUME NEW k \in DOMAIN runs, runs[k].st \notin Active
      PROVE  runs'[k] = runs[k]
  BY <1>4, <1>6
<1>7. runs' \in Seq(Records) /\ DOMAIN runs' = DOMAIN runs
  <2>1. runs' = [k \in DOMAIN runs |-> runs'[k]]
    BY <1>3
  <2>2. \A k \in DOMAIN runs : runs'[k] \in Records
    BY <1>1, <1>5, <1>6
  <2>3. runs' \in [DOMAIN runs -> Records]
    BY <2>1, <2>2
  <2> QED
    BY <1>1, <2>3, RunsMapped
<1>8. Later(runs, runs')
  <2>1. \A k \in DOMAIN runs : Grows(runs[k], runs'[k])
    BY <1>5, <1>6 DEF Grows, Closings
  <2> QED
    BY <1>7, <2>1 DEF Later
<1>9. /\ \A k : IsWorker(runs', k) <=> IsWorker(runs, k)
      /\ \A k : IsNewest(runs, k) => IsNewest(runs', k)
      /\ \A e : EntryOK(runs, e) => EntryOK(runs', e)
      /\ Closed(runs) => Closed(runs')
  BY <1>8, LaterKeeps
<1>10. \A k \in DOMAIN runs : runs'[k].st \notin Active /\ (runs'[k].st = runs[k].st \/ runs'[k].st = "cancelled")
  BY <1>5, <1>6 DEF Active
<1>11. NoneActive(runs')
  BY <1>7, <1>10 DEF NoneActive, IsActive
<1>12. op'.val = op.val /\ op'.val \in Tasks /\ DOMAIN op' = {"at", "kind", "val", "st"}
  BY <1>1, <1>2, OpMoves
<1>13. Shape'
  BY <1>1, <1>2, <1>7, <1>9, <1>12 DEF Shape
<1>14. Followed'
  BY <1>1, <1>2, <1>7, <1>9, <1>10 DEF Followed, Active
<1>15. \A k \in DOMAIN runs : runs'[k].mode = runs[k].mode /\ (runs[k].fin => runs'[k].fin)
  BY <1>8 DEF Later, Grows
<1>16. Place'
  BY <1>1, <1>2, <1>9, <1>10, <1>15 DEF Place, IsWorker, Handling, Starting, Active
<1>17. ASSUME NoKills PROVE Writer'
  <2>1. Writer
    BY <1>1, <1>17
  <2>2. pc \in Starting => cur.run \in DOMAIN runs
    BY <1>1 DEF Place, IsWorker
  <2>3. pc # "reserved"
    <3> SUFFICES ASSUME pc = "reserved" PROVE FALSE
      OBVIOUS
    <3>1. /\ cur.run \in DOMAIN runs /\ runs[cur.run].st = "preparing" /\ ~ runs[cur.run].pid
          /\ runs[cur.run].proc = "none"
      BY <2>1, <2>2 DEF Writer, Starting
    <3> QED
      BY <1>4, <3>1 DEF Active
  <2>4. pc = "launched" => ~ runs'[cur.run].pid /\ runs'[cur.run].st # "running"
    <3> SUFFICES ASSUME pc = "launched" PROVE ~ runs'[cur.run].pid /\ runs'[cur.run].st # "running"
      OBVIOUS
    <3>1. cur.run \in DOMAIN runs /\ ~ runs[cur.run].pid
      BY <2>1, <2>2 DEF Writer, Starting
    <3> QED
      BY <1>5, <1>6, <1>10, <3>1 DEF Active
  <2>5. \A k \in DOMAIN runs' : runs'[k].prep
    BY <1>5, <1>6, <1>7, <2>1 DEF Writer
  <2>6. \A k \in DOMAIN runs' :
         IsWorker(runs', k) /\ runs'[k].fin => runs'[k].proc \notin Alive \/ runs'[k].st = "timeout"
    BY <1>5, <1>6, <1>7, <1>9, <2>1 DEF Writer
  <2>7. \A k \in DOMAIN runs' : ~ IsActive(runs', k) /\ runs'[k].st # "preparing"
    BY <1>7, <1>10 DEF IsActive, Active
  <2>8. left'.crashes = 0
    BY <1>2, <2>1 DEF Writer
  <2> QED
    BY <1>2, <1>11, <2>3, <2>4, <2>5, <2>6, <2>7, <2>8 DEF Writer
<1>18. ASSUME NoLateEdits PROVE Judged'
  <2>1. Judged
    BY <1>1, <1>18
  <2>2. \A j \in DOMAIN runs' : IsWorker(runs', j) =>
          /\ j \in DOMAIN runs /\ IsWorker(runs, j) /\ runs'[j].mode = runs[j].mode
          /\ runs'[j].crit = runs[j].crit /\ runs'[j].brief = runs[j].brief
    BY <1>7, <1>8, <1>9 DEF Later, Grows
  <2> QED
    BY <1>2, <1>12, <2>1, <2>2, JudgedKept
<1>19. NoKills => ghost'.commanded
  BY <1>2, Commanded
<1> QED
  BY <1>13, <1>14, <1>16, <1>17, <1>18, <1>19 DEF IInv, NoKills, NoLateEdits

\* A kill of the controller forgets its copies; what it wrote stays.
LEMMA CrashStep == ASSUME IInv, Crash PROVE IInv'
<1>1. /\ Shape /\ Followed /\ (NoKills => Writer) /\ (NoLateEdits => Judged)
      /\ runs \in Seq(Records) /\ \A j \in DOMAIN runs : runs[j] \in Records
  BY RunsDomain DEF IInv, Shape
<1>2. /\ left.crashes > 0 /\ runs' = [k \in DOMAIN runs |-> [runs[k] EXCEPT !.prep = FALSE]]
      /\ t' = [val |-> file, base |-> file] /\ mem' = Clean(disk) /\ cur' = Nothing
      /\ left' = [left EXCEPT !.crashes = @ - 1] /\ pc' = "idle"
      /\ UNCHANGED <<file, disk, op, ghost>>
  BY DEF Crash
<1>3. ~ NoKills
  BY <1>1, <1>2 DEF Writer
<1>4. PICK e \in Nat : left' = [left EXCEPT !.crashes = e]
  <2>1. left \in BoundSet /\ left.crashes \in Nat
    BY <1>1 DEF Shape, BoundSet
  <2>2. left.crashes - 1 \in Nat
    BY <1>2, <2>1
  <2> QED
    BY <1>2, <2>2
<1>5. left' \in BoundSet /\ left'.answers = left.answers /\ left'.edits = left.edits
  BY <1>1, <1>4 DEF Shape, BoundSet
<1>6. \A k \in DOMAIN runs :
        /\ runs'[k] \in Records /\ runs'[k].mode = runs[k].mode /\ runs'[k].st = runs[k].st
        /\ runs'[k].fin = runs[k].fin /\ runs'[k].brief = runs[k].brief /\ runs'[k].crit = runs[k].crit
  <2> TAKE k \in DOMAIN runs
  <2>1. PICK v : v = runs'[k]
    OBVIOUS
  <2>2. v = [runs[k] EXCEPT !.prep = FALSE]
    BY <1>2, <2>1
  <2>3. /\ v \in Records /\ v.mode = runs[k].mode /\ v.st = runs[k].st
        /\ v.fin = runs[k].fin /\ v.brief = runs[k].brief /\ v.crit = runs[k].crit
    BY <1>1, <2>2 DEF Records
  <2> QED
    BY <2>1, <2>3
<1>7. runs' \in Seq(Records) /\ DOMAIN runs' = DOMAIN runs
  <2>1. runs' = [k \in DOMAIN runs |-> runs'[k]]
    BY <1>2
  <2>2. runs' \in [DOMAIN runs -> Records]
    BY <1>6, <2>1
  <2> QED
    BY <1>1, <2>2, RunsMapped
<1>8. \A k : IsWorker(runs', k) <=> IsWorker(runs, k)
  BY <1>6, <1>7 DEF IsWorker
<1>9. EntryOK(runs', disk) /\ Closed(runs')
  BY <1>1, <1>6, <1>7, <1>8 DEF Shape, EntryOK, PointerOK, Closed
<1>10. t'.val = file /\ mem'.val = disk /\ mem' = [val |-> mem'.val, dirty |-> mem'.dirty]
  BY <1>2 DEF Clean
<1>11. cur' \in Curs
  BY <1>2 DEF Curs, Nothing
<1>12. Shape'
  BY <1>1, <1>2, <1>5, <1>7, <1>9, <1>10, <1>11 DEF Shape, Curs
<1>13. Followed'
  BY <1>1, <1>2, <1>6, <1>7, <1>8 DEF Followed, IsNewest
<1>14. Place'
  BY <1>2 DEF Place, Handling, Starting
<1>15. ASSUME NoLateEdits PROVE Judged'
  <2>1. Judged
    BY <1>1, <1>15
  <2>2. \A j \in DOMAIN runs' : IsWorker(runs', j) =>
          /\ j \in DOMAIN runs /\ IsWorker(runs, j) /\ runs'[j].mode = runs[j].mode
          /\ runs'[j].crit = runs[j].crit /\ runs'[j].brief = runs[j].brief
    BY <1>6, <1>7, <1>8
  <2>3. file' = file /\ op' = op /\ ghost' = ghost /\ t'.val.crit = file.crit
    BY <1>2, <1>10
  <2> QED
    BY <1>5, <2>1, <2>2, <2>3 DEF Judged
<1> QED
  BY <1>3, <1>12, <1>13, <1>14, <1>15 DEF IInv, NoKills, NoLateEdits

-----------------------------------------------------------------------------
(* The theorems.                                                           *)

LEMMA InitIInv == ASSUME Init PROVE IInv
<1>1. file \in Tasks /\ file.status = "ready" /\ file.crit = 1
  BY DEF Init, Tasks, Statuses
<1>2. /\ DOMAIN disk = Keys /\ disk.rebase = FALSE /\ disk.check = NoCheckRun
      /\ mem.val = disk /\ mem = [val |-> mem.val, dirty |-> mem.dirty] /\ mem.dirty = {}
  BY DEF Init, Keys, Clean
<1>3. runs = <<>> /\ DOMAIN runs = {} /\ runs \in Seq(Records)
  BY DEF Init
<1>4. EntryOK(runs, disk) /\ EntryOK(runs, mem.val)
  BY <1>2, NoPointerOK DEF EntryOK
<1>5. /\ op.val = file /\ op.at = "none" /\ DOMAIN op = {"at", "kind", "val", "st"}
      /\ t.val = file /\ t = [val |-> t.val, base |-> t.val]
  BY DEF Init
<1>6. pc = "idle" /\ cur \in [run : Nat, st : {"none"} \cup Active \cup Closings]
  BY DEF Init, Nothing
<1>7. left \in Bounds /\ left \in BoundSet
  BY TaskLoopAssumption DEF Init
<1>8. /\ ghost \in [cancelled : BOOLEAN, moved : BOOLEAN, edits : Nat, commanded : BOOLEAN]
      /\ ~ ghost.moved
  BY DEF Init
<1>9. Shape
  <2>1. Closed(runs)
    BY <1>3 DEF Closed
  <2>2. op.val \in Tasks /\ t.val \in Tasks
    BY <1>1, <1>5
  <2> QED
    BY <1>1, <1>2, <1>3, <1>4, <1>5, <1>6, <1>7, <1>8, <2>1, <2>2 DEF Shape
<1>10. Followed
  BY <1>1 DEF Followed
<1>11. Place
  BY <1>6 DEF Place, Handling, Starting
<1>12. NoneActive(runs)
  BY <1>3 DEF NoneActive
<1>13. NoKills => Writer
  BY <1>3, <1>6, <1>7, <1>12 DEF NoKills, Writer, Handling, Starting
<1>14. NoLateEdits => Judged
  BY <1>1, <1>3, <1>5, <1>7, <1>8 DEF NoLateEdits, Judged
<1>15. Unbidden
  BY <1>1, <1>2, <1>3, <1>5, <1>6, <1>12, NoPointerOK DEF Unbidden, PointerIdle, Starting
<1> QED
  BY <1>9, <1>10, <1>11, <1>13, <1>14, <1>15 DEF IInv

LEMMA StutterIInv == ASSUME IInv, UNCHANGED vars PROVE IInv'
<1>1. UNCHANGED <<file, disk, runs, t, mem, pc, cur, op, left, ghost>>
  BY DEF vars
<1>2. Shape /\ Followed /\ Place /\ (NoKills => Writer) /\ (NoLateEdits => Judged)
      /\ (NoKills /\ ~ ghost.commanded => Unbidden)
  BY DEF IInv
<1>3. Shape' /\ Followed'
  BY <1>1, <1>2 DEF Shape, Followed
<1>4. Place'
  BY <1>1, <1>2 DEF Place
<1>5. (NoKills => Writer)' /\ (NoLateEdits => Judged)'
  BY <1>1, <1>2 DEF Writer, Judged, NoKills, NoLateEdits
<1>6. (NoKills /\ ~ ghost.commanded => Unbidden)'
  BY <1>1, <1>2 DEF Unbidden, PointerIdle, NoKills
<1> QED
  BY <1>3, <1>4, <1>5, <1>6 DEF IInv

LEMMA NextIInv == ASSUME IInv, Next PROVE IInv'
<1>1. CASE ReapWorker
  BY <1>1, RestingSteps, TimeOutStep, EmitSteps, CollectRunStep, ResumeFinalizeStep DEF ReapWorker
<1>2. CASE Finalize
  BY <1>2, RestingSteps, OutcomeSteps, BlockRunStep, FollowSteps, PushWithoutChecksStep,
     PushThenCheckStep DEF Finalize
<1>3. CASE ReapCheck
  BY <1>3, RestingSteps, RetireCheckStep, ForgetSteps, CloseCheckStep, MarkCollectedStep,
     RerouteCheckStep, NextCheckSteps, ParkCheckStep, ParkTransitionStep, ChecksPassStep,
     FaultSteps, SaveCheckPointerStep DEF ReapCheck
<1>4. CASE PullRequest
  BY <1>4, PrEndSteps, OpenPrStep DEF PullRequest
<1>5. CASE Sweep
  BY <1>5, ReloadSteps, SweepDeadStep, SweepDanglingStep DEF Sweep
<1>6. CASE Dispatch
  BY <1>6, RestingSteps, DispatchReserveStep, DispatchFailureSteps, DispatchLaunchStep,
     DispatchRecordPidStep, DispatchConflictStep, DispatchTransitionStep, DispatchSaveStep DEF Dispatch
<1>7. CASE TickStart \/ AnswerSnapshot \/ TickEnd
  BY <1>7, ReloadSteps, AnswerSnapshotStep, TickEndStep
<1>8. CASE Exits \/ \E k \in DOMAIN runs : ProcessVanishes(k)
  BY <1>8, ProcessSteps DEF Exits
<1>9. CASE Command
  BY <1>9, CommandLoadsStep, CommandStopsStep, CommandRefusedStep, CommandTransitionStep,
     CommandSavesStep DEF Command
<1>10. CASE Answer \/ EditCriteria \/ Crash
  BY <1>10, AnswerStep, EditCriteriaStep, CrashStep
<1> QED
  BY <1>1, <1>2, <1>3, <1>4, <1>5, <1>6, <1>7, <1>8, <1>9, <1>10 DEF Next, Tick

\* The records, copies and pointers keep their shape through every interleaving
\* of a pass with commands, edits, answers, kills and the processes: a check's
\* pointer names a check and the worker run it continues, a closed worker run
\* has its time of completion, and the pass knows the run it handles.
THEOREM Invariant == Spec => []IInv
<1>1. Init => IInv
  BY InitIInv
<1>2. IInv /\ [Next]_vars => IInv'
  BY NextIInv, StutterIInv
<1> QED
  BY <1>1, <1>2, PTL DEF Spec

\* A running task always has a run that reap can follow, whoever was killed
\* where: dispatch publishes `running` only after the run's record left its
\* reservation, and every path that closes a worker's record writes its time of
\* completion with the status.
THEOREM RunningIsFollowed == Spec => []RunFollowed
<1>1. ASSUME IInv PROVE RunFollowed
  <2> SUFFICES ASSUME file.status = "running"
               PROVE  /\ LatestWorkerRun # 0
                      /\ runs[LatestWorkerRun].st = "running" \/ runs[LatestWorkerRun].fin
    BY DEF RunFollowed
  <2>1. runs \in Seq(Records) /\ Closed(runs)
    BY <1>1 DEF IInv, Shape
  <2>2. PICK k \in DOMAIN runs : IsNewest(runs, k) /\ runs[k].st # "preparing"
    BY <1>1 DEF IInv, Followed
  <2>3. IsWorker(runs, k) /\ k \in Nat
    BY <2>1, <2>2, RunsDomain DEF IsNewest
  <2>4. /\ IsWorker(runs, LatestWorkerRun) /\ LatestWorkerRun # 0
        /\ \/ runs[LatestWorkerRun].st = "running"
           \/ /\ IsNewest(runs, LatestWorkerRun)
              /\ \A j \in DOMAIN runs : IsWorker(runs, j) => runs[j].st # "running"
    BY <2>1, <2>2, <2>3, LatestIs
  <2>5. CASE runs[LatestWorkerRun].st # "running"
    <3>1. LatestWorkerRun \in DOMAIN runs /\ LatestWorkerRun \in Nat
      BY <2>1, <2>4, RunsDomain DEF IsWorker
    <3>2. LatestWorkerRun = k
      BY <2>2, <2>3, <2>4, <2>5, <3>1 DEF IsNewest
    <3>3. runs[k].st \in Closings
      BY <2>1, <2>2, <2>4, <2>5, <3>2, RunsDomain DEF Records, Active
    <3> QED
      BY <2>1, <2>3, <2>4, <3>2, <3>3 DEF Closed
  <2> QED
    BY <2>4, <2>5
<1> QED
  BY <1>1, Invariant, PTL

\* Two worker processes never write the same worktree, whatever commands,
\* answers and failures interleave with the passes, as long as the controller is
\* not killed between starting a process and saving its pid.
THEOREM WritersExclude == ASSUME NoKills PROVE Spec => []OneWriter
<1>1. ASSUME IInv PROVE OneWriter
  <2> DEFINE W == {k \in Workers : /\ runs[k].proc \in {"live", "dying"}
                                   /\ runs[k].st # "timeout"}
  <2>1. Writer /\ runs \in Seq(Records) /\ Closed(runs)
    BY <1>1 DEF IInv, Shape
  <2>2. ASSUME NEW k \in W PROVE IsActive(runs, k) /\ k \in DOMAIN runs
    <3>1. k \in DOMAIN runs /\ IsWorker(runs, k) /\ runs[k].proc \in Alive /\ runs[k].st # "timeout"
      BY DEF Workers, IsWorker, Alive
    <3>2. ~ runs[k].fin
      BY <2>1, <3>1 DEF Writer
    <3>3. runs[k].st \in Active
      BY <2>1, <3>1, <3>2, RunsDomain DEF Closed, Records
    <3> QED
      BY <3>1, <3>3 DEF IsActive
  <2>3. \A j, k \in W : j = k
    BY <2>1, <2>2 DEF Writer
  <2> HIDE DEF W
  <2>4. ASSUME W # {} PROVE Cardinality(W) = 1
    <3>1. PICK k : W = {k}
      BY <2>3, <2>4
    <3>2. Cardinality({k}) = 1
      BY FS_Singleton
    <3> QED
      BY <3>1, <3>2
  <2>5. Cardinality({}) = 0
    BY FS_EmptySet
  <2>6. Cardinality(W) <= 1
    BY <2>4, <2>5
  <2> QED
    BY <2>6 DEF OneWriter, W
<1> QED
  BY <1>1, Invariant, PTL

\* A worker that reported its work done is finalized and not swept up as a
\* dangling record, unless an operator's command intervened or the controller
\* was killed.
THEOREM FinishedIsUsed == ASSUME NoKills PROVE Spec => []FinishedWorkUsed
<1>1. ASSUME IInv PROVE FinishedWorkUsed
  BY <1>1 DEF IInv, Unbidden, FinishedWorkUsed, Workers, IsWorker
<1> QED
  BY <1>1, Invariant, PTL

\* A result is judged by the criteria its worker was given, through any number
\* of edits, as long as the task is not also resumed by an answer, which drops
\* the run's snapshot of them.
THEOREM GoalpostsStay == ASSUME NoLateEdits PROVE Spec => []GoalpostsFixed
<1>1. ASSUME IInv PROVE GoalpostsFixed
  BY <1>1 DEF IInv, Judged, GoalpostsFixed
<1> QED
  BY <1>1, Invariant, PTL

-----------------------------------------------------------------------------
(* The attempts.                                                           *)

Failing == {"failed", "timeout"}

\* Work rounds that ran and failed.
Spent(rs) == {k \in DOMAIN rs : rs[k].mode = "work" /\ rs[k].pid /\ rs[k].st \in Failing}
Sound == \A k \in DOMAIN runs : IsNewest(runs, k) => runs[k].st \notin Failing

\* Every failed round has its attempt, and one attempt more belongs to the work
\* round under way, so that an environment stop may give it back; where no
\* attempt is left the task has failed or is about to.
GivingUp == {"timed_out", "giving_up"}
Counted ==
    /\ file.attempts = t.val.attempts
    /\ Cardinality(Spent(runs)) <= file.attempts /\ Cardinality(Spent(runs)) <= MaxAttempts
    /\ file.status = "running" =>
         \A k \in DOMAIN runs :
           IsNewest(runs, k) /\ runs[k].mode = "work" /\ runs[k].st \notin Failing
             => Cardinality(Spent(runs)) + 1 <= file.attempts
    /\ Cardinality(Spent(runs)) < MaxAttempts \/ file.status = "failed" \/ pc \in GivingUp

\* What the count needs of the pass.
Current ==
    /\ (file.status = "running" /\ pc \notin GivingUp) \/ pc \in Starting => Sound
    /\ \A k \in DOMAIN runs : IsActive(runs, k) => IsNewest(runs, k)
    /\ pc \in Handling => IsNewest(runs, cur.run)
    /\ pc = "env_stopped" => runs[cur.run].st = "env_error"
    /\ pc \in Starting => file.status # "failed"

Budget == NoKills /\ ~ ghost.commanded => Counted /\ Current

LEMMA SpentFinite ==
    ASSUME NEW rs \in Seq(Records)
    PROVE  IsFiniteSet(Spent(rs)) /\ Cardinality(Spent(rs)) \in Nat
<1>1. Len(rs) \in Nat /\ Spent(rs) \subseteq 1..Len(rs)
  BY RunsDomain DEF Spent
<1>2. IsFiniteSet(1..Len(rs))
  BY <1>1, FS_Interval
<1>3. IsFiniteSet(Spent(rs))
  BY <1>1, <1>2, FS_Subset
<1> QED
  BY <1>3, FS_CardinalityType

\* A change of the records that no failure of a worker run is part of.
Calm(rs, ss) ==
    /\ ss \in Seq(Records) /\ DOMAIN rs \subseteq DOMAIN ss
    /\ \A k \in DOMAIN rs :
         /\ ss[k].mode = rs[k].mode
         /\ rs[k].mode \in WorkerModes =>
              /\ ss[k].st \in Failing <=> rs[k].st \in Failing
              /\ ss[k].st \in Failing => ss[k].pid = rs[k].pid
    /\ \A k \in DOMAIN ss : k \notin DOMAIN rs => ss[k].mode = "check"

LEMMA CalmKeeps ==
    ASSUME NEW rs, NEW ss, Calm(rs, ss)
    PROVE  /\ Spent(ss) = Spent(rs)
           /\ \A k : IsWorker(ss, k) <=> IsWorker(rs, k)
           /\ \A k : IsNewest(ss, k) <=> IsNewest(rs, k)
<1>1. \A k : IsWorker(ss, k) <=> IsWorker(rs, k)
  BY DEF Calm, IsWorker, WorkerModes
<1>2. \A k : IsNewest(ss, k) <=> IsNewest(rs, k)
  BY <1>1 DEF IsNewest, IsWorker
<1>3. \A k : k \in Spent(ss) <=> k \in Spent(rs)
  <2> TAKE k
  <2>1. CASE k \in DOMAIN rs
    BY <2>1 DEF Calm, Spent, WorkerModes
  <2>2. CASE k \notin DOMAIN rs
    BY <2>2 DEF Calm, Spent
  <2> QED
    BY <2>1, <2>2
<1> QED
  BY <1>1, <1>2, <1>3

LEMMA CalmSame == ASSUME NEW rs \in Seq(Records) PROVE Calm(rs, rs)
  BY DEF Calm

\* What a step that changes no count has to leave alone.
LEMMA CountKept ==
    ASSUME IInv, IInv', Counted, Current, Calm(runs, runs'),
           \A k : IsActive(runs', k) => IsActive(runs, k),
           file'.attempts = file.attempts, t'.val.attempts = file.attempts,
           file'.status = "running" => file.status = "running",
           file.status = "failed" => file'.status = "failed",
           pc \in GivingUp => \/ pc' \in GivingUp \/ file'.status = "failed"
                              \/ file'.status # "running" /\ Cardinality(Spent(runs)) < MaxAttempts,
           pc' \in Handling => IsNewest(runs', cur'.run),
           pc' = "env_stopped" => runs'[cur'.run].st = "env_error",
           pc' \in Starting => pc \in Starting /\ file'.status # "failed"
    PROVE  Counted' /\ Current'
<1>1. /\ Spent(runs') = Spent(runs)
      /\ \A k : IsWorker(runs', k) <=> IsWorker(runs, k)
      /\ \A k : IsNewest(runs', k) <=> IsNewest(runs, k)
  BY CalmKeeps
<1>2. \A k \in DOMAIN runs' : IsNewest(runs', k) =>
        /\ k \in DOMAIN runs /\ runs'[k].mode = runs[k].mode
        /\ runs'[k].st \in Failing <=> runs[k].st \in Failing
  BY <1>1 DEF Calm, IsNewest, IsWorker
<1>3. Counted'
  BY <1>1, <1>2 DEF Counted
<1>4. (file'.status = "running" /\ pc' \notin GivingUp) \/ pc' \in Starting => Sound'
  BY <1>1, <1>2 DEF Current, Sound
<1>5. \A k \in DOMAIN runs' : IsActive(runs', k) => IsNewest(runs', k)
  BY <1>1 DEF Current, IsActive, IsWorker
<1>6. Current'
  BY <1>4, <1>5 DEF Current
<1> QED
  BY <1>3, <1>6

\* The pass goes on and leaves the task file and the records alone.
LEMMA Uncounted ==
    ASSUME IInv, IInv', Counted, Current, file' = file, runs' = runs, t'.val.attempts = file.attempts,
           pc \notin GivingUp, pc' \notin Handling \cup Starting
    PROVE  Counted' /\ Current'
<1>1. Calm(runs, runs')
  BY CalmSame DEF IInv, Shape
<1>2. pc' # "env_stopped"
  BY DEF Handling
<1> QED
  BY <1>1, <1>2, CountKept

\* The pass saves its task: nobody else writes its attempts and its status.
LEMMA AttemptsSaved ==
    ASSUME IInv, NoKills, ~ ghost.commanded, Counted, NEW new \in Tasks, SaveTask(new)
    PROVE  /\ file'.attempts = new.attempts /\ t'.val.attempts = new.attempts
           /\ file'.status = new.status
<1>1. /\ file.attempts = t.val.attempts /\ file.status = t.val.status /\ file \in Tasks /\ t.val \in Tasks
      /\ t.base = t.val
  BY DEF Counted, IInv, Unbidden, Shape
<1>2. file' = MergeTask(t.val, new, file) /\ t' = [val |-> new, base |-> new]
  BY <1>1 DEF SaveTask
<1>3. t'.val = new
  BY <1>2
<1>4. file'.status = new.status
  BY <1>1, <1>2, MergeTaskIs
<1>5. file'.attempts = new.attempts
  BY <1>1, <1>2 DEF MergeTask, Tasks
<1> QED
  BY <1>3, <1>4, <1>5

\* The pass moves the task without counting an attempt.
LEMMA TransitionCounts ==
    ASSUME IInv, IInv', NoKills, ~ ghost.commanded, Counted, Current, NEW new \in Tasks, SaveTask(new),
           new.attempts = t.val.attempts, new.status # "running",
           Calm(runs, runs'), \A k : IsActive(runs', k) => IsActive(runs, k), pc' \notin Handling \cup Starting,
           file.status = "failed" => new.status = "failed",
           pc \in GivingUp => new.status = "failed" \/ Cardinality(Spent(runs)) < MaxAttempts
    PROVE  Counted' /\ Current'
<1>1. file'.attempts = new.attempts /\ t'.val.attempts = new.attempts /\ file'.status = new.status
  BY AttemptsSaved
<1>2. file.attempts = t.val.attempts
  BY DEF Counted
<1>3. pc' # "env_stopped"
  BY DEF Handling
<1> QED
  BY <1>1, <1>2, <1>3, CountKept

LEMMA RestCounts ==
    ASSUME IInv, IInv', NoKills, ~ ghost.commanded, Counted, Current,
           \/ ReapNothing \/ FinalizeRefused \/ CheckRefused \/ NextCheckRefused \/ DispatchNothing
           \/ PushWithoutChecks \/ RerouteCheck \/ ForgetCheck \/ RebaseFails \/ SaveCheckPointer
           \/ ParkCheck \/ ChecksPass \/ OpenPr \/ DispatchSave \/ TickEnd \/ TickStart \/ SweepDone
    PROVE  Counted' /\ Current'
<1>1. file.attempts = t.val.attempts
  BY DEF Counted
<1>2. CASE ReapNothing \/ FinalizeRefused \/ CheckRefused \/ NextCheckRefused \/ DispatchNothing
  <2>1. /\ pc \in {"reap", "outcome", "push", "verdict", "dispatch"} /\ pc' \in {"sweep", "end"}
        /\ UNCHANGED <<file, runs, t>>
    BY <1>2 DEF ReapNothing, FinalizeRefused, CheckRefused, NextCheckRefused, DispatchNothing, Verdict
  <2>2. pc \notin GivingUp /\ pc' \notin Handling \cup Starting
    BY <2>1 DEF GivingUp, Handling, Starting
  <2> QED
    BY <1>1, <2>1, <2>2, Uncounted
<1>3. CASE PushWithoutChecks \/ RerouteCheck \/ ForgetCheck \/ RebaseFails \/ SaveCheckPointer
  <2>1. /\ pc \in {"push", "reap", "verdict", "checking"} /\ pc' \in {"open_pr", "verdict", "sweep"}
        /\ UNCHANGED <<file, runs, t>>
    BY <1>3 DEF PushWithoutChecks, RerouteCheck, ForgetCheck, RebaseFails, SaveCheckPointer, Verdict, ReapsCheck
  <2>2. pc \notin GivingUp /\ pc' \notin Handling \cup Starting
    BY <2>1 DEF GivingUp, Handling, Starting
  <2> QED
    BY <1>1, <2>1, <2>2, Uncounted
<1>4. CASE ParkCheck \/ ChecksPass \/ OpenPr \/ TickEnd
  <2>1. /\ pc \in {"verdict", "open_pr", "end"} /\ pc' \in {"parking", "open_pr", "opened", "idle"}
        /\ UNCHANGED <<file, runs, t>>
    BY <1>4 DEF ParkCheck, ChecksPass, OpenPr, TickEnd, Verdict, Evident
  <2>2. pc \notin GivingUp /\ pc' \notin Handling \cup Starting
    BY <2>1 DEF GivingUp, Handling, Starting
  <2> QED
    BY <1>1, <2>1, <2>2, Uncounted
<1>5. CASE DispatchSave
  <2>1. pc = "transitioned" /\ pc' \in {"answered", "end"} /\ UNCHANGED <<file, runs, t>>
    BY <1>5 DEF DispatchSave
  <2>2. pc \notin GivingUp /\ pc' \notin Handling \cup Starting
    BY <2>1 DEF GivingUp, Handling, Starting
  <2> QED
    BY <1>1, <2>1, <2>2, Uncounted
<1>6. CASE TickStart \/ SweepDone
  <2>1. pc \in {"idle", "sweep"} /\ pc' \in {"reap", "dispatch"} /\ UNCHANGED <<file, runs>>
        /\ t' = [val |-> file, base |-> file]
    BY <1>6 DEF TickStart, SweepDone
  <2>2. pc \notin GivingUp /\ pc' \notin Handling \cup Starting /\ t'.val.attempts = file.attempts
    BY <2>1 DEF GivingUp, Handling, Starting
  <2> QED
    BY <2>1, <2>2, Uncounted
<1> QED
  BY <1>2, <1>3, <1>4, <1>5, <1>6

\* The newest worker run is taken up.
LEMMA TakesNewest ==
    ASSUME IInv, Current, NEW k, k = LatestWorkerRun, k # 0
    PROVE  IsNewest(runs, k) /\ k \in DOMAIN runs
<1>1. runs \in Seq(Records)
  BY DEF IInv, Shape
<1>2. IsWorker(runs, k) /\ (runs[k].st = "running" \/ IsNewest(runs, k))
  BY <1>1, LatestIs
<1>3. runs[k].st = "running" => IsActive(runs, k)
  BY <1>2 DEF IsActive, Active
<1>4. k \in DOMAIN runs
  BY <1>2 DEF IsWorker
<1> QED
  BY <1>2, <1>3, <1>4 DEF Current

LEMMA ResumeCounts ==
    ASSUME IInv, IInv', NoKills, ~ ghost.commanded, Counted, Current, ResumeFinalize
    PROVE  Counted' /\ Current'
<1>1. PICK k : k = LatestWorkerRun
  OBVIOUS
<1>2. /\ pc = "reap" /\ k # 0 /\ cur' = Handle(k) /\ pc' \in {"giving_up", "outcome"}
      /\ runs[k].st # "timeout" => pc' = "outcome"
      /\ t.val.status = "running" /\ UNCHANGED <<file, runs, t>>
  BY <1>1 DEF ResumeFinalize, ReapsWorker
<1>3. IsNewest(runs, k) /\ k \in DOMAIN runs
  BY <1>1, <1>2, TakesNewest
<1>4. cur'.run = k /\ file.attempts = t.val.attempts
  BY <1>2 DEF Handle, Counted
<1>5. Calm(runs, runs')
  BY <1>2, CalmSame DEF IInv, Shape
<1>6. pc \notin GivingUp /\ pc' # "env_stopped" /\ pc' \notin Starting
  BY <1>2 DEF GivingUp, Starting
<1> QED
  BY <1>2, <1>3, <1>4, <1>5, <1>6, CountKept

\* What a record's change leaves of the others.
LEMMA SetOthers ==
    ASSUME IInv, IInv', NEW k \in DOMAIN runs, NEW rec, runs' = [runs EXCEPT ![k] = rec]
    PROVE  /\ runs \in Seq(Records) /\ runs' \in Seq(Records) /\ runs[k] \in Records
           /\ DOMAIN runs' = DOMAIN runs /\ runs'[k] = rec
           /\ \A j \in DOMAIN runs : j # k => runs'[j] = runs[j]
<1>1. runs \in Seq(Records) /\ runs' \in Seq(Records)
  BY DEF IInv, Shape
<1>2. runs[k] \in Records
  BY <1>1, RunsDomain
<1>3. DOMAIN runs' = DOMAIN runs /\ runs'[k] = rec /\ \A j \in DOMAIN runs : j # k => runs'[j] = runs[j]
  OBVIOUS
<1> QED
  BY <1>1, <1>2, <1>3

\* A record changes, without a worker's failure, and the task file does not.
LEMMA RecordCounts ==
    ASSUME IInv, IInv', Counted, Current, NEW k \in DOMAIN runs, NEW rec, runs' = [runs EXCEPT ![k] = rec],
           file' = file, t'.val.attempts = file.attempts,
           rec.mode = runs[k].mode, rec.st \in Active => runs[k].st \in Active,
           runs[k].mode \in WorkerModes =>
              /\ rec.st \in Failing <=> runs[k].st \in Failing
              /\ rec.st \in Failing => rec.pid = runs[k].pid,
           pc \in GivingUp => pc' \in GivingUp,
           pc' \in Handling => IsNewest(runs, cur'.run),
           pc' = "env_stopped" => runs'[cur'.run].st = "env_error",
           pc' \in Starting => pc \in Starting
    PROVE  Counted' /\ Current'
<1>1. /\ runs \in Seq(Records) /\ runs' \in Seq(Records) /\ DOMAIN runs' = DOMAIN runs /\ runs'[k] = rec
      /\ \A j \in DOMAIN runs : j # k => runs'[j] = runs[j]
  BY SetOthers
<1>2. Calm(runs, runs')
  BY <1>1 DEF Calm
<1>3. \A j : IsActive(runs', j) => IsActive(runs, j)
  BY <1>1 DEF IsActive, IsWorker
<1>4. \A j : IsNewest(runs', j) <=> IsNewest(runs, j)
  BY <1>2, CalmKeeps
<1>5. pc' \in Starting => file'.status # "failed"
  BY DEF Current
<1> QED
  BY <1>2, <1>3, <1>4, <1>5, CountKept

\* A run's record at the step the pass is at.
LEMMA HandledRun ==
    ASSUME IInv, pc \in Handling \cup Starting \cup {"open_pr", "opened", "transitioned", "answered"}
    PROVE  cur.run \in DOMAIN runs /\ runs[cur.run] \in Records /\ IsWorker(runs, cur.run)
<1>1. runs \in Seq(Records) /\ IsWorker(runs, cur.run)
  BY DEF IInv, Shape, Place
<1> QED
  BY <1>1, RunsDomain DEF IsWorker

LEMMA EmitCounts ==
    ASSUME IInv, IInv', NoKills, ~ ghost.commanded, Counted, Current, EmitTimeout \/ EmitFinished
    PROVE  Counted' /\ Current'
<1>1. PICK k : k = cur.run
  OBVIOUS
<1>2. /\ runs' = [runs EXCEPT ![k].events = @ + 1] /\ UNCHANGED <<file, t, cur>>
      /\ \/ pc = "timed_out" /\ pc' = "giving_up"
         \/ pc = "collected" /\ pc' = "outcome"
  BY <1>1 DEF EmitTimeout, EmitFinished
<1>3. /\ pc \in Handling /\ pc' \notin Starting \cup {"env_stopped"} /\ (pc \in GivingUp => pc' \in GivingUp)
  BY <1>2 DEF Handling, Starting, GivingUp
<1>4. k \in DOMAIN runs /\ runs[k] \in Records
  BY <1>1, <1>3, HandledRun
<1>5. IsNewest(runs, cur'.run) /\ file.attempts = t.val.attempts
  BY <1>2, <1>3 DEF Current, Counted
<1>6. PICK rec : rec = [runs[k] EXCEPT !.events = @ + 1]
  OBVIOUS
<1>7. runs' = [runs EXCEPT ![k] = rec]
  BY <1>2, <1>6
<1>8. rec.mode = runs[k].mode /\ rec.st = runs[k].st /\ rec.pid = runs[k].pid
  BY <1>4, <1>6 DEF Records
<1> QED
  BY <1>2, <1>3, <1>4, <1>5, <1>7, <1>8, RecordCounts

LEMMA CollectCounts ==
    ASSUME IInv, IInv', NoKills, ~ ghost.commanded, Counted, Current, CollectRun
    PROVE  Counted' /\ Current'
<1>1. PICK k : k = LatestWorkerRun
  OBVIOUS
<1>2. /\ pc = "reap" /\ k # 0 /\ cur' = Handle(k) /\ pc' = "collected"
      /\ runs' = [runs EXCEPT ![k].fin = TRUE] /\ UNCHANGED <<file, t>>
  BY <1>1 DEF CollectRun, ReapsWorker
<1>3. IsNewest(runs, k) /\ k \in DOMAIN runs
  BY <1>1, <1>2, TakesNewest
<1>4. cur'.run = k /\ file.attempts = t.val.attempts /\ runs[k] \in Records
  BY <1>2, <1>3, RunsDomain DEF Handle, Counted, IInv, Shape
<1>5. pc \notin GivingUp /\ pc' \notin Starting \cup {"env_stopped"}
  BY <1>2 DEF GivingUp, Starting
<1>6. PICK rec : rec = [runs[k] EXCEPT !.fin = TRUE]
  OBVIOUS
<1>7. runs' = [runs EXCEPT ![k] = rec]
  BY <1>2, <1>6
<1>8. rec.mode = runs[k].mode /\ rec.st = runs[k].st /\ rec.pid = runs[k].pid
  BY <1>4, <1>6 DEF Records
<1> QED
  BY <1>2, <1>3, <1>4, <1>5, <1>7, <1>8, RecordCounts

\* The pass works on the record of a check.
LEMMA CheckCounts ==
    ASSUME IInv, IInv', NoKills, ~ ghost.commanded, Counted, Current, CloseCheck \/ MarkCollected \/ RetireCheck
    PROVE  Counted' /\ Current'
<1>1. PICK k : k = mem.val.check.run
  OBVIOUS
<1>2. /\ pc \in {"reap", "closing"} /\ pc' \in {"closing", "verdict", "sweep"} /\ UNCHANGED <<file, t>>
      /\ k # 0
  BY <1>1 DEF CloseCheck, MarkCollected, RetireCheck, ReapsCheck, St, IInv, Place
<1>3. k \in DOMAIN runs /\ runs[k].mode = "check" /\ runs[k] \in Records
  BY <1>1, <1>2, RunsDomain DEF IInv, Shape, EntryOK, PointerOK
<1>4. pc \notin GivingUp /\ pc' \notin Handling \cup Starting /\ pc' # "env_stopped"
      /\ runs[k].mode \notin WorkerModes /\ file.attempts = t.val.attempts
  BY <1>2, <1>3 DEF GivingUp, Handling, Starting, WorkerModes, Counted
<1>5. CASE runs' = runs
  BY <1>2, <1>4, <1>5, Uncounted
<1>6. CASE runs' # runs
  <2>1. PICK rec : /\ runs' = [runs EXCEPT ![k] = rec] /\ rec.mode = runs[k].mode
                   /\ rec.st \in Active => runs[k].st \in Active
    <3>1. CASE CloseCheck
      <4>1. PICK rec : rec = [runs[k] EXCEPT !.st = "done", !.fin = TRUE]
        OBVIOUS
      <4>2. runs' = [runs EXCEPT ![k] = rec]
        BY <1>1, <3>1, <4>1 DEF CloseCheck, St
      <4>3. rec.mode = runs[k].mode /\ rec.st = "done"
        BY <1>3, <4>1 DEF Records
      <4> QED
        BY <4>2, <4>3 DEF Active
    <3>2. CASE MarkCollected
      <4>1. PICK rec : rec = [runs[k] EXCEPT !.events = @ + 1]
        OBVIOUS
      <4>2. runs' = [runs EXCEPT ![k] = rec]
        BY <1>1, <3>2, <4>1 DEF MarkCollected, St
      <4>3. rec.mode = runs[k].mode /\ rec.st = runs[k].st
        BY <1>3, <4>1 DEF Records
      <4> QED
        BY <4>2, <4>3
    <3>3. CASE RetireCheck
      <4>1. runs' = [runs EXCEPT ![k] = Retired(runs[k])]
        BY <1>1, <1>6, <3>3 DEF RetireCheck, St, Check
      <4>2. /\ Retired(runs[k]).mode = runs[k].mode
            /\ Retired(runs[k]).st \in Active => runs[k].st \in Active
        BY <1>3, RetiredIs DEF Grows, Active, Closings
      <4> QED
        BY <4>1, <4>2
    <3> QED
      BY <3>1, <3>2, <3>3
  <2> QED
    BY <1>2, <1>3, <1>4, <2>1, RecordCounts
<1> QED
  BY <1>5, <1>6

\* The run whose outcome is handled is the newest, and has not failed yet.
LEMMA OutcomeSound ==
    ASSUME IInv, NoKills, ~ ghost.commanded, Current, pc \in Handling \ GivingUp
    PROVE  /\ IsNewest(runs, cur.run) /\ file.status = "running" /\ runs[cur.run].st \notin Failing
           /\ cur.run \in DOMAIN runs /\ runs[cur.run] \in Records /\ IsWorker(runs, cur.run)
<1>1. cur.run \in DOMAIN runs /\ runs[cur.run] \in Records /\ IsWorker(runs, cur.run)
  BY HandledRun
<1>2. file.status = "running"
  BY DEF IInv, Place, Unbidden
<1> QED
  BY <1>1, <1>2 DEF Current, Sound

LEMMA OutcomeCounts ==
    ASSUME IInv, IInv', NoKills, ~ ghost.commanded, Counted, Current, AskHuman \/ EnvStop \/ FinishRun
    PROVE  Counted' /\ Current'
<1>1. PICK k : k = cur.run
  OBVIOUS
<1>2. PICK status : /\ CloseRun(status) /\ pc = "outcome" /\ UNCHANGED <<file, t>>
                    /\ \/ status = "waiting" /\ pc' = "asking"
                       \/ status = "env_error" /\ pc' = "env_stopped"
                       \/ status = "done" /\ pc' = "push"
  BY DEF AskHuman, EnvStop, FinishRun, Outcome
<1>3. /\ pc \in Handling \ GivingUp /\ pc' \notin Starting /\ status \notin Failing /\ status \notin Active
      /\ (pc' = "env_stopped" => status = "env_error")
  BY <1>2 DEF Handling, Starting, GivingUp, Failing, Active
<1>4. IsNewest(runs, k) /\ runs[k].st \notin Failing /\ k \in DOMAIN runs /\ runs[k] \in Records
  BY <1>1, <1>3, OutcomeSound
<1>5. PICK rec : rec = [runs[k] EXCEPT !.st = status]
  OBVIOUS
<1>6. runs' = [runs EXCEPT ![k] = rec] /\ cur'.run = k
  BY <1>1, <1>2, <1>5 DEF CloseRun, IInv, Shape
<1>7. rec.mode = runs[k].mode /\ rec.st = status
  BY <1>4, <1>5 DEF Records
<1>8. runs'[cur'.run].st = status
  BY <1>4, <1>6, <1>7
<1>9. file.attempts = t.val.attempts
  BY DEF Counted
<1> QED
  BY <1>2, <1>3, <1>4, <1>6, <1>7, <1>8, <1>9, RecordCounts

\* A status the pass moves the task to.
LEMMA StatusCounts ==
    ASSUME IInv, IInv', NoKills, ~ ghost.commanded, Counted, Current,
           NEW s \in Statuses \ {"running"}, Transition(s),
           Calm(runs, runs'), \A k : IsActive(runs', k) => IsActive(runs, k), pc' \notin Handling \cup Starting,
           file.status = "failed" => s = "failed",
           pc \in GivingUp => s = "failed" \/ Cardinality(Spent(runs)) < MaxAttempts
    PROVE  Counted' /\ Current'
<1>1. PICK new : new = [t.val EXCEPT !.status = s]
  OBVIOUS
<1>2. new \in Tasks /\ new.crit = t.val.crit /\ new.status = s /\ new.attempts = t.val.attempts
  BY <1>1 DEF IInv, Shape, Tasks
<1>3. SaveTask(new)
  BY <1>1 DEF Transition
<1> QED
  BY <1>2, <1>3, TransitionCounts

LEMMA BlockCounts ==
    ASSUME IInv, IInv', NoKills, ~ ghost.commanded, Counted, Current, BlockRun
    PROVE  Counted' /\ Current'
<1>1. PICK k : k = cur.run
  OBVIOUS
<1>2. pc = "outcome" /\ pc' = "sweep" /\ runs' = [runs EXCEPT ![k].st = "blocked"] /\ Transition("failed")
  BY <1>1 DEF BlockRun, Outcome, CloseRun
<1>3. pc \in Handling \ GivingUp /\ pc' \notin Handling \cup Starting
  BY <1>2 DEF Handling, Starting, GivingUp
<1>4. runs[k].st \notin Failing /\ k \in DOMAIN runs /\ runs[k] \in Records
  BY <1>1, <1>3, OutcomeSound
<1>5. PICK rec : rec = [runs[k] EXCEPT !.st = "blocked"]
  OBVIOUS
<1>6. runs' = [runs EXCEPT ![k] = rec]
  BY <1>2, <1>5
<1>7. rec.mode = runs[k].mode /\ rec.st = "blocked"
  BY <1>4, <1>5 DEF Records
<1>8. /\ runs \in Seq(Records) /\ runs' \in Seq(Records) /\ DOMAIN runs' = DOMAIN runs /\ runs'[k] = rec
      /\ \A j \in DOMAIN runs : j # k => runs'[j] = runs[j]
  BY <1>4, <1>6, SetOthers
<1>9. Calm(runs, runs') /\ \A j : IsActive(runs', j) => IsActive(runs, j)
  BY <1>4, <1>7, <1>8 DEF Calm, Failing, IsActive, IsWorker, Active
<1>10. "failed" \in Statuses \ {"running"}
  BY DEF Statuses
<1> QED
  BY <1>2, <1>3, <1>9, <1>10, StatusCounts

LEMMA FollowCounts ==
    ASSUME IInv, IInv', NoKills, ~ ghost.commanded, Counted, Current, RetryOrFail \/ AskTransition \/ PushFails
    PROVE  Counted' /\ Current'
<1>1. /\ pc \in Handling /\ pc' = "sweep" /\ runs' = runs
      /\ pc \in {"giving_up", "asking", "push"}
  BY DEF RetryOrFail, AskTransition, PushFails, Handling
<1>2. PICK s \in {"ready", "failed", "waiting_human"} :
        /\ Transition(s) /\ (pc \in GivingUp /\ s # "failed" => t.val.attempts < MaxAttempts)
  <2>1. CASE RetryOrFail
    BY <2>1 DEF RetryOrFail, RetryStatus
  <2>2. CASE AskTransition
    BY <2>2 DEF AskTransition, GivingUp
  <2>3. CASE PushFails
    BY <2>3 DEF PushFails, GivingUp
  <2> QED
    BY <2>1, <2>2, <2>3
<1>3. file.status = "running"
  BY <1>1 DEF IInv, Place, Unbidden
<1>4. Cardinality(Spent(runs)) \in Nat /\ Calm(runs, runs') /\ file.attempts \in Int
  BY <1>1, SpentFinite, CalmSame DEF IInv, Shape, Tasks
<1>5. pc \in GivingUp => s = "failed" \/ Cardinality(Spent(runs)) < MaxAttempts
  BY <1>2, <1>4, TaskLoopAssumption DEF Counted
<1>6. pc' \notin Handling \cup Starting /\ s \in Statuses \ {"running"}
  BY <1>1 DEF Handling, Starting, Statuses
<1> QED
  BY <1>1, <1>2, <1>3, <1>4, <1>5, <1>6, StatusCounts

\* A verdict, a gap or a pull request ends the round.
LEMMA VerdictCounts ==
    ASSUME IInv, IInv', NoKills, ~ ghost.commanded, Counted, Current,
           \/ ParkTransition \/ BaseBroken \/ BranchAtFault \/ RebaseConflicts
           \/ EvidenceGaps \/ OpenPrFails
    PROVE  Counted' /\ Current'
<1>1. /\ pc \in {"verdict", "parking", "open_pr"} /\ pc' = "sweep" /\ runs' = runs
  BY DEF ParkTransition, BaseBroken, BranchAtFault, RebaseConflicts, CheckRevise, Verdict, EvidenceGaps, OpenPrFails, Evident
<1>2. PICK s \in {"in_review", "changes_requested"} : Transition(s)
  BY DEF ParkTransition, BaseBroken, BranchAtFault, RebaseConflicts, CheckRevise, EvidenceGaps, OpenPrFails
<1>3. file.status # "failed"
  <2>1. pc # "open_pr" => mem.val.check.run # 0 /\ pc # "idle"
    BY <1>1 DEF IInv, Place
  <2> QED
    BY <1>1, <2>1 DEF IInv, Unbidden, PointerIdle
<1>4. Calm(runs, runs')
  BY <1>1, CalmSame DEF IInv, Shape
<1>5. pc' \notin Handling \cup Starting /\ s \in Statuses \ {"running"} /\ pc \notin GivingUp
  BY <1>1, <1>2 DEF Handling, Starting, Statuses, GivingUp
<1> QED
  BY <1>1, <1>2, <1>3, <1>4, <1>5, StatusCounts

LEMMA OpenPrTransitionCounts ==
    ASSUME IInv, IInv', NoKills, ~ ghost.commanded, Counted, Current, OpenPrTransition
    PROVE  Counted' /\ Current'
<1>1. pc = "opened" /\ pc' = "sweep" /\ runs' = runs
      /\ SaveTask([t.val EXCEPT !.status = "in_review", !.pr = TRUE])
  BY DEF OpenPrTransition
<1>2. PICK new : new = [t.val EXCEPT !.status = "in_review", !.pr = TRUE]
  OBVIOUS
<1>3. new \in Tasks /\ new.crit = t.val.crit /\ new.status = "in_review" /\ new.attempts = t.val.attempts
  BY <1>2 DEF IInv, Shape, Tasks, Statuses
<1>4. SaveTask(new) /\ file.status # "failed"
  BY <1>1, <1>2 DEF IInv, Unbidden
<1>5. Calm(runs, runs')
  BY <1>1, CalmSame DEF IInv, Shape
<1>6. pc' \notin Handling \cup Starting /\ pc \notin GivingUp
  BY <1>1 DEF Handling, Starting, GivingUp
<1> QED
  BY <1>1, <1>3, <1>4, <1>5, <1>6, TransitionCounts

LEMMA StartCheckCounts ==
    ASSUME IInv, IInv', NoKills, ~ ghost.commanded, Counted, Current,
           PushThenCheck \/ RetryCheck \/ ProbeBase \/ RebaseAndRecheck
    PROVE  Counted' /\ Current'
<1>1. PICK stage, retries, worker : StartCheck(stage, retries, worker)
  BY DEF PushThenCheck, RetryCheck, ProbeBase, RebaseAndRecheck
<1>2. pc \in {"push", "verdict"} /\ pc' = "checking" /\ UNCHANGED <<file, t>>
  BY <1>1 DEF PushThenCheck, RetryCheck, ProbeBase, RebaseAndRecheck, Verdict, StartCheck
<1>3. PICK rec : rec = [NewRun("check", 0, FALSE) EXCEPT !.st = "running", !.pid = TRUE, !.proc = "live"]
  OBVIOUS
<1>4. runs' = Append(runs, rec)
  BY <1>1, <1>3 DEF StartCheck
<1>5. rec \in Records /\ rec.mode = "check" /\ rec.prep
  BY <1>3 DEF NewRun, Records, Active
<1>6. runs \in Seq(Records)
  BY DEF IInv, Shape
<1>7. /\ Later(runs, runs') /\ \A j \in DOMAIN runs : runs'[j] = runs[j]
      /\ \A j \in DOMAIN runs' : j \notin DOMAIN runs => runs'[j] = rec
  BY <1>4, <1>5, <1>6, CheckAdded
<1>8. Calm(runs, runs')
  BY <1>5, <1>7 DEF Later, Calm
<1>9. \A k : IsActive(runs', k) => IsActive(runs, k)
  BY <1>7, LaterKeeps
<1>10. pc \notin GivingUp /\ pc' \notin Handling \cup Starting /\ pc' # "env_stopped" /\ file.attempts = t.val.attempts
  BY <1>2 DEF GivingUp, Handling, Starting, Counted
<1> QED
  BY <1>2, <1>8, <1>9, <1>10, CountKept

\* An environment stop gives the attempt of a work round back.
LEMMA EnvStopCounts ==
    ASSUME IInv, IInv', NoKills, ~ ghost.commanded, Counted, Current, EnvStopTransition
    PROVE  Counted' /\ Current'
<1>1. pc = "env_stopped" /\ pc' = "sweep" /\ runs' = runs
  BY DEF EnvStopTransition
<1>2. pc \in Handling \ GivingUp /\ pc' \notin Handling \cup Starting
  BY <1>1 DEF Handling, GivingUp, Starting
<1>3. IsNewest(runs, cur.run) /\ file.status = "running" /\ runs[cur.run].st \notin Failing /\ cur.run \in DOMAIN runs
  BY <1>2, OutcomeSound
<1>4. PICK a, s : /\ SaveTask([t.val EXCEPT !.attempts = a, !.status = s])
                  /\ a = (IF runs[cur.run].mode = "work" /\ t.val.attempts > 0
                            THEN t.val.attempts - 1 ELSE t.val.attempts)
                  /\ s \in {"waiting_human", "changes_requested", "ready"}
  BY DEF EnvStopTransition
<1>5. t.val \in Tasks /\ t.val.attempts \in Int /\ a \in Int /\ file.attempts = t.val.attempts
      /\ runs \in Seq(Records)
  BY <1>4 DEF IInv, Shape, Tasks, Counted
<1>6. PICK new : new = [t.val EXCEPT !.attempts = a, !.status = s]
  OBVIOUS
<1>7. new \in Tasks /\ new.attempts = a /\ new.status = s
  BY <1>4, <1>5, <1>6 DEF Tasks, Statuses
<1>8. file'.attempts = a /\ t'.val.attempts = a /\ file'.status = s
  BY <1>4, <1>6, <1>7, AttemptsSaved
<1>9. PICK n \in Nat : n = Cardinality(Spent(runs))
  BY <1>5, SpentFinite
<1>10. n <= a
  BY <1>3, <1>4, <1>5, <1>9 DEF Counted
<1>11. n < MaxAttempts
  BY <1>2, <1>3, <1>9 DEF Counted
<1>12. s # "running" /\ pc' # "env_stopped"
  BY <1>1, <1>4
<1>13. Counted'
  BY <1>1, <1>8, <1>9, <1>10, <1>11, <1>12, TaskLoopAssumption DEF Counted
<1>14. Current'
  BY <1>1, <1>2, <1>8, <1>12 DEF Current
<1> QED
  BY <1>13, <1>14

\* A dispatch counts its attempt before the round can fail.
LEMMA DispatchTransitionCounts ==
    ASSUME IInv, IInv', NoKills, ~ ghost.commanded, Counted, Current, DispatchTransition
    PROVE  Counted' /\ Current'
<1>1. pc = "recorded" /\ pc' = "transitioned" /\ UNCHANGED <<runs, cur>>
  BY DEF DispatchTransition
<1>2. pc \in Starting /\ pc \notin GivingUp /\ pc' \notin Handling \cup Starting /\ pc' # "env_stopped" /\ pc' \notin GivingUp
  BY <1>1 DEF Handling, GivingUp, Starting
<1>3. PICK a : /\ SaveTask([t.val EXCEPT !.status = "running", !.attempts = a])
               /\ a = (IF runs[cur.run].mode = "work" THEN t.val.attempts + 1 ELSE t.val.attempts)
  BY DEF DispatchTransition
<1>4. t.val \in Tasks /\ t.val.attempts \in Int /\ a \in Int /\ file.attempts = t.val.attempts
      /\ runs \in Seq(Records)
  <2>1. t.val \in Tasks /\ t.val.attempts \in Int /\ file.attempts = t.val.attempts /\ runs \in Seq(Records)
    BY DEF IInv, Shape, Tasks, Counted
  <2> QED
    BY <1>3, <2>1
<1>5. PICK new : new = [t.val EXCEPT !.status = "running", !.attempts = a]
  OBVIOUS
<1>6. new \in Tasks /\ new.attempts = a /\ new.status = "running"
  BY <1>4, <1>5 DEF Tasks, Statuses
<1>7. file'.attempts = a /\ t'.val.attempts = a /\ file'.status = "running"
  BY <1>3, <1>5, <1>6, AttemptsSaved
<1>8. PICK n \in Nat : n = Cardinality(Spent(runs))
  BY <1>4, SpentFinite
<1>9. n <= a /\ n < MaxAttempts
  BY <1>2, <1>3, <1>4, <1>8, TaskLoopAssumption DEF Counted, Current
<1>10. IsNewest(runs, cur.run)
  BY <1>2 DEF IInv, Place
<1>11. \A k \in DOMAIN runs : IsNewest(runs, k) => k = cur.run
  <2> SUFFICES ASSUME NEW k \in DOMAIN runs, IsNewest(runs, k) PROVE k = cur.run
    OBVIOUS
  <2>1. cur.run \in DOMAIN runs /\ k <= cur.run /\ cur.run <= k
    BY <1>10 DEF IsNewest, IsWorker
  <2>2. k \in Nat /\ cur.run \in Nat
    BY <1>4, <2>1, RunsDomain
  <2> QED
    BY <2>1, <2>2
<1>12. runs[cur.run].mode = "work" => n + 1 <= a
  BY <1>3, <1>4, <1>8 DEF Counted
<1>13. Counted'
  BY <1>1, <1>7, <1>8, <1>9, <1>11, <1>12, TaskLoopAssumption DEF Counted
<1>14. Current'
  BY <1>1, <1>2, <1>7 DEF Current, Sound
<1> QED
  BY <1>13, <1>14

LEMMA DispatchGoesOnCounts ==
    ASSUME IInv, IInv', NoKills, ~ ghost.commanded, Counted, Current,
           DispatchLaunch \/ DispatchRecordPid \/ AnswerSnapshot
    PROVE  Counted' /\ Current'
<1>1. PICK k : k = cur.run
  OBVIOUS
<1>2. /\ UNCHANGED <<file, t>> /\ cur'.run = cur.run
      /\ \/ pc \in {"reserved", "launched"} /\ pc' \in {"launched", "recorded"}
         \/ pc = "answered" /\ pc' = "idle"
  BY DEF DispatchLaunch, DispatchRecordPid, AnswerSnapshot, IInv, Shape
<1>3. /\ pc \in Starting \cup {"answered"} /\ pc' \notin Handling /\ pc' # "env_stopped"
      /\ (pc' \in Starting => pc \in Starting) /\ pc \notin GivingUp
  BY <1>2 DEF Handling, Starting, GivingUp
<1>4. k \in DOMAIN runs /\ runs[k] \in Records
  BY <1>1, <1>3, HandledRun
<1>5. PICK rec : /\ runs' = [runs EXCEPT ![k] = rec] /\ rec.mode = runs[k].mode
                 /\ \/ rec.st = runs[k].st /\ rec.pid = runs[k].pid
                    \/ rec.st = "running" /\ runs[k].st = "preparing"
  <2>1. CASE DispatchLaunch
    <3>1. PICK rec : rec = [runs[k] EXCEPT !.proc = "live"]
      OBVIOUS
    <3>2. runs' = [runs EXCEPT ![k] = rec]
      BY <1>1, <2>1, <3>1 DEF DispatchLaunch
    <3>3. rec.mode = runs[k].mode /\ rec.st = runs[k].st /\ rec.pid = runs[k].pid
      BY <1>4, <3>1 DEF Records
    <3> QED
      BY <3>2, <3>3
  <2>2. CASE DispatchRecordPid
    <3>1. PICK rec : rec = [runs[k] EXCEPT !.pid = TRUE, !.st = "running"]
      OBVIOUS
    <3>2. runs' = [runs EXCEPT ![k] = rec] /\ pc = "launched" /\ runs[k].st = cur.st
      BY <1>1, <2>2, <3>1 DEF DispatchRecordPid, Conflict
    <3>3. rec.mode = runs[k].mode /\ rec.st = "running"
      BY <1>4, <3>1 DEF Records
    <3>4. cur.st = "preparing"
      BY <3>2 DEF IInv, Place
    <3> QED
      BY <3>2, <3>3, <3>4
  <2>3. CASE AnswerSnapshot
    <3>1. PICK rec : rec = [runs[k] EXCEPT !.crit = 0, !.question = TRUE]
      OBVIOUS
    <3>2. runs' = [runs EXCEPT ![k] = rec]
      BY <1>1, <2>3, <3>1 DEF AnswerSnapshot
    <3>3. rec.mode = runs[k].mode /\ rec.st = runs[k].st /\ rec.pid = runs[k].pid
      BY <1>4, <3>1 DEF Records
    <3> QED
      BY <3>2, <3>3
  <2> QED
    BY <2>1, <2>2, <2>3
<1>6. /\ rec.st \in Active => runs[k].st \in Active
      /\ rec.st \in Failing <=> runs[k].st \in Failing
      /\ rec.st \in Failing => rec.pid = runs[k].pid
  BY <1>5 DEF Active, Failing
<1>7. file.attempts = t.val.attempts
  BY DEF Counted
<1> QED
  BY <1>2, <1>3, <1>4, <1>5, <1>6, <1>7, RecordCounts

\* A worker run is reserved while none is active.
LEMMA ReserveCounts ==
    ASSUME IInv, IInv', Counted, Current, NEW mode \in WorkerModes, NEW crit \in Nat, NEW rb \in BOOLEAN,
           runs' = Append(runs, NewRun(mode, crit, rb)), NoneActive(runs),
           file' = file, t'.val.attempts = file.attempts, file.status \notin {"running", "failed"},
           pc \notin GivingUp, pc' = "reserved"
    PROVE  Counted' /\ Current'
<1>1. PICK n : n = Len(runs) + 1
  OBVIOUS
<1>2. Shape /\ runs \in Seq(Records)
  BY DEF IInv, Shape
<1>3. /\ runs' \in Seq(Records) /\ n \in Nat /\ DOMAIN runs' = DOMAIN runs \cup {n} /\ n \notin DOMAIN runs
      /\ runs'[n] = NewRun(mode, crit, rb) /\ \A k \in DOMAIN runs : runs'[k] = runs[k]
      /\ \A k : IsWorker(runs', k) <=> IsWorker(runs, k) \/ k = n
      /\ IsNewest(runs', n)
  BY <1>1, <1>2, WorkerAdded
<1>4. runs'[n].st = "preparing"
  BY <1>3 DEF NewRun
<1>5. Spent(runs') = Spent(runs)
  BY <1>3, <1>4 DEF Spent, Failing
<1>6. \A k \in DOMAIN runs' : IsNewest(runs', k) => k = n
  <2> SUFFICES ASSUME NEW k \in DOMAIN runs', IsNewest(runs', k) PROVE k = n
    OBVIOUS
  <2>1. n \in DOMAIN runs' /\ k <= n /\ n <= k /\ k \in Nat
    BY <1>3, RunsDomain DEF IsNewest, IsWorker
  <2> QED
    BY <1>3, <2>1
<1>7. \A k \in DOMAIN runs' : IsActive(runs', k) => k = n
  BY <1>3 DEF IsActive, IsWorker, NoneActive
<1>8. pc' \notin Handling /\ pc' # "env_stopped"
  BY DEF Handling
<1>9. Counted'
  BY <1>5 DEF Counted
<1>10. Current'
  BY <1>3, <1>4, <1>6, <1>7, <1>8 DEF Current, Sound, Failing
<1> QED
  BY <1>9, <1>10

LEMMA DispatchReserveCounts ==
    ASSUME IInv, IInv', NoKills, ~ ghost.commanded, Counted, Current, DispatchReserve \/ Answer
    PROVE  Counted' /\ Current'
<1>1. /\ file \in Tasks /\ t.val \in Tasks /\ mem.val.rebase \in BOOLEAN /\ file.status = t.val.status
      /\ file.attempts = t.val.attempts
  BY DEF IInv, Shape, EntryOK, Unbidden, Counted
<1>2. file.crit \in Nat /\ t.val.crit \in Nat
  BY <1>1 DEF Tasks
<1>3. CASE DispatchReserve
  <2>1. /\ pc = "dispatch" /\ QueuedMode # "none" /\ ~ WorkerInFlight /\ pc' = "reserved"
        /\ runs' = Append(runs, NewRun(QueuedMode, t.val.crit, mem.val.rebase)) /\ UNCHANGED <<file, t>>
    BY <1>3 DEF DispatchReserve, Reserve, St
  <2>2. QueuedMode \in WorkerModes /\ t.val.status \in {"ready", "changes_requested"}
    BY <2>1 DEF QueuedMode, WorkerModes
  <2>3. NoneActive(runs)
    BY <2>1 DEF WorkerInFlight, ActiveRuns, Workers, NoneActive, IsActive, IsWorker
  <2>4. pc \notin GivingUp /\ file.status \notin {"running", "failed"} /\ t'.val.attempts = file.attempts
    BY <1>1, <2>1, <2>2 DEF GivingUp
  <2> QED
    BY <1>1, <1>2, <2>1, <2>2, <2>3, <2>4, ReserveCounts
<1>4. CASE Answer
  <2>1. /\ pc = "idle" /\ file.status = "waiting_human" /\ pc' = "reserved"
        /\ runs' = Append(runs, NewRun("resume", file.crit, mem.val.rebase)) /\ UNCHANGED file
        /\ t' = [val |-> file, base |-> file]
    BY <1>4 DEF Answer, Reserve, St
  <2>2. "resume" \in WorkerModes /\ pc \notin GivingUp /\ pc \notin Starting /\ t'.val.attempts = file.attempts
        /\ file.status \notin {"running", "failed"}
    BY <2>1 DEF WorkerModes, GivingUp, Starting
  <2>3. NoneActive(runs)
    BY <2>1, <2>2 DEF IInv, Writer
  <2> QED
    BY <1>1, <1>2, <2>1, <2>2, <2>3, ReserveCounts
<1> QED
  BY <1>3, <1>4

\* What a failed dispatch does to the task.
LEMMA DispatchRaisedIs ==
    ASSUME IInv, NoKills, ~ ghost.commanded, Counted, Current, pc \in Starting,
           UNCHANGED <<file, t>> \/ Transition("failed")
    PROVE  /\ file'.attempts = file.attempts /\ t'.val.attempts = file.attempts
           /\ file'.status # "running" /\ file.status \notin {"running", "failed"}
<1>1. file.status \notin {"running", "failed"} /\ file.attempts = t.val.attempts
  BY DEF IInv, Place, Current, Counted
<1>2. CASE UNCHANGED <<file, t>>
  BY <1>1, <1>2
<1>3. CASE Transition("failed")
  <2>1. PICK new : new = [t.val EXCEPT !.status = "failed"]
    OBVIOUS
  <2>2. new \in Tasks /\ new.status = "failed" /\ new.attempts = t.val.attempts
    BY <2>1 DEF IInv, Shape, Tasks, Statuses
  <2>3. SaveTask(new)
    BY <1>3, <2>1 DEF Transition
  <2>4. file'.attempts = new.attempts /\ t'.val.attempts = new.attempts /\ file'.status = new.status
    BY <2>2, <2>3, AttemptsSaved
  <2> QED
    BY <1>1, <2>2, <2>4
<1> QED
  BY <1>2, <1>3

\* A dispatch that fails before its process is started spends no attempt.
LEMMA DispatchFailureCounts ==
    ASSUME IInv, IInv', NoKills, ~ ghost.commanded, Counted, Current, DispatchFails \/ DispatchDeferred
    PROVE  Counted' /\ Current'
<1>1. PICK k : k = cur.run
  OBVIOUS
<1>2. /\ pc = "reserved" /\ pc' \in {"end", "idle"} /\ (UNCHANGED <<file, t>> \/ Transition("failed"))
      /\ runs' = [runs EXCEPT ![k].st = "failed", ![k].fin = TRUE, ![k].events = @ + 1]
  BY <1>1 DEF DispatchFails, DispatchDeferred, DispatchRaised, CloseDispatchFailure
<1>3. pc \in Starting /\ pc' \notin Handling \cup Starting \cup GivingUp /\ pc' # "env_stopped" /\ pc \notin GivingUp
  BY <1>2 DEF Handling, Starting, GivingUp
<1>4. k \in DOMAIN runs /\ runs[k] \in Records /\ ~ runs[k].pid
  BY <1>1, <1>2, <1>3, HandledRun DEF IInv, Writer
<1>5. PICK rec : rec = ClosedAs(runs[k], "failed")
  OBVIOUS
<1>6. runs' = [runs EXCEPT ![k] = rec]
  BY <1>2, <1>4, <1>5 DEF ClosedAs
<1>7. rec.mode = runs[k].mode /\ rec.st = "failed" /\ ~ rec.pid
  BY <1>4, <1>5, ClosedAsIs DEF Closings
<1>8. /\ runs' \in Seq(Records) /\ DOMAIN runs' = DOMAIN runs /\ runs'[k] = rec
      /\ \A j \in DOMAIN runs : j # k => runs'[j] = runs[j]
  BY <1>4, <1>6, SetOthers
<1>9. Spent(runs') = Spent(runs)
  BY <1>4, <1>7, <1>8 DEF Spent
<1>10. \A j : IsWorker(runs', j) <=> IsWorker(runs, j)
  BY <1>7, <1>8 DEF IsWorker
<1>11. \A j : IsNewest(runs', j) <=> IsNewest(runs, j)
  BY <1>8, <1>10 DEF IsNewest
<1>12. \A j \in DOMAIN runs' : IsActive(runs', j) => IsActive(runs, j)
  BY <1>7, <1>8, <1>10 DEF IsActive, Active
<1>13. /\ file'.attempts = file.attempts /\ t'.val.attempts = file.attempts
       /\ file'.status # "running" /\ file.status \notin {"running", "failed"}
  BY <1>2, <1>3, DispatchRaisedIs
<1>14. Counted'
  BY <1>3, <1>9, <1>13 DEF Counted
<1>15. Current'
  BY <1>3, <1>8, <1>11, <1>12, <1>13 DEF Current
<1> QED
  BY <1>14, <1>15

LEMMA DispatchConflictCounts ==
    ASSUME IInv, IInv', NoKills, ~ ghost.commanded, Counted, Current, DispatchConflict
    PROVE  Counted' /\ Current'
<1>1. pc = "launched" /\ pc' \in {"end", "idle"} /\ (UNCHANGED <<file, t>> \/ Transition("failed")) /\ runs' = runs
  BY DEF DispatchConflict, DispatchRaised
<1>2. pc \in Starting /\ pc' \notin Handling \cup Starting /\ pc' # "env_stopped" /\ pc \notin GivingUp
  BY <1>1 DEF Handling, Starting, GivingUp
<1>3. /\ file'.attempts = file.attempts /\ t'.val.attempts = file.attempts
      /\ file'.status # "running" /\ file.status \notin {"running", "failed"}
  BY <1>1, <1>2, DispatchRaisedIs
<1>4. Calm(runs, runs')
  BY <1>1, CalmSame DEF IInv, Shape
<1> QED
  BY <1>1, <1>2, <1>3, <1>4, CountKept
\* A worker round under way fails: its attempt was counted before.
LEMMA FailureFits ==
    ASSUME IInv, IInv', NoKills, ~ ghost.commanded, Counted, Current, NEW k \in DOMAIN runs, NEW rec,
           runs' = [runs EXCEPT ![k] = rec], rec.mode = runs[k].mode, rec.st \in Failing,
           IsNewest(runs, k), runs[k].st \notin Failing, file.status = "running", pc \notin GivingUp
    PROVE  /\ Cardinality(Spent(runs')) \in Nat
           /\ Cardinality(Spent(runs')) <= file.attempts /\ Cardinality(Spent(runs')) <= MaxAttempts
           /\ \A j \in DOMAIN runs' : IsNewest(runs', j) => j = k
           /\ \A j \in DOMAIN runs' : IsActive(runs', j) => IsNewest(runs', j)
           /\ IsNewest(runs', k) /\ runs'[k].st \in Failing
<1>1. /\ runs \in Seq(Records) /\ runs' \in Seq(Records) /\ DOMAIN runs' = DOMAIN runs /\ runs'[k] = rec
      /\ \A j \in DOMAIN runs : j # k => runs'[j] = runs[j]
  BY SetOthers
<1>2. PICK n \in Nat : n = Cardinality(Spent(runs)) /\ IsFiniteSet(Spent(runs))
  BY <1>1, SpentFinite
<1>3. n <= file.attempts /\ n < MaxAttempts /\ (runs[k].mode = "work" => n + 1 <= file.attempts)
  BY <1>2 DEF Counted
<1>4. PICK m \in Nat : m = Cardinality(Spent(runs')) /\ IsFiniteSet(Spent(runs'))
  BY <1>1, SpentFinite
<1>5. m <= n \/ (runs[k].mode = "work" /\ m <= n + 1)
  <2>1. CASE runs[k].mode # "work"
    <3>1. Spent(runs') = Spent(runs)
      BY <1>1, <2>1 DEF Spent
    <3> QED
      BY <1>2, <1>4, <3>1
  <2>2. CASE runs[k].mode = "work"
    <3>1. Spent(runs') \subseteq Spent(runs) \cup {k}
      BY <1>1 DEF Spent
    <3>2. PICK T : T = Spent(runs) \cup {k}
      OBVIOUS
    <3>3. k \notin Spent(runs)
      BY DEF Spent
    <3>4. IsFiniteSet(T) /\ Cardinality(T) = n + 1
      BY <1>2, <3>2, <3>3, FS_AddElement
    <3>5. Cardinality(Spent(runs')) <= Cardinality(T)
      BY <3>1, <3>2, <3>4, FS_Subset
    <3> QED
      BY <1>4, <2>2, <3>4, <3>5
  <2> QED
    BY <2>1, <2>2
<1>6. file.attempts \in Int /\ MaxAttempts \in Nat
  BY TaskLoopAssumption DEF IInv, Shape, Tasks
<1>7. m <= file.attempts /\ m <= MaxAttempts
  BY <1>3, <1>5, <1>6
<1>8. \A j : IsWorker(runs', j) <=> IsWorker(runs, j)
  BY <1>1 DEF IsWorker
<1>9. \A j : IsNewest(runs', j) <=> IsNewest(runs, j)
  BY <1>1, <1>8 DEF IsNewest
<1>10. \A j \in DOMAIN runs : IsNewest(runs, j) => j = k
  <2> SUFFICES ASSUME NEW j \in DOMAIN runs, IsNewest(runs, j) PROVE j = k
    OBVIOUS
  <2>1. j <= k /\ k <= j /\ j \in Nat /\ k \in Nat
    BY <1>1, RunsDomain DEF IsNewest
  <2> QED
    BY <2>1
<1>11. \A j \in DOMAIN runs' : IsActive(runs', j) => IsNewest(runs', j)
  <2> SUFFICES ASSUME NEW j \in DOMAIN runs', IsActive(runs', j) PROVE IsNewest(runs', j)
    OBVIOUS
  <2>1. j # k => IsActive(runs, j)
    BY <1>1, <1>8 DEF IsActive
  <2> QED
    BY <1>1, <1>9, <2>1 DEF Current
<1> QED
  BY <1>1, <1>4, <1>7, <1>9, <1>10, <1>11

LEMMA FailureCounts ==
    ASSUME IInv, IInv', NoKills, ~ ghost.commanded, Counted, Current, TimeOut \/ FailRun
    PROVE  Counted' /\ Current'
<1>1. PICK k, rec :
        /\ k \in DOMAIN runs
        /\ runs' = [runs EXCEPT ![k] = rec] /\ rec.mode = runs[k].mode /\ rec.st \in Failing
        /\ IsNewest(runs, k) /\ runs[k].st \notin Failing /\ file.status = "running" /\ pc \notin GivingUp
        /\ cur'.run = k /\ UNCHANGED <<file, t>> /\ pc' \in GivingUp
  <2>1. CASE TimeOut
    <3>1. PICK k : k = LatestWorkerRun
      OBVIOUS
    <3>2. /\ pc = "reap" /\ k # 0 /\ runs[k].st = "running" /\ cur' = [run |-> k, st |-> "timeout"]
          /\ runs' = [runs EXCEPT ![k].proc = "dying", ![k].res = "failed", ![k].st = "timeout", ![k].fin = TRUE]
          /\ pc' = "timed_out" /\ t.val.status = "running" /\ UNCHANGED <<file, t>>
      BY <2>1, <3>1 DEF TimeOut, ReapsWorker
    <3>3. IsNewest(runs, k) /\ k \in DOMAIN runs
      BY <3>1, <3>2, TakesNewest
    <3>4. runs[k] \in Records /\ file.status = "running"
      BY <3>2, <3>3, RunsDomain DEF IInv, Shape, Unbidden
    <3>5. PICK rec : rec = [runs[k] EXCEPT !.proc = "dying", !.res = "failed", !.st = "timeout", !.fin = TRUE]
      OBVIOUS
    <3>6. runs' = [runs EXCEPT ![k] = rec]
      BY <3>2, <3>5
    <3>7. rec.mode = runs[k].mode /\ rec.st = "timeout"
      BY <3>4, <3>5 DEF Records
    <3>8. rec.st \in Failing /\ runs[k].st \notin Failing /\ pc \notin GivingUp /\ pc' \in GivingUp /\ cur'.run = k
      BY <3>2, <3>7 DEF Failing, GivingUp
    <3> QED
      BY <3>2, <3>3, <3>4, <3>6, <3>7, <3>8
  <2>2. CASE FailRun
    <3>1. PICK k : k = cur.run
      OBVIOUS
    <3>2. pc = "outcome" /\ pc' = "giving_up" /\ CloseRun("failed") /\ UNCHANGED <<file, t>>
      BY <2>2 DEF FailRun, Outcome
    <3>3. pc \in Handling \ GivingUp /\ pc' \in GivingUp /\ pc \notin GivingUp
      BY <3>2 DEF Handling, GivingUp
    <3>4. /\ IsNewest(runs, k) /\ file.status = "running" /\ runs[k].st \notin Failing
          /\ k \in DOMAIN runs /\ runs[k] \in Records
      BY <3>1, <3>3, OutcomeSound
    <3>5. PICK rec : rec = [runs[k] EXCEPT !.st = "failed"]
      OBVIOUS
    <3>6. runs' = [runs EXCEPT ![k] = rec] /\ cur'.run = k
      BY <3>1, <3>2, <3>5 DEF CloseRun, IInv, Shape
    <3>7. rec.mode = runs[k].mode /\ rec.st \in Failing
      BY <3>4, <3>5 DEF Records, Failing
    <3> QED
      BY <3>2, <3>3, <3>4, <3>6, <3>7
  <2> QED
    BY <2>1, <2>2
<1>2. /\ Cardinality(Spent(runs')) <= file.attempts /\ Cardinality(Spent(runs')) <= MaxAttempts
      /\ \A j \in DOMAIN runs' : IsNewest(runs', j) => j = k
      /\ \A j \in DOMAIN runs' : IsActive(runs', j) => IsNewest(runs', j)
      /\ IsNewest(runs', k) /\ runs'[k].st \in Failing
  BY <1>1, FailureFits
<1>3. pc' \notin Starting /\ pc' # "env_stopped"
  BY <1>1 DEF GivingUp, Starting
<1>4. Counted'
  BY <1>1, <1>2 DEF Counted
<1>5. Current'
  BY <1>1, <1>2, <1>3 DEF Current
<1> QED
  BY <1>4, <1>5

\* The sweep closes a record whose process is gone: a worker's failed round is
\* retried or given up in the same step.
LEMMA SweepDeadCounts ==
    ASSUME IInv, IInv', NoKills, ~ ghost.commanded, Counted, Current, NEW k, SweepDead(k)
    PROVE  Counted' /\ Current'
<1>1. /\ pc = "sweep" /\ pc' = "sweep" /\ k \in ActiveRuns /\ cur' = [run |-> k, st |-> "failed"]
      /\ runs' = [runs EXCEPT ![k].st = "failed", ![k].fin = TRUE, ![k].events = @ + 1]
  BY DEF SweepDead
<1>2. k \in DOMAIN runs /\ runs[k] \in Records /\ runs[k].st \in Active
  BY <1>1, ActiveIs DEF IInv
<1>3. PICK rec : rec = ClosedAs(runs[k], "failed")
  OBVIOUS
<1>4. runs' = [runs EXCEPT ![k] = rec]
  BY <1>1, <1>2, <1>3 DEF ClosedAs
<1>5. rec.mode = runs[k].mode /\ rec.st = "failed" /\ rec.pid = runs[k].pid
  BY <1>2, <1>3, ClosedAsIs DEF Closings
<1>6. rec.st \in Failing /\ rec.st \notin Active /\ runs[k].st \notin Failing /\ pc \notin GivingUp
      /\ pc' \notin Handling \cup Starting \cup GivingUp \cup {"env_stopped"}
  BY <1>1, <1>2, <1>5 DEF Failing, Active, GivingUp, Handling, Starting
<1>7. CASE runs[k].mode \in WorkerModes
  <2>1. t.val.status = "running" /\ LatestWorkerRun = k /\ IsActive(runs, k)
    BY <1>1, <1>7, SweptWorker
  <2>2. IsNewest(runs, k) /\ file.status = "running" /\ k \in Workers
    BY <1>2, <1>7, <2>1 DEF Current, IInv, Unbidden, Workers
  <2>3. PICK m \in Nat : /\ m = Cardinality(Spent(runs')) /\ m <= file.attempts /\ m <= MaxAttempts
                         /\ \A j \in DOMAIN runs' : IsActive(runs', j) => IsNewest(runs', j)
    BY <1>2, <1>4, <1>5, <1>6, <2>2, FailureFits
  <2>4. PICK s \in {"ready", "failed"} : Transition(s) /\ (s = "ready" => t.val.attempts < MaxAttempts)
    BY <2>1, <2>2 DEF SweepDead, RetryStatus
  <2>5. PICK new : new = [t.val EXCEPT !.status = s]
    OBVIOUS
  <2>6. new \in Tasks /\ new.status = s /\ new.attempts = t.val.attempts
    BY <2>5 DEF IInv, Shape, Tasks, Statuses
  <2>7. SaveTask(new)
    BY <2>4, <2>5 DEF Transition
  <2>8. file'.attempts = t.val.attempts /\ t'.val.attempts = t.val.attempts /\ file'.status = s
    BY <2>6, <2>7, AttemptsSaved
  <2>9. file.attempts = t.val.attempts /\ file.attempts \in Int /\ MaxAttempts \in Nat
    BY TaskLoopAssumption DEF Counted, IInv, Shape, Tasks
  <2>10. m < MaxAttempts \/ s = "failed"
    BY <2>3, <2>4, <2>9
  <2>11. Counted'
    BY <2>3, <2>4, <2>8, <2>9, <2>10 DEF Counted
  <2>12. Current'
    BY <1>6, <2>3, <2>4, <2>8 DEF Current
  <2> QED
    BY <2>11, <2>12
<1>8. CASE runs[k].mode \notin WorkerModes
  <2>1. UNCHANGED <<file, t>>
    BY <1>8 DEF SweepDead, Workers
  <2>2. file.attempts = t.val.attempts
    BY DEF Counted
  <2> QED
    BY <1>2, <1>4, <1>5, <1>6, <1>8, <2>1, <2>2, RecordCounts
<1> QED
  BY <1>7, <1>8

LEMMA SweepDanglingCounts ==
    ASSUME IInv, IInv', NoKills, ~ ghost.commanded, Counted, Current, NEW k, SweepDangling(k)
    PROVE  Counted' /\ Current'
<1>1. /\ pc = "sweep" /\ pc' = "sweep" /\ k \in ActiveRuns /\ UNCHANGED <<file, t>> /\ Dangling(k)
      /\ runs' = [runs EXCEPT ![k].st = "closed", ![k].fin = TRUE, ![k].events = @ + 1]
  BY DEF SweepDangling
<1>2. k \in DOMAIN runs /\ runs[k] \in Records /\ runs[k].mode \notin WorkerModes
  BY <1>1, ActiveIs, SweptIsCheck DEF IInv
<1>3. PICK rec : rec = ClosedAs(runs[k], "closed")
  OBVIOUS
<1>4. runs' = [runs EXCEPT ![k] = rec]
  BY <1>1, <1>2, <1>3 DEF ClosedAs
<1>5. rec.mode = runs[k].mode /\ rec.st = "closed"
  BY <1>2, <1>3, ClosedAsIs DEF Closings
<1>6. rec.st \notin Active /\ pc' \notin Handling \cup Starting \cup {"env_stopped"} /\ pc \notin GivingUp
      /\ file.attempts = t.val.attempts
  BY <1>1, <1>5 DEF Active, Handling, Starting, GivingUp, Counted
<1> QED
  BY <1>1, <1>2, <1>4, <1>5, <1>6, RecordCounts

\* A process ends: no record changes its status.
LEMMA ProcessCounts ==
    ASSUME IInv, IInv', NoKills, ~ ghost.commanded, Counted, Current, NEW k \in DOMAIN runs,
           \/ \E result : ProcessEnds(k, result)
           \/ ProcessVanishes(k) \/ ProcessDies(k)
    PROVE  Counted' /\ Current'
<1>1. runs[k] \in Records /\ UNCHANGED <<file, t, pc, cur>> /\ file.attempts = t.val.attempts
  BY RunsDomain DEF IInv, Shape, ProcessEnds, ProcessVanishes, ProcessDies, Counted
<1>2. PICK rec : /\ runs' = [runs EXCEPT ![k] = rec] /\ rec.mode = runs[k].mode
                 /\ rec.st = runs[k].st /\ rec.pid = runs[k].pid
  <2>1. CASE (\E result : ProcessEnds(k, result)) \/ ProcessVanishes(k)
    <3>1. PICK p, result : runs' = [runs EXCEPT ![k].proc = p, ![k].res = result]
      BY <2>1 DEF ProcessEnds, ProcessVanishes
    <3>2. PICK rec : rec = [runs[k] EXCEPT !.proc = p, !.res = result]
      OBVIOUS
    <3>3. runs' = [runs EXCEPT ![k] = rec]
      BY <3>1, <3>2
    <3>4. rec.mode = runs[k].mode /\ rec.st = runs[k].st /\ rec.pid = runs[k].pid
      BY <1>1, <3>2 DEF Records
    <3> QED
      BY <3>3, <3>4
  <2>2. CASE ProcessDies(k)
    <3>1. PICK rec : rec = [runs[k] EXCEPT !.proc = "gone"]
      OBVIOUS
    <3>2. runs' = [runs EXCEPT ![k] = rec]
      BY <2>2, <3>1 DEF ProcessDies
    <3>3. rec.mode = runs[k].mode /\ rec.st = runs[k].st /\ rec.pid = runs[k].pid
      BY <1>1, <3>1 DEF Records
    <3> QED
      BY <3>2, <3>3
  <2> QED
    BY <2>1, <2>2
<1>3. pc' \in Handling => IsNewest(runs, cur'.run)
  BY <1>1 DEF Current
<1>4. pc' = "env_stopped" => runs'[cur'.run].st = "env_error"
  <2>1. /\ DOMAIN runs' = DOMAIN runs /\ runs'[k] = rec
        /\ \A j \in DOMAIN runs : j # k => runs'[j] = runs[j]
    BY <1>2, SetOthers
  <2>2. pc = "env_stopped" => cur.run \in DOMAIN runs
    BY HandledRun DEF Handling
  <2> QED
    BY <1>1, <1>2, <2>1, <2>2 DEF Current
<1> QED
  BY <1>1, <1>2, <1>3, <1>4, RecordCounts

LEMMA EditCounts ==
    ASSUME IInv, IInv', NoKills, ~ ghost.commanded, Counted, Current, EditCriteria
    PROVE  Counted' /\ Current'
<1>1. UNCHANGED <<runs, t, pc, cur>> /\ file' = [file EXCEPT !.crit = @ + 1] /\ file \in Tasks
  BY DEF EditCriteria, IInv, Shape
<1>2. file'.attempts = file.attempts /\ file'.status = file.status
  BY <1>1 DEF Tasks
<1>3. Counted' /\ Current'
  BY <1>1, <1>2 DEF Counted, Current, Sound
<1> QED
  BY <1>3
\* A command is not taken back.
LEMMA StaysCommanded == ASSUME IInv, [Next]_vars, ~ ghost'.commanded PROVE ~ ghost.commanded
<1>1. ghost \in [cancelled : BOOLEAN, moved : BOOLEAN, edits : Nat, commanded : BOOLEAN]
  BY DEF IInv, Shape
<1>2. CASE ghost' = ghost
  BY <1>2
<1>3. CASE EvidenceGaps \/ OpenPr \/ OpenPrFails
  <2>1. PICK v : ghost' = [ghost EXCEPT !.moved = v]
    BY <1>3 DEF EvidenceGaps, OpenPr, OpenPrFails, Judge
  <2> QED
    BY <1>1, <2>1
<1>4. CASE EditCriteria
  BY <1>1, <1>4 DEF EditCriteria
<1>5. CASE \E kind \in {"cancel", "retry"} : CommandLoads(kind)
  BY <1>1, <1>5 DEF CommandLoads
<1>6. CASE CommandTransition
  <2>1. PICK v : ghost' = [ghost EXCEPT !.cancelled = v]
    BY <1>6 DEF CommandTransition
  <2> QED
    BY <1>1, <2>1
<1>7. CASE ReapWorker \/ TickStart \/ TickEnd \/ AnswerSnapshot \/ Answer \/ Crash
  BY <1>2, <1>7 DEF ReapWorker, ReapNothing, TimeOut, EmitTimeout, CollectRun, EmitFinished, ResumeFinalize,
     TickStart, TickEnd, AnswerSnapshot, Answer, Crash
<1>8. CASE Finalize
  BY <1>2, <1>8 DEF Finalize, FinalizeRefused, FailRun, RetryOrFail, BlockRun, AskHuman, AskTransition, EnvStop,
     EnvStopTransition, FinishRun, PushFails, PushWithoutChecks, PushThenCheck, CheckRefused, StartCheck
<1>9. CASE ReapCheck
  BY <1>2, <1>9 DEF ReapCheck, RetireCheck, ForgetCheck, CloseCheck, MarkCollected, RerouteCheck, RetryCheck,
     ParkCheck, ParkTransition, ChecksPass, ProbeBase, RebaseAndRecheck, BaseBroken, RebaseFails,
     NextCheckRefused, BranchAtFault, RebaseConflicts, SaveCheckPointer, StartCheck, CheckRevise
<1>10. CASE OpenPrTransition \/ Sweep
  BY <1>2, <1>10 DEF OpenPrTransition, Sweep, SweepDone, SweepDead, SweepDangling
<1>11. CASE Dispatch
  BY <1>2, <1>11 DEF Dispatch, DispatchNothing, DispatchReserve, DispatchFails, DispatchDeferred, DispatchLaunch,
     DispatchRecordPid, DispatchConflict, DispatchTransition, DispatchSave, DispatchRaised
<1>12. CASE Exits \/ \E k \in DOMAIN runs : ProcessVanishes(k)
  BY <1>2, <1>12 DEF Exits, ProcessEnds, ProcessDies, ProcessVanishes
<1>13. CASE CommandStops \/ CommandRefused \/ CommandSaves
  BY <1>2, <1>13 DEF CommandStops, CommandRefused, CommandSaves
<1>14. CASE UNCHANGED vars
  BY <1>2, <1>14 DEF vars
<1> QED
  BY <1>3, <1>4, <1>5, <1>6, <1>7, <1>8, <1>9, <1>10, <1>11, <1>12, <1>13, <1>14
     DEF Next, Tick, PullRequest, Command

LEMMA InitBudget == ASSUME Init PROVE Budget
<1>1. runs = <<>> /\ file.attempts = 0 /\ t.val.attempts = 0 /\ file.status = "ready" /\ pc = "idle"
  BY DEF Init
<1>2. DOMAIN runs = {} /\ Spent(runs) = {}
  BY <1>1 DEF Spent
<1>3. Cardinality(Spent(runs)) = 0
  BY <1>2, FS_EmptySet
<1>4. MaxAttempts \in Nat \ {0}
  BY TaskLoopAssumption
<1>5. Counted
  BY <1>1, <1>2, <1>3, <1>4 DEF Counted
<1>6. Current
  BY <1>1, <1>2 DEF Current, Starting, Handling
<1> QED
  BY <1>5, <1>6 DEF Budget

LEMMA NextBudget == ASSUME IInv, IInv', Budget, [Next]_vars PROVE Budget'
<1> SUFFICES ASSUME NoKills, ~ ghost'.commanded PROVE Counted' /\ Current'
  BY DEF Budget, NoKills
<1>1. ~ ghost.commanded
  BY StaysCommanded
<1>2. Counted /\ Current
  BY <1>1 DEF Budget
<1>3. CASE ReapWorker
  BY <1>1, <1>2, <1>3, RestCounts, FailureCounts, EmitCounts, CollectCounts, ResumeCounts DEF ReapWorker
<1>4. CASE Finalize
  BY <1>1, <1>2, <1>4, RestCounts, FailureCounts, FollowCounts, BlockCounts, OutcomeCounts, EnvStopCounts,
     StartCheckCounts DEF Finalize
<1>5. CASE ReapCheck
  BY <1>1, <1>2, <1>5, RestCounts, CheckCounts, StartCheckCounts, VerdictCounts DEF ReapCheck
<1>6. CASE PullRequest
  BY <1>1, <1>2, <1>6, RestCounts, VerdictCounts, OpenPrTransitionCounts DEF PullRequest
<1>7. CASE Sweep
  BY <1>1, <1>2, <1>7, RestCounts, SweepDeadCounts, SweepDanglingCounts DEF Sweep
<1>8. CASE Dispatch
  BY <1>1, <1>2, <1>8, RestCounts, DispatchReserveCounts, DispatchFailureCounts, DispatchGoesOnCounts,
     DispatchConflictCounts, DispatchTransitionCounts DEF Dispatch
<1>9. CASE TickStart \/ AnswerSnapshot \/ TickEnd \/ Answer
  BY <1>1, <1>2, <1>9, RestCounts, DispatchGoesOnCounts, DispatchReserveCounts
<1>10. CASE Exits \/ \E k \in DOMAIN runs : ProcessVanishes(k)
  BY <1>1, <1>2, <1>10, ProcessCounts DEF Exits
<1>11. CASE Command
  <2>1. op.at = "none"
    BY <1>1 DEF IInv, Unbidden
  <2>2. PICK kind : CommandLoads(kind)
    BY <1>11, <2>1 DEF Command, CommandStops, CommandRefused, CommandTransition, CommandSaves
  <2>3. ghost' = [ghost EXCEPT !.commanded = TRUE]
        /\ ghost \in [cancelled : BOOLEAN, moved : BOOLEAN, edits : Nat, commanded : BOOLEAN]
    BY <2>2 DEF CommandLoads, IInv, Shape
  <2> QED
    BY <2>3
<1>12. CASE EditCriteria
  BY <1>1, <1>2, <1>12, EditCounts
<1>13. CASE Crash
  BY <1>13 DEF Crash, IInv, Writer
<1>14. CASE UNCHANGED vars
  BY <1>2, <1>14 DEF vars, Counted, Current, Sound
<1> QED
  BY <1>3, <1>4, <1>5, <1>6, <1>7, <1>8, <1>9, <1>10, <1>11, <1>12, <1>13, <1>14 DEF Next, Tick

\* Work rounds that ran and failed never exceed the task's attempts, however
\* failures, time-outs, environment stops, failed dispatches, answers and edits
\* follow each other, as long as no command was given and the controller is not
\* killed: dispatch counts the attempt before the round can fail, an environment
\* stop gives back only an attempt that no failure has used, and every path that
\* closes a failed round compares the count before it queues another.
THEOREM AttemptsBounded == ASSUME NoKills PROVE Spec => []AttemptBudget
<1>1. Init => Budget
  BY InitBudget
<1>2. IInv /\ IInv' /\ Budget /\ [Next]_vars => Budget'
  BY NextBudget
<1>3. ASSUME Budget PROVE AttemptBudget
  BY <1>3 DEF Budget, Counted, Spent, Failing, AttemptBudget
<1> QED
  BY <1>1, <1>2, <1>3, Invariant, PTL DEF Spec
=============================================================================
