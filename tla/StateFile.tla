----------------------------- MODULE StateFile -----------------------------
(***************************************************************************)
(* One task's entry of .garden/state.json, shared by every process of a    *)
(* garden.                                                                 *)
(*                                                                         *)
(* A process loads the entry into a _TaskState, which records the keys its *)
(* callers write and keeps a copy of every nested value it hands out, so   *)
(* that a change made inside such a value is found when the entry is       *)
(* saved.  State.save takes the file lock, reads the file again and        *)
(* overwrites the changed keys only.  For a finished task the historical   *)
(* keys are moved to a content-addressed blob and replaced by a reference; *)
(* a task that may run again gets them back.                               *)
(*                                                                         *)
(* Every value is a nested one (list or dict): a scalar is the special     *)
(* case that nobody changes in place.  A blob is identified with its       *)
(* payload, as its name is the payload's hash.                             *)
(*                                                                         *)
(* The state and the specification have names of their own (entry, budget, *)
(* FileSpec, ...), so that one module of proofs can extend this module     *)
(* together with PrFeedback, which keeps its rows in the same file.        *)
(***************************************************************************)
EXTENDS Naturals

CONSTANTS
    Procs,        \* processes: controller, web server, commands
    Hot,          \* keys the scheduler acts on
    Hist,         \* HISTORICAL_KEYS
    Ref,          \* the key _history_ref
    Values,       \* values of the other keys
    Absent,       \* what a missing key is read as
    MaxChanges,   \* bound: writes, deletions and changes in place
    MaxLoads,     \* bound: loads of the file
    MaxArchives   \* bound: archive plans

Keys == Hot \cup Hist
AllKeys == Keys \cup {Ref}
Payloads == [Hist -> Values \cup {Absent}]
NoPayload == [h \in Hist |-> Absent]

ASSUME StateFileAssumption ==
    /\ Ref \notin Keys
    /\ Hot \cap Hist = {}
    /\ Absent \notin Values
    /\ Absent \notin Payloads
    /\ {MaxChanges, MaxLoads, MaxArchives} \subseteq Nat

VARIABLES
    entry,     \* the entry in the file
    terminal,  \* whether the task's status is terminal
    val,       \* val[p]: the entry in p's memory
    written,   \* written[p]: keys named by an explicit write (_written)
    snap,      \* snap[p]: copies of the values handed out (_snapshots)
    held,      \* held[p]: keys whose live value a caller of p can change in place
    plan,      \* plan[p]: the payload p prepared, NoPayload when none
    base,      \* history: base[p] is what p last agreed on with the file, key by key
    changed,   \* history: changed[p] are the keys p's callers changed since then
    budget     \* what remains of the bounds

tracking == <<written, snap, held>>
fileVars == <<entry, terminal, val, tracking, plan, base, changed, budget>>

Entries == {e \in [AllKeys -> Values \cup Payloads \cup {Absent}] :
              /\ e[Ref] \in Payloads \cup {Absent}
              /\ \A k \in Keys : e[k] \in Values \cup {Absent}}
Nothing == [k \in AllKeys |-> Absent]

\* historical: only it looks through the reference; what is present wins.
View(e) ==
    [k \in Keys |-> IF k \in Hist /\ e[k] = Absent /\ e[Ref] # Absent THEN e[Ref][k]
                    ELSE e[k]]

PayloadOf(e) == [h \in Hist |-> e[h]]

\* The program starts without a file.
FileInit ==
    /\ entry = Nothing /\ terminal = FALSE
    /\ val = [p \in Procs |-> Nothing]
    /\ written = [p \in Procs |-> {}]
    /\ snap = [p \in Procs |-> Nothing]
    /\ held = [p \in Procs |-> {}]
    /\ plan = [p \in Procs |-> NoPayload]
    /\ base = [p \in Procs |-> Nothing]
    /\ changed = [p \in Procs |-> {}]
    /\ budget = [changes |-> MaxChanges, loads |-> MaxLoads, archives |-> MaxArchives]

\* A key that was named, or whose value no longer equals the copy.
Dirty(p) ==
    written[p] \cup {k \in AllKeys : /\ snap[p][k] # Absent /\ val[p][k] # Absent
                                     /\ val[p][k] # snap[p][k]}

-----------------------------------------------------------------------------
(* A process and its copy.                                                 *)

\* State(path): the copy, and with it every unsaved change, is replaced.
Load(p) ==
    /\ budget.loads > 0
    /\ val' = [val EXCEPT ![p] = entry]
    /\ written' = [written EXCEPT ![p] = {}]
    /\ snap' = [snap EXCEPT ![p] = Nothing]
    /\ held' = [held EXCEPT ![p] = {}]
    /\ base' = [base EXCEPT ![p] = entry]
    /\ changed' = [changed EXCEPT ![p] = {}]
    /\ budget' = [budget EXCEPT !.loads = @ - 1]
    /\ UNCHANGED <<entry, terminal, plan>>

\* __getitem__ of the keys in ks: a copy of each value not copied before.
Copied(p, ks) ==
    [k \in AllKeys |-> IF k \in ks /\ snap[p][k] = Absent THEN val[p][k] ELSE snap[p][k]]

\* Mutant: reading a nested value marks its key.
ReadMarks(p, k) ==
    /\ val[p][k] # Absent /\ k \notin held[p]
    /\ written' = [written EXCEPT ![p] = @ \cup {k}]
    /\ held' = [held EXCEPT ![p] = @ \cup {k}]
    /\ UNCHANGED <<entry, terminal, val, snap, plan, base, changed, budget>>

\* get, []: the caller may keep the value and change it later.
Read(p, k) ==
    /\ val[p][k] # Absent /\ k \notin held[p]
    /\ snap' = [snap EXCEPT ![p] = Copied(p, {k})]
    /\ held' = [held EXCEPT ![p] = @ \cup {k}]
    /\ UNCHANGED <<entry, terminal, val, written, plan, base, changed, budget>>

Spend == budget.changes > 0 /\ budget' = [budget EXCEPT !.changes = @ - 1]

\* A caller appends to a value it holds; nothing is told to the _TaskState.
ChangeInPlace(p, k, v) ==
    /\ Spend
    /\ k \in held[p] /\ v # val[p][k]
    /\ val' = [val EXCEPT ![p][k] = v]
    /\ changed' = [changed EXCEPT ![p] = @ \cup {k}]
    /\ UNCHANGED <<entry, terminal, tracking, plan, base>>

\* A write that names its key.
Named(p, k, v) ==
    /\ Spend
    /\ val' = [val EXCEPT ![p][k] = v]
    /\ written' = [written EXCEPT ![p] = @ \cup {k}]
    /\ changed' = [changed EXCEPT ![p] = @ \cup {k}]
    /\ UNCHANGED <<entry, terminal, plan, base>>

\* __setitem__, update
Write(p, k, v) ==
    /\ Named(p, k, v)
    /\ snap' = [snap EXCEPT ![p][k] = Absent]
    /\ held' = [held EXCEPT ![p] = @ \cup {k}]

\* setdefault of a missing key; of a present one it is Read.
SetDefault(p, k, v) ==
    /\ val[p][k] = Absent
    /\ Named(p, k, v)
    /\ snap' = [snap EXCEPT ![p][k] = v]
    /\ held' = [held EXCEPT ![p] = @ \cup {k}]

\* pop, __delitem__, popitem, clear.  pop(key, None) of a missing key counts.
Delete(p, k) ==
    /\ Named(p, k, Absent)
    /\ snap' = [snap EXCEPT ![p][k] = Absent]
    /\ held' = [held EXCEPT ![p] = @ \ {k}]

-----------------------------------------------------------------------------
(* Saving.                                                                 *)

\* Mutant: a saved key's copy is dropped, not renewed.
FlushedForgets(p, e, ks) ==
    /\ written' = [written EXCEPT ![p] = @ \ ks]
    /\ snap' = [snap EXCEPT ![p] = [k \in AllKeys |-> IF k \in ks THEN Absent ELSE @[k]]]

\* flushed: the keys ks of the entry e are on disk; their copies are renewed.
Flushed(p, e, ks) ==
    /\ written' = [written EXCEPT ![p] = @ \ ks]
    /\ snap' = [snap EXCEPT ![p] = [k \in AllKeys |-> IF k \in ks THEN e[k] ELSE @[k]]]

\* ... and that is what process and file agree on.
Agree(p, e, ks) ==
    /\ base' = [base EXCEPT ![p] = [k \in AllKeys |-> IF k \in ks THEN e[k] ELSE @[k]]]
    /\ changed' = [changed EXCEPT ![p] = @ \ ks]

\* The keys ks of e over what the file holds now.
Merged(e, ks) == [k \in AllKeys |-> IF k \in ks THEN e[k] ELSE entry[k]]

Save(p) ==
    /\ Dirty(p) # {}
    /\ entry' = Merged(val[p], Dirty(p))
    /\ Flushed(p, val[p], Dirty(p))
    /\ Agree(p, val[p], Dirty(p))
    /\ UNCHANGED <<terminal, val, held, plan, budget>>

-----------------------------------------------------------------------------
(* History of finished tasks.                                              *)

\* The task finishes, or a person reopens it.
ChangeStatus ==
    /\ terminal' = ~terminal
    /\ UNCHANGED <<entry, val, tracking, plan, base, changed, budget>>

\* prepare_completed: the blob is written and verified, the entry untouched.
Prepare(p) ==
    /\ budget.archives > 0
    /\ terminal /\ PayloadOf(val[p]) # NoPayload
    /\ plan' = [plan EXCEPT ![p] = PayloadOf(val[p])]
    /\ snap' = [snap EXCEPT ![p] = Copied(p, Hist)]
    /\ budget' = [budget EXCEPT !.archives = @ - 1]
    /\ UNCHANGED <<entry, terminal, val, written, held, base, changed>>

\* Mutant: only the process's own copy is compared with the plan.
PlanOfCopy(p) == terminal /\ PayloadOf(val[p]) = plan[p]

\* Memory and file still hold exactly what was prepared.
PlanHolds(p) == terminal /\ PayloadOf(val[p]) = plan[p] /\ PayloadOf(entry) = plan[p]

Planned(p) == {h \in Hist : plan[p][h] # Absent} \cup {Ref}

\* The archived keys leave the entry, the reference enters it.
Archived(p, e) ==
    [k \in AllKeys |-> IF k = Ref THEN plan[p] ELSE IF k \in Planned(p) THEN Absent ELSE e[k]]

\* commit_completed, under the file lock.
Commit(p) ==
    /\ plan[p] # NoPayload /\ PlanHolds(p)
    /\ entry' = Archived(p, entry)
    /\ val' = [val EXCEPT ![p] = Archived(p, val[p])]
    /\ Flushed(p, Archived(p, val[p]), Planned(p))
    /\ Agree(p, Archived(p, val[p]), Planned(p))
    /\ held' = [held EXCEPT ![p] = @ \ Planned(p)]
    /\ plan' = [plan EXCEPT ![p] = NoPayload]
    /\ UNCHANGED <<terminal, budget>>

\* Something changed meanwhile: the plan is passed over.
CommitSkipped(p) ==
    /\ plan[p] # NoPayload /\ ~PlanHolds(p)
    /\ snap' = [snap EXCEPT ![p] = IF terminal THEN Copied(p, Hist) ELSE @]
    /\ plan' = [plan EXCEPT ![p] = NoPayload]
    /\ UNCHANGED <<entry, terminal, val, written, held, base, changed, budget>>

\* A copy straight from the file.
Fresh(p) == written[p] = {} /\ snap[p] = Nothing

Restored(p) == {Ref} \cup {h \in Hist : View(val[p])[h] # Absent}

Whole(p) ==
    [k \in AllKeys |-> IF k = Ref THEN Absent ELSE View(val[p])[k]]

\* _restore_operational_history, called right after a load: the archived keys
\* become ordinary ones again, as explicit writes, and are saved.
RestoreOperational(p) ==
    /\ Fresh(p) /\ ~terminal /\ val[p][Ref] # Absent
    /\ val' = [val EXCEPT ![p] = Whole(p)]
    /\ entry' = Merged(Whole(p), Restored(p))
    /\ Flushed(p, Whole(p), Restored(p))
    /\ Agree(p, Whole(p), Restored(p))
    /\ UNCHANGED <<terminal, held, plan, budget>>

-----------------------------------------------------------------------------
Change(p) ==
    \E k \in Keys :
        \/ Read(p, k) \/ Delete(p, k)
        \/ \E v \in Values : ChangeInPlace(p, k, v) \/ Write(p, k, v) \/ SetDefault(p, k, v)

FileNext ==
    \/ ChangeStatus
    \/ \E p \in Procs : \/ Load(p) \/ Change(p) \/ Save(p) \/ Prepare(p)
                        \/ Commit(p) \/ CommitSkipped(p) \/ RestoreOperational(p)

FileSpec == FileInit /\ [][FileNext]_fileVars

-----------------------------------------------------------------------------
(* Properties.                                                             *)

FileTypeOK ==
    /\ entry \in Entries
    /\ terminal \in BOOLEAN
    /\ val \in [Procs -> Entries]
    /\ written \in [Procs -> SUBSET Keys]
    /\ snap \in [Procs -> Entries]
    /\ held \in [Procs -> SUBSET Keys]
    /\ plan \in [Procs -> Payloads]
    /\ base \in [Procs -> Entries]
    /\ changed \in [Procs -> SUBSET Keys]
    /\ budget \in [changes : Nat, loads : Nat, archives : Nat]

\* Whatever a caller did, by name or inside a value it once got, a key that save
\* would leave out is as it was when the process and the file last agreed on it:
\* no change is lost (_TaskState.dirty, flushed).
NothingForgotten ==
    \A p \in Procs, k \in AllKeys : k \notin Dirty(p) => val[p][k] = base[p][k]

\* A control key changes on disk only to what some process's caller made it
\* since that process last agreed on it with the file: a process that only read
\* a key, or saved it before, never overwrites another's newer value (State.save).
ReadersNeverClobber ==
    [][\A k \in Hot : entry'[k] # entry[k] =>
          \E p \in Procs : k \in changed[p] /\ entry'[k] = val[p][k]]_fileVars

\* p's copy of the history is not what the file holds.
Outdated(p) == \E k \in Hist \cup {Ref} : base[p][k] # entry[k]

\* Archiving a task for the first time, and restoring it from an up-to-date
\* copy, change nothing that historical() shows, whoever writes in between
\* (commit_completed's comparisons, restore_operational).
ArchiveInvisible ==
    [][\A h \in Hist : View(entry)'[h] # View(entry)[h] =>
          \/ \E p \in Procs : h \in changed[p] /\ entry'[h] = val[p][h]
          \/ entry[Ref] # Absent /\ entry'[Ref] \notin {Absent, entry[Ref]}
          \/ \E p \in Procs : val[p][Ref] # Absent /\ val'[p][Ref] = Absent /\ Outdated(p)]_fileVars

\* The historical keys "remain losslessly available through historical": what it
\* shows changes only when a caller changed that key.
HistoryLossless ==
    [][\A h \in Hist : View(entry)'[h] # View(entry)[h] =>
          \E p \in Procs : h \in changed[p] /\ entry'[h] = val[p][h]]_fileVars
=============================================================================
