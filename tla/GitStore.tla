------------------------------ MODULE GitStore ------------------------------
(***************************************************************************)
(* GitStateStore: transactions on a state that lives in a git ref.  A      *)
(* commit is identified with its history, the sequence of the operations   *)
(* since the root.  A push is on its way until it reaches the server or is *)
(* lost, and may get there after its sender gave up waiting.               *)
(***************************************************************************)
EXTENDS Integers, Sequences, FiniteSets

CONSTANTS
    Users, Ids, Inputs, Conflicts,  \* as in OperationLog
    NoId,           \* no operation
    Retries,        \* self.retries
    MaxPushes,      \* bound: pushes sent
    MaxCalls,       \* bound: transactions begun
    MaxCrashes,     \* bound: kills of a client
    MaxTampering    \* bound: times the ref is deleted or rewound

ASSUME GitStoreAssumption ==
    /\ Conflicts \subseteq SUBSET Ids
    /\ NoId \notin Ids /\ NoId \notin Inputs
    /\ Retries \in Nat \ {0}
    /\ {MaxPushes, MaxCalls, MaxCrashes, MaxTampering} \subseteq Nat

VARIABLES
    ref,        \* the remote ref: the history of its commit, <<>> when missing
    wire,       \* pushes on their way
    observed,   \* observed[u]: coordination-observed
    validated,  \* validated[u]: coordination-validated
    owed,       \* owed[u]: pending-push obligations, by id
    call,       \* call[u]: the transaction that u is in
    told,       \* history: the answers that say it is done
    left        \* what remains of the bounds

vars == <<ref, wire, observed, validated, owed, call, told, left>>

\* The operations of a history: without its root, and without what only tells
\* one commit from another.
Operations(h) ==
    [k \in 1 .. Len(h) - 1 |-> [id |-> h[k + 1].id, by |-> h[k + 1].by, inp |-> h[k + 1].inp]]

\* What the store implements.
Log == INSTANCE OperationLog
           WITH log <- Operations(ref), seen <- [u \in Users |-> Operations(validated[u])]

NoCall == [at |-> "idle", id |-> NoId, inp |-> NoId, aim |-> "try", tries |-> 0,
           head |-> <<>>, nonce |-> 0, reply |-> "none"]

Init ==
    /\ ref = <<>>
    /\ wire = {}
    /\ observed = [u \in Users |-> <<>>]
    /\ validated = [u \in Users |-> <<>>]
    /\ owed = [u \in Users |-> [id \in Ids |-> NoId]]
    /\ call = [u \in Users |-> NoCall]
    /\ told = {}
    /\ left = [pushes |-> MaxPushes, calls |-> MaxCalls, crashes |-> MaxCrashes, tampering |-> MaxTampering]

At(u, where) == call[u].at = where
Step(u, c) == call' = [call EXCEPT ![u] = c]
Go(u, where) == Step(u, [call[u] EXCEPT !.at = where])
Clear(u) == owed' = [owed EXCEPT ![u][call[u].id] = NoId]

\* The caller gets an answer and the call is over.
Answer(u, how) ==
    /\ Step(u, NoCall)
    /\ told' = IF how \in {"accepted", "replayed"}
               THEN told \cup {[by |-> u, id |-> call[u].id, inp |-> call[u].inp, how |-> how]}
               ELSE told

Send(u, commit, expected) ==
    /\ left.pushes > 0
    /\ left' = [left EXCEPT !.pushes = @ - 1]
    /\ wire' = wire \cup {[by |-> u, commit |-> commit, expected |-> expected]}

\* A commit differs from others by its author and by when it was made (nonce).
Commit(u, id, inp) == [id |-> id, by |-> u, inp |-> inp, nonce |-> left.pushes]

-----------------------------------------------------------------------------
(* Reading the ref.                                                        *)

\* initialize: the ref is missing, a root is pushed where nothing is expected.
Initialize(u) ==
    /\ At(u, "idle") /\ ref = <<>>
    /\ Send(u, <<Commit(u, NoId, NoId)>>, <<>>)
    /\ Step(u, [NoCall EXCEPT !.at = "wait", !.aim = "init", !.nonce = left.pushes])
    /\ UNCHANGED <<ref, observed, validated, owed, told>>

\* transact
Begin(u, id, inp) ==
    /\ left.calls > 0 /\ At(u, "idle")
    /\ left' = [left EXCEPT !.calls = @ - 1]
    /\ Step(u, [NoCall EXCEPT !.at = "read", !.id = id, !.inp = inp])
    /\ UNCHANGED <<ref, wire, observed, validated, owed, told>>

\* Mutant: the checkpoint is not compared with what was fetched.
ContinuesObserved(u) == Log!Prefix(observed[u], ref)

\* merge-base --is-ancestor, for the tip last observed and the one last validated.
Continues(u) == Log!Prefix(observed[u], ref) /\ Log!Prefix(validated[u], ref)

\* _fetch up to _save_validated; the ref held still while it was read.
Fetch(u) ==
    /\ At(u, "read") /\ ref # <<>> /\ Continues(u)
    /\ validated' = [validated EXCEPT ![u] = ref]
    /\ Step(u, [call[u] EXCEPT !.at = "observe", !.head = ref])
    /\ UNCHANGED <<ref, wire, observed, owed, told, left>>

\* _fetch raises: no connection, deadline over, ref missing, rewritten or
\* changing all the time.  The obligation stays.
FetchFails(u) ==
    /\ At(u, "read")
    /\ Answer(u, "failed")
    /\ UNCHANGED <<ref, wire, observed, validated, owed, left>>

\* The last line of _fetch.
Observe(u) ==
    /\ At(u, "observe")
    /\ observed' = [observed EXCEPT ![u] = call[u].head]
    /\ Go(u, call[u].aim)
    /\ UNCHANGED <<ref, wire, validated, owed, told, left>>

-----------------------------------------------------------------------------
(* An attempt.                                                             *)

\* The record of an operation in a history.
Record(h, id) == {h[k] : k \in {k \in DOMAIN h : h[k].id = id}}
Mine(u, r) == r.by = u /\ r.inp = call[u].inp

\* Accepted before, by the same sender with the same inputs, or not.
Replay(u) ==
    /\ At(u, "try")
    /\ \E r \in Record(call[u].head, call[u].id) :
         IF Mine(u, r) THEN Answer(u, "replayed") /\ Clear(u)
         ELSE Answer(u, "mismatch") /\ UNCHANGED owed
    /\ UNCHANGED <<ref, wire, observed, validated, left>>

\* "operation ID has an unresolved push with different inputs"
Unresolved(u) == owed[u][call[u].id] \notin {NoId, call[u].inp}

\* The push is refused, or mutate raises: the state does not allow the operation.
Reject(u) ==
    LET c == call[u]
    IN  /\ At(u, "try")
        /\ Record(c.head, c.id) = {}
        /\ Unresolved(u) \/ ~Log!Allowed(Operations(c.head), c.id)
        /\ Answer(u, "refused")
        /\ IF Unresolved(u) THEN UNCHANGED owed ELSE Clear(u)
        /\ UNCHANGED <<ref, wire, observed, validated, left>>

\* Commit, write the obligation, push.
Push(u) ==
    LET c == call[u]
    IN  /\ At(u, "try")
        /\ Record(c.head, c.id) = {} /\ ~Unresolved(u)
        /\ Log!Allowed(Operations(c.head), c.id)
        /\ Send(u, Append(c.head, Commit(u, c.id, c.inp)), c.head)
        /\ owed' = [owed EXCEPT ![u][c.id] = c.inp]
        /\ Step(u, [c EXCEPT !.at = "wait", !.head = <<>>, !.nonce = left.pushes])
        /\ UNCHANGED <<ref, observed, validated, told>>

\* What the sender is told, if it still waits for this push.
Reply(p, r) ==
    LET u == p.by
    IN  IF At(u, "wait") /\ call[u].nonce = p.commit[Len(p.commit)].nonce
        THEN Step(u, [call[u] EXCEPT !.reply = r])
        ELSE UNCHANGED call

\* --force-with-lease
Lands(p) == ref = p.expected

\* The push reaches the server, in time or late.
Arrive(p) ==
    /\ p \in wire
    /\ wire' = wire \ {p}
    /\ IF Lands(p) THEN ref' = p.commit /\ Reply(p, "ok") ELSE UNCHANGED ref /\ Reply(p, "stale")
    /\ UNCHANGED <<observed, validated, owed, told, left>>

Vanish(p) ==
    /\ p \in wire
    /\ wire' = wire \ {p}
    /\ UNCHANGED <<ref, observed, validated, owed, call, told, left>>

Accepted(u) ==
    /\ At(u, "wait") /\ call[u].reply = "ok" /\ call[u].aim = "try"
    /\ Answer(u, "accepted") /\ Clear(u)
    /\ UNCHANGED <<ref, wire, observed, validated, left>>

LastTry(u) == call[u].tries + 1 = Retries

\* Lost the compare-and-swap: begin again from what is there now.
Contended(u) ==
    /\ At(u, "wait") /\ call[u].reply = "stale" /\ call[u].aim = "try"
    /\ Clear(u)
    /\ IF LastTry(u)
       THEN Answer(u, "failed")
       ELSE /\ Step(u, [call[u] EXCEPT !.at = "read", !.tries = @ + 1, !.reply = "none"])
            /\ UNCHANGED told
    /\ UNCHANGED <<ref, wire, observed, validated, left>>

\* No answer, whatever happened to the push: look it up.
Lost(u) ==
    /\ At(u, "wait") /\ call[u].aim = "try"
    /\ Step(u, [call[u] EXCEPT !.at = "read", !.aim = "resolve", !.reply = "none"])
    /\ UNCHANGED <<ref, wire, observed, validated, owed, told, left>>

\* Mutant: a push that is not in the history is taken for one on its way.
FoundOrOnItsWay(u) == TRUE

Found(u) == \E r \in Record(call[u].head, call[u].id) : Mine(u, r)

Resolve(u) ==
    /\ At(u, "resolve")
    /\ Answer(u, IF Found(u) THEN "replayed" ELSE "failed")
    /\ Clear(u)
    /\ UNCHANGED <<ref, wire, observed, validated, left>>

\* initialize returns or raises; initialize_authority goes on either way.
Initialized(u) ==
    /\ At(u, "wait") /\ call[u].aim = "init"
    /\ Step(u, NoCall)
    /\ UNCHANGED <<ref, wire, observed, validated, owed, told, left>>

-----------------------------------------------------------------------------
(* Faults.                                                                 *)

\* The client is killed; in the middle of write_text the file is left empty.
Crash(u) ==
    /\ left.crashes > 0 /\ ~At(u, "idle")
    /\ left' = [left EXCEPT !.crashes = @ - 1]
    /\ Step(u, NoCall)
    /\ \/ UNCHANGED observed
       \/ At(u, "observe") /\ observed' = [observed EXCEPT ![u] = <<>>]
    /\ UNCHANGED <<ref, wire, validated, owed, told>>

\* Somebody deletes the ref or forces it back.
Tamper ==
    /\ left.tampering > 0 /\ ref # <<>>
    /\ left' = [left EXCEPT !.tampering = @ - 1]
    /\ \E k \in 0 .. Len(ref) - 1 : ref' = SubSeq(ref, 1, k)
    /\ UNCHANGED <<wire, observed, validated, owed, call, told>>

-----------------------------------------------------------------------------
Client(u) ==
    \/ Fetch(u) \/ Observe(u) \/ Replay(u) \/ Reject(u) \/ Push(u)
    \/ Accepted(u) \/ Contended(u) \/ Resolve(u) \/ Initialized(u)

Next ==
    \/ \E u \in Users : Client(u) \/ Initialize(u) \/ FetchFails(u) \/ Lost(u) \/ Crash(u)
    \/ \E u \in Users, id \in Ids, inp \in Inputs : Begin(u, id, inp)
    \/ \E p \in wire : Arrive(p) \/ Vanish(p)
    \/ Tamper

Spec == Init /\ [][Next]_vars

-----------------------------------------------------------------------------
(* Properties.                                                             *)

Commits == [id : Ids \cup {NoId}, by : Users, inp : Inputs \cup {NoId}, nonce : Nat]
Histories == Seq(Commits)
Pushes == [by : Users, commit : Histories, expected : Histories]
Calls == [at : {"idle", "read", "observe", "try", "wait", "resolve"}, id : Ids \cup {NoId},
          inp : Inputs \cup {NoId}, aim : {"try", "resolve", "init"}, tries : 0 .. Retries - 1,
          head : Histories, nonce : Nat, reply : {"none", "ok", "stale"}]
Answers == [by : Users, id : Ids, inp : Inputs, how : {"accepted", "replayed"}]

\* What the remote ref, the pushes, the local files and a call can hold.
TypeOK ==
    /\ ref \in Histories
    /\ wire \subseteq Pushes
    /\ observed \in [Users -> Histories]
    /\ validated \in [Users -> Histories]
    /\ owed \in [Users -> [Ids -> Inputs \cup {NoId}]]
    /\ call \in [Users -> Calls]
    /\ told \subseteq Answers
    /\ left \in [pushes : Nat, calls : Nat, crashes : Nat, tampering : Nat]

\* The ref with its pushes, losses, retries and tampering implements the log.
ImplementsLog == Log!Spec

\* Only one caller of an operation is told that it was accepted just now: what may
\* happen once, happens under that answer.  (Until the ref is tampered with.)
FreshOnce ==
    [][\A t \in told' \ told, s \in told :
         ~(t.how = "accepted" /\ s.how = "accepted" /\ t.id = s.id) \/ left.tampering < MaxTampering]_vars

\* An operation reported as done is in the ref, as that caller sent it.  (Until
\* the ref is tampered with.)
AnswersTrue ==
    left.tampering = MaxTampering =>
        \A t \in told : \E k \in DOMAIN ref : ref[k].id = t.id /\ ref[k].by = t.by /\ ref[k].inp = t.inp
=============================================================================
