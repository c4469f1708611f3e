---------------------------- MODULE OperationLog ----------------------------
(***************************************************************************)
(* What the shared coordination state promises its users: one log of       *)
(* operations, in which an id occurs once and every operation was allowed  *)
(* by the state it was applied to; and a user never goes back behind what  *)
(* it has seen, even when the log is tampered with from outside.           *)
(***************************************************************************)
EXTENDS Integers, Sequences

CONSTANTS
    Users, Ids, Inputs,
    Conflicts       \* sets of two ids of which only one can be applied

VARIABLES
    log,        \* the operations, in the order they took effect
    seen        \* seen[u]: the log as u last learned it

Entries == [id : Ids, by : Users, inp : Inputs]
Prefix(s, t) == Len(s) <= Len(t) /\ s = SubSeq(t, 1, Len(s))

Applied(h) == {h[k].id : k \in DOMAIN h}

\* The id is new and what was applied before does not exclude it.
Allowed(h, id) == id \notin Applied(h) /\ \A x \in Conflicts : id \in x => x \cap Applied(h) = {}

Init == log = <<>> /\ seen = [u \in Users |-> <<>>]

Apply(e) ==
    /\ Allowed(log, e.id)
    /\ log' = Append(log, e)
    /\ UNCHANGED seen

Learn(u) ==
    /\ Prefix(seen[u], log)
    /\ seen' = [seen EXCEPT ![u] = log]
    /\ UNCHANGED log

\* Somebody with access to the repository takes the log back.
Outside ==
    /\ \E k \in 0 .. Len(log) - 1 : log' = SubSeq(log, 1, k)
    /\ UNCHANGED seen

Next == (\E e \in Entries : Apply(e)) \/ (\E u \in Users : Learn(u)) \/ Outside

Spec == Init /\ [][Next]_<<log, seen>>
=============================================================================
