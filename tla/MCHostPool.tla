----------------------------- MODULE MCHostPool -----------------------------
(***************************************************************************)
(* Two admitted hosts: one fault while the workers claim, two operator     *)
(* commands, and the deadline.                                             *)
(***************************************************************************)
EXTENDS HostPool

Quiet == [faults |-> 0, commands |-> 0, claims |-> 1, deadline |-> FALSE, targets |-> {1, 3}]
PoolBounds == {[Quiet EXCEPT !.faults = 1, !.claims = 2],
               [Quiet EXCEPT !.commands = 2],
               [Quiet EXCEPT !.deadline = TRUE, !.targets = {1}],
               [Quiet EXCEPT !.deadline = TRUE, !.claims = 0]}
=============================================================================
