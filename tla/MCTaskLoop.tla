----------------------------- MODULE MCTaskLoop -----------------------------
(***************************************************************************)
(* Three worker rounds with everything that can happen to them, the same   *)
(* with an operator's command, and a shorter one with a controller kill.   *)
(***************************************************************************)
EXTENDS TaskLoop, TLC

Quiet == [workers |-> 3, checks |-> 1, env |-> 1, vanish |-> 0, timeouts |-> 0,
          commands |-> 0, answers |-> 0, edits |-> 0, crashes |-> 0]
Rounds == [Quiet EXCEPT !.checks = 3, !.vanish = 1, !.timeouts = 1, !.edits = 1]
Commands == [Quiet EXCEPT !.workers = 2, !.commands = 1, !.answers = 1]
RoundBounds == {Rounds, Commands}
LiveBounds == {[Quiet EXCEPT !.workers = 2, !.checks = 2, !.env = 0, !.vanish = 1, !.crashes = 1]}
=============================================================================
