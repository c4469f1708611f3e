---------------------------- MODULE MCRemoteRun ----------------------------
(***************************************************************************)
(* Two hosts and one kill, or one host, two kills and a lost request.      *)
(***************************************************************************)
EXTENDS RemoteRun

CONSTANTS h1, h2
RunBounds == {[hosts |-> Hosts, crashes |-> 1, lost |-> 0],
              [hosts |-> {h1}, crashes |-> 2, lost |-> 1]}
=============================================================================
