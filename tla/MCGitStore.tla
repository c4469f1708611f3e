----------------------------- MODULE MCGitStore -----------------------------
(***************************************************************************)
(* Two installations and two operations that exclude each other.           *)
(***************************************************************************)
EXTENDS GitStore, TLC

CONSTANTS u1, u2, claimId, handoffId, x, y
MCConflicts == {{claimId, handoffId}}
Sym == Permutations({u1, u2}) \cup Permutations({claimId, handoffId}) \cup Permutations({x, y})
=============================================================================
