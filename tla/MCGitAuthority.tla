--------------------------- MODULE MCGitAuthority ---------------------------
(***************************************************************************)
(* A member with two installations and an administrator with one.          *)
(***************************************************************************)
EXTENDS GitAuthority, TLC

CONSTANTS a1, a2, b1, ann, root
MCOf == a1 :> ann @@ a2 :> ann @@ b1 :> root
Sym == Permutations({a1, a2})
=============================================================================
