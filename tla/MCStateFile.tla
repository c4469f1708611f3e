---------------------------- MODULE MCStateFile ----------------------------
(* Instances of StateFile for TLC. *)
EXTENDS StateFile, TLC

Symmetry == Permutations(Procs) \cup Permutations(Values) \cup Permutations(Hist)
=============================================================================
