---------------------------- MODULE MCMergeQueue ----------------------------
(***************************************************************************)
(* Two pull requests, one of which authors change.                         *)
(***************************************************************************)
EXTENDS MergeQueue, TLC

CONSTANTS t1, t2
Patches == [t \in Tasks |-> IF t = t1 THEN 2 ELSE 1]
Configured(current, checks, ci) == [current |-> current, checks |-> checks, ci |-> ci]
Policies == {Configured(TRUE, TRUE, FALSE), Configured(FALSE, FALSE, TRUE)}
Default == {Configured(TRUE, TRUE, FALSE)}
=============================================================================
