---------------------------- MODULE MCPrFeedback ----------------------------
(* Instances of PrFeedback for TLC. *)
EXTENDS PrFeedback, TLC

CONSTANTS c1, c2, n1
\* Two rounds without a fault; one round with every fault, on one comment.
Quiet == [comments |-> Trusted, runs |-> 2, checks |-> 2, env |-> 1, human |-> 1, crash |-> 0,
          pressure |-> FALSE, outage |-> FALSE]
Faulty(c) == [comments |-> {c}, runs |-> 1, checks |-> 1, env |-> 1, human |-> 1, crash |-> 1,
              pressure |-> TRUE, outage |-> TRUE]
RoundBounds == {Quiet} \cup {Faulty(c) : c \in Trusted}
LiveBounds == {[comments |-> Comments, runs |-> 2, checks |-> 0, env |-> 1, human |-> 0,
                crash |-> 1, pressure |-> FALSE, outage |-> FALSE]}

\* Comments by trusted authors are interchangeable.
Symmetry == Permutations(Trusted)
=============================================================================
