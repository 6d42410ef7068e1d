--------------------------- MODULE MCBugAnalysis ---------------------------
(* Instances of BugAnalysis for TLC.                                       *)
EXTENDS BugAnalysis, FiniteSets, TLC

CONSTANTS b1, b2, b3, r1, r2

(* Two candidates handed over by one review.                               *)
OneReview == [b \in Bugs |-> r1]

(* At most one of the bugs is claimed a second time.                       *)
OneRetriedBug == Cardinality({b \in Bugs : row[b].attempts > 1}) <= 1

Symmetric == Permutations(Bugs)
=============================================================================
