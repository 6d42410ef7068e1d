-------------------------- MODULE MCPatchsetReview --------------------------
(* Small instances of PatchsetReview.                                      *)
EXTENDS PatchsetReview

CONSTANT p1

OnePatch == {p1}

(* To keep the instance small only runs before the last panic: the task of *)
(* a run that crashed and the newer run are then there together.           *)
LastTaskLives == run[MaxRuns] \notin {"crashing", "crashed"}

(* After the last run no claim comes any more, and a patchset that waits,  *)
(* for parts or for a maintainer, behaves as one that is Pending.          *)
WaitsInOneWay ==
    lastGen = MaxRuns =>
        status \notin {"Fetching", "Incomplete", "Awaiting Review"}

=============================================================================
