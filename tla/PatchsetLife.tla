---------------------------- MODULE PatchsetLife ----------------------------
(***************************************************************************)
(* What the parts of the daemon may do to the status of the patchsets that *)
(* they share (patchsets.status, src/src/db.rs).  Submissions, the agent   *)
(* that fetches and the ingestion loop are FetchQueue; the runs that       *)
(* review are PatchsetReview; each of the two takes the other's moves for  *)
(* granted.  "Pending" stands for all that is handed over and not decided  *)
(* (Awaiting Review, Pending, In Review), "Failed" for Failed To Apply     *)
(* too.  A restart may move several patchsets at once.                     *)
(***************************************************************************)

CONSTANT Patchsets

VARIABLE status

From(p, before, after) == status[p] \in before /\ status'[p] \in after

(* A fetch makes a placeholder first, a mail the patchset itself.          *)
Init == status \in [Patchsets -> {"none", "Incomplete"}]

(* A submission, of what nobody has seen or of what came to nothing.       *)
Submit(p) == From(p, {"none", "Fetching", "Failed", "Cancelled"}, {"Fetching"})

(* Parts arrive, or the fetch fails.                                       *)
Collect(p) ==
    From(p, {"Fetching", "Incomplete", "Failed"},
            {"Incomplete", "Pending", "Failed"})

(* A review ends.                                                          *)
Decide(p) == From(p, {"Pending"}, {"Reviewed", "Failed"})

Cancel(p) == From(p, {"Fetching", "Incomplete", "Pending"}, {"Cancelled"})

Rerun(p) == status[p] # "none" /\ status'[p] = "Pending"

Rest(p) == status'[p] = status[p]

Move(p) ==
    Submit(p) \/ Collect(p) \/ Decide(p) \/ Cancel(p) \/ Rerun(p) \/ Rest(p)

Next == \A p \in Patchsets : Move(p)

Spec == Init /\ [][Next]_status
=============================================================================
