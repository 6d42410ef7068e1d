------------------------------- MODULE BugLife -------------------------------
(***************************************************************************)
(* What the parts of the daemon may do to a bug they share: the columns    *)
(* lifecycle_status, locked_by and lease_expires_at of the table `bugs`    *)
(* (src/src/db.rs).  Attempts that analyse bugs and maintainers are        *)
(* BugAnalysis, the sweeps that search for upstream fixes are FixCheck;    *)
(* each of the two takes the other's moves for granted.  "shut" stands for *)
(* all that is decided without a fix (closed, dismissed, duplicate).       *)
(***************************************************************************)

CONSTANT Bugs

VARIABLES
    life,   \* life[b]: absent before a verdict, open, fixed, shut
    kept    \* kept[b]: b is open and whoever analysed it has not let go of it

lifeVars == <<life, kept>>

Init == life = [b \in Bugs |-> "absent"] /\ kept = [b \in Bugs |-> FALSE]

Becomes(b, l, k) == life'[b] = l /\ kept'[b] = k

(* A verdict: the attempt that gives it has yet to link the reviews.       *)
Open(b) == life[b] = "absent" /\ Becomes(b, "open", TRUE)

(* The attempt has linked them, or its lease runs out or is overruled.     *)
LetGo(b) == life[b] = "open" /\ Becomes(b, "open", FALSE)

(* A fix is found, of a bug that nobody else is at work on.                *)
Fix(b) == life[b] = "open" /\ ~kept[b] /\ Becomes(b, "fixed", FALSE)

(* A verdict or a maintainer shuts the bug, for good.                      *)
Shut(b) == Becomes(b, "shut", FALSE)

Rest(b) == Becomes(b, life[b], kept[b])

Move(b) == Open(b) \/ LetGo(b) \/ Fix(b) \/ Shut(b) \/ Rest(b)

Next == \A b \in Bugs : Move(b)

Spec == Init /\ [][Next]_lifeVars
=============================================================================
