---------------------------- MODULE AtomicDedup ----------------------------
(***************************************************************************)
(* What deduplication across processes promises (bug_dedup_lease,          *)
(* src/src/db.rs 5541-5611): as if one process took the candidates one at  *)
(* a time, looked at every open bug, and decided.  A candidate becomes     *)
(* open when no open bug describes its defect, and otherwise a duplicate   *)
(* of one that does; it is decided once, or never.                         *)
(***************************************************************************)

CONSTANTS Bugs, NoBug, DefectOf

VARIABLES
    opened,   \* the open bugs
    dupOf     \* dupOf[b]: the open bug that b was folded into, or NoBug

Init == opened = {} /\ dupOf = [b \in Bugs |-> NoBug]

Undecided(b) == b \notin opened /\ dupOf[b] = NoBug

Same(b) == {c \in opened : DefectOf[c] = DefectOf[b]}

Open(b) ==
    /\ Undecided(b) /\ Same(b) = {}
    /\ opened' = opened \cup {b}
    /\ UNCHANGED dupOf

Fold(b) ==
    /\ Undecided(b)
    /\ \E c \in Same(b) : dupOf' = [dupOf EXCEPT ![b] = c]
    /\ UNCHANGED opened

Next == \E b \in Bugs : Open(b) \/ Fold(b)

Spec == Init /\ [][Next]_<<opened, dupOf>>
=============================================================================
