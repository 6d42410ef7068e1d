----------------------------- MODULE OutboxLife -----------------------------
(***************************************************************************)
(* What the parts of the daemon may do to the rows of an outbox that they  *)
(* share (email_outbox, patchwork_outbox, forge_outbox in src/src/db.rs).  *)
(* The workers that deliver are Outbox, the runs that queue and the people *)
(* who take back are PatchsetReview; each of the two takes the other's     *)
(* moves for granted.  "Held" stands for Embargoed and for all that no     *)
(* worker takes, "Over" for Sent, and for Failed where nobody may queue    *)
(* again.                                                                  *)
(***************************************************************************)

CONSTANT Items

VARIABLES
    kind,        \* "mail", "patchwork" or "forge"
    row,         \* row[i]: the status of the row of i
    cancelled,   \* cancelled[i]: its patchset is cancelled
    newer        \* newer[i]: its pull request has a newer revision

lifeVars == <<kind, row, cancelled, newer>>

Init ==
    /\ kind \in {"mail", "patchwork", "forge"}
    /\ row = [i \in Items |-> "none"]
    /\ cancelled = [i \in Items |-> FALSE]
    /\ newer = [i \in Items |-> FALSE]

Open == {"Pending", "Held"}

OfForge(S) == IF kind = "forge" THEN S ELSE {}

Goes(i, from, to) == row[i] \in from /\ row'[i] \in to

Stays(i) == row'[i] = row[i]

Wanted(i) == ~cancelled[i] /\ ~newer[i]

SameNewer(i) == newer'[i] = newer[i]

SamePatchset(i) == cancelled'[i] = cancelled[i] /\ SameNewer(i)

(* A text is queued, in the place of one that waits or was taken back.  A  *)
(* comment also gives way in the hand of the worker and later, to the one  *)
(* of a review that succeeded.                                             *)
Queue(i) ==
    /\ Wanted(i) /\ SamePatchset(i)
    /\ Goes(i, Open \cup {"none", "Cancelled"}
                  \cup OfForge({"Sending", "Over", "Failed"}), Open)

Release(i) == Goes(i, {"Held"}, {"Pending"}) /\ SamePatchset(i)

(* What waits is taken back: the patchset is cancelled or overtaken.       *)
Withdraw(i) == Goes(i, Open, {"Cancelled"}) /\ SamePatchset(i)

(* The review is done again.  What is in the hand of the worker stays.     *)
Discarded(i) == Goes(i, Open \cup {"Cancelled"} \cup OfForge({"Failed"}), {"none"})

Discard(i) == Discarded(i) /\ SamePatchset(i)

(* With its patchset a row is cancelled at once, unless it is in flight.   *)
Cancel(i) ==
    /\ cancelled'[i] /\ SameNewer(i)
    /\ \/ Goes(i, Open, {"Cancelled"})
       \/ row[i] # "Pending" /\ Stays(i)

(* No comment of the last review outlives the rerun, but one in flight.    *)
Rerun(i) ==
    /\ ~cancelled'[i] /\ SameNewer(i)
    /\ Discarded(i) \/ Stays(i)
    /\ kind = "forge" => row'[i] \in {"none", "Sending", "Over"}

Overtake(i) == newer'[i] /\ Stays(i) /\ cancelled'[i] = cancelled[i]

(* A worker takes what waits and is wanted, and it ends or comes back.     *)
Take(i) == Wanted(i) /\ Goes(i, {"Pending"}, {"Sending"}) /\ SamePatchset(i)

ComeBack(i) == Goes(i, {"Sending"}, {"Pending"}) /\ SamePatchset(i)

Finish(i) ==
    Goes(i, {"Sending"}, {"Over"} \cup OfForge({"Failed"})) /\ SamePatchset(i)

Rest(i) == Stays(i) /\ SamePatchset(i)

Deliver(i) == Take(i) \/ ComeBack(i) \/ Finish(i)

Move(i) ==
    \/ Queue(i) \/ Release(i) \/ Withdraw(i) \/ Discard(i) \/ Cancel(i)
    \/ Rerun(i) \/ Overtake(i) \/ Deliver(i) \/ Rest(i)

Next == UNCHANGED kind /\ \A i \in Items : Move(i)

Spec == Init /\ [][Next]_lifeVars
=============================================================================
