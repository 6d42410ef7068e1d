-------------------------------- MODULE Outbox --------------------------------
(***************************************************************************)
(* The outboxes (src/src/db.rs 14781-15493) and their workers              *)
(* (src/src/worker/email.rs, patchwork.rs, forge.rs): mails to people,     *)
(* checks to Patchwork, comments on pull requests.                         *)
(*                                                                         *)
(* There is one worker for each outbox, and it handles one row at a time:  *)
(* it takes back the rows that have been Sending for 600 seconds, locks a  *)
(* Pending row, sends a copy of it, and writes the outcome under the id of *)
(* the copy.  Meanwhile runs queue and replace rows, and people cancel and *)
(* rerun the patchset.  A row that is locked when the daemon dies, or      *)
(* whose outcome cannot be written, stays Sending and is sent again.       *)
(*                                                                         *)
(* The three outboxes share no row and no worker, so a behaviour has one   *)
(* of them, chosen by kind.  Items are patches for mails and checks,       *)
(* patchsets for comments.  Texts are numbered in the order in which they  *)
(* are queued.                                                             *)
(*                                                                         *)
(* An operator whose comment begins with "Fault:" is a plausible mistake   *)
(* in the operator that follows it.  No action uses it; the project checks *)
(* that substituting it breaks a property.                                 *)
(***************************************************************************)
EXTENDS Integers

CONSTANTS
    Kinds,         \* the outboxes: of "mail", "patchwork", "forge"
    Items,         \* what rows are about
    MaxTexts,      \* bound: texts queued
    MaxFaults,     \* bound: crashes, lost answers, outcomes not written
    MaxRetries,    \* max_retries of the Patchwork and forge settings
    RerunInFlight  \* patchsets are rerun while a comment is being posted

ASSUME OutboxAssumption ==
    /\ Kinds \subseteq {"mail", "patchwork", "forge"}
    /\ MaxTexts \in Nat /\ MaxFaults \in Nat /\ MaxRetries \in Nat \ {0}
    /\ RerunInFlight \in BOOLEAN

VARIABLES
    kind,      \* the outbox of this behaviour
    faults,    \* faults so far
    queued,    \* how many texts were queued
    row,       \* row[i]: the row of i
    live,      \* live[i]: what the patchset of i has come to
    worker,    \* the worker
    posted     \* posted[t]: how often text t reached its reader

vars == <<kind, faults, queued, row, live, worker, posted>>

-----------------------------------------------------------------------------

Texts == 1..MaxTexts

(* "Withheld": Skipped, Muted, Disabled and Dry-Run, which no worker takes. *)
RowStatus == {"none", "Pending", "Embargoed", "Withheld", "Sending", "Sent",
              "Failed", "Cancelled"}

(* partial: the text tells of a review that did not succeed;               *)
(* waiting: next_retry_at is ahead; aged: locked_at is 600 s ago.          *)
Row == [status : RowStatus, id : Nat, text : Nat, partial : BOOLEAN,
        retries : Nat, waiting : BOOLEAN, aged : BOOLEAN]

NoRow == [status |-> "none", id |-> 0, text |-> 0, partial |-> FALSE,
          retries |-> 0, waiting |-> FALSE, aged |-> FALSE]

(* newer: the pull request has a newer revision.                           *)
Life == [cancelled : BOOLEAN, newer : BOOLEAN]

None == "none"

(* item, id, text, retries: the copy of the row that is being sent.  The   *)
(* attempts of the mail worker are one here: it makes another only when    *)
(* the server has not taken the mail.                                      *)
Worker == [at : {"idle", "locking", "sending", "sent", "failed", "refused"},
           item : Items \cup {None}, id : Nat, text : Nat, retries : Nat]

Idle == [at |-> "idle", item |-> None, id |-> 0, text |-> 0, retries |-> 0]

TypeOK ==
    /\ kind \in Kinds
    /\ faults \in 0..MaxFaults
    /\ queued \in 0..MaxTexts
    /\ row \in [Items -> Row]
    /\ live \in [Items -> Life]
    /\ worker \in Worker
    /\ posted \in [Texts -> Nat]

Init ==
    /\ kind \in Kinds
    /\ faults = 0
    /\ queued = 0
    /\ row = [i \in Items |-> NoRow]
    /\ live = [i \in Items |-> [cancelled |-> FALSE, newer |-> FALSE]]
    /\ worker = Idle
    /\ posted = [t \in Texts |-> 0]

Fault == faults < MaxFaults /\ faults' = faults + 1

(* The worker has a copy of a row.                                         *)
InFlight == worker.at \in {"sending", "sent", "failed", "refused"}

-----------------------------------------------------------------------------
(* Runs and people.                                                        *)

Present == {i \in Items : row[i].status # "none"}

(* The id that SQLite, or MAX(id) + 1, gives to a new row is one more than *)
(* the highest there is: the id of a deleted row may return.               *)
IsNextId(n) == \A i \in Present : row[i].id < n

CandidateIds == {1} \cup {row[i].id + 1 : i \in Present}

(* Which rows give way to a new text.                                      *)
Accepts(i, partial) ==
    CASE kind = "mail" ->
           row[i].status \in {"none", "Pending", "Embargoed", "Withheld",
                              "Cancelled"}
      [] kind = "patchwork" ->
           row[i].status \in {"none", "Pending", "Cancelled"}
      [] kind = "forge" ->
           \/ row[i].status \in {"none", "Cancelled"}
           \/ /\ row[i].partial
              /\ ~partial \/ row[i].status \notin {"Sent", "Sending"}

(* A mail or a check is changed in place, a comment is a new row.          *)
Keeps(i) == kind # "forge" /\ row[i].status # "none"

(* The statuses a text is queued with: post_mode, embargo, mail policy.    *)
FirstStatus ==
    CASE kind = "mail" -> {"Pending", "Withheld"}
      [] kind = "patchwork" -> {"Pending"}
      [] kind = "forge" -> {"Pending", "Embargoed", "Withheld"}

(* insert_review_email_outbox, insert_patchwork_outbox and                 *)
(* insert_forge_outbox, in the cases where they write.                     *)
Queue(i, s, partial) ==
    /\ queued < MaxTexts
    /\ ~live[i].cancelled /\ ~live[i].newer
    /\ s \in FirstStatus /\ (partial => kind = "forge")
    /\ Accepts(i, partial)
    /\ queued' = queued + 1
    /\ \E n \in IF Keeps(i) THEN {row[i].id}
                ELSE {m \in CandidateIds : IsNextId(m)} :
         row' = [row EXCEPT ![i] =
                   [status |-> s, id |-> n, text |-> queued + 1,
                    partial |-> partial, retries |-> 0, waiting |-> FALSE,
                    aged |-> FALSE]]
    /\ UNCHANGED <<kind, faults, live, worker, posted>>

(* Which rows a cancellation takes back.                                   *)
Withdrawn(i) ==
    \/ row[i].status = "Pending"
    \/ row[i].status = "Embargoed" /\ kind # "patchwork"

(* cancel_patchset and the cancel_outbox_for_patchset it ends with.        *)
Cancel(i) ==
    /\ ~live[i].cancelled
    /\ live' = [live EXCEPT ![i].cancelled = TRUE]
    /\ row' = IF Withdrawn(i) THEN [row EXCEPT ![i].status = "Cancelled"]
              ELSE row
    /\ UNCHANGED <<kind, faults, queued, worker, posted>>

(* A newer revision of a pull request is ingested.                         *)
Supersede(i) ==
    /\ kind = "forge" /\ ~live[i].newer
    /\ live' = [live EXCEPT ![i].newer = TRUE]
    /\ UNCHANGED <<kind, faults, queued, row, worker, posted>>

(* reconcile_superseded_pr_patchsets, for a revision whose review is over: *)
(* what it has not sent is taken back, and it is not cancelled.            *)
Withdraw(i) ==
    /\ Withdrawn(i)
    /\ row' = [row EXCEPT ![i].status = "Cancelled"]
    /\ UNCHANGED <<kind, faults, queued, live, worker, posted>>

(* Which rows a rerun deletes.                                             *)
Discards(i) ==
    CASE kind = "mail" ->
           row[i].status \in {"Pending", "Embargoed", "Withheld", "Cancelled"}
      [] kind = "patchwork" -> row[i].status \in {"Pending", "Cancelled"}
      [] kind = "forge" ->
           row[i].status \in {"Pending", "Embargoed", "Withheld", "Failed",
                              "Cancelled"}

(* rerun_patchset.  Whether a mail or a check goes depends on the reviews  *)
(* of its patch as well.                                                   *)
Rerun(i) ==
    /\ kind = "forge" /\ InFlight => RerunInFlight
    /\ live' = [live EXCEPT ![i].cancelled = FALSE]
    /\ \/ Discards(i) /\ row' = [row EXCEPT ![i] = NoRow]
       \/ (kind = "forge" => ~Discards(i)) /\ row' = row
    /\ UNCHANGED <<kind, faults, queued, worker, posted>>

(* delete_aborted_review_children_in_tx: a review of the patch was         *)
(* interrupted and will be done again.                                     *)
Abort(i) ==
    /\ kind # "forge" /\ Discards(i)
    /\ row' = [row EXCEPT ![i] = NoRow]
    /\ UNCHANGED <<kind, faults, queued, live, worker, posted>>

Held(i) == row[i].status = "Embargoed"

(* release_embargoed_forge_outbox                                          *)
Release(i) ==
    /\ kind = "forge" /\ Held(i)
    /\ row' = [row EXCEPT ![i].status = "Pending"]
    /\ UNCHANGED <<kind, faults, queued, live, worker, posted>>

(* Time passes for a locked row, and for one that is to be sent again.     *)
Age(i) ==
    /\ row[i].status = "Sending" /\ ~row[i].aged
    /\ row' = [row EXCEPT ![i].aged = TRUE]
    /\ UNCHANGED <<kind, faults, queued, live, worker, posted>>

BackoffEnds(i) ==
    /\ row[i].waiting
    /\ row' = [row EXCEPT ![i].waiting = FALSE]
    /\ UNCHANGED <<kind, faults, queued, live, worker, posted>>

-----------------------------------------------------------------------------
(* The worker.                                                             *)

(* Fault: no row that was left behind is taken back.                       *)
GhostNever(i) == FALSE

(* sweep_ghost_emails, sweep_ghost_patchwork, sweep_ghost_forge_outbox     *)
Ghost(i) == row[i].status = "Sending" /\ row[i].aged

Sweep ==
    /\ worker.at = "idle"
    /\ row' = [i \in Items |->
                 IF Ghost(i) THEN [row[i] EXCEPT !.status = "Pending",
                                                 !.aged = FALSE]
                 ELSE row[i]]
    /\ worker' = [Idle EXCEPT !.at = "locking"]
    /\ UNCHANGED <<kind, faults, queued, live, posted>>

(* Fault: withdrawing rows is left to the cancellation.                    *)
DroppedNever(i) == FALSE

(* The lock withdraws first what nobody wants any more.                    *)
Dropped(i) == (live[i].cancelled \/ live[i].newer) /\ Withdrawn(i)

Purged == [i \in Items |->
             IF Dropped(i) THEN [row[i] EXCEPT !.status = "Cancelled"]
             ELSE row[i]]

Due(i) == row[i].status = "Pending" /\ ~row[i].waiting /\ ~Dropped(i)

(* lock_pending_email, lock_pending_patchwork, lock_pending_forge_outbox,  *)
(* when a row is due and when none is.                                     *)
Lock(i) ==
    /\ worker.at = "locking" /\ Due(i)
    /\ row' = [Purged EXCEPT ![i] = [row[i] EXCEPT !.status = "Sending",
                                                   !.aged = FALSE]]
    /\ worker' = [at |-> "sending", item |-> i, id |-> row[i].id,
                  text |-> row[i].text, retries |-> row[i].retries]
    /\ UNCHANGED <<kind, faults, queued, live, posted>>

Rest ==
    /\ worker.at = "locking" /\ \A i \in Items : ~Due(i)
    /\ row' = Purged
    /\ worker' = Idle
    /\ UNCHANGED <<kind, faults, queued, live, posted>>

Post == posted' = [posted EXCEPT ![worker.text] = @ + 1]

(* send_email, post_patchwork_check, post_github_pr_comment: done; not     *)
(* done; done, but the answer is lost.  GitHub may refuse for good.        *)
Send ==
    /\ worker.at = "sending"
    /\ \/ /\ Post /\ UNCHANGED faults
          /\ worker' = [worker EXCEPT !.at = "sent"]
       \/ /\ UNCHANGED <<posted, faults>>
          /\ worker' = [worker EXCEPT !.at = "failed"]
       \/ /\ kind = "forge" /\ UNCHANGED <<posted, faults>>
          /\ worker' = [worker EXCEPT !.at = "refused"]
       \/ /\ Post /\ Fault
          /\ worker' = [worker EXCEPT !.at = "failed"]
    /\ UNCHANGED <<kind, queued, row, live>>

(* Fault: the outcome is written to the item, whatever row it has by now.  *)
TargetByItem(i) == row[i].status # "none" /\ i = worker.item

(* Every outcome is written to the row with the id of the copy.            *)
Target(i) == row[i].status # "none" /\ row[i].id = worker.id

Mark(status) ==
    row' = [i \in Items |->
              IF Target(i) THEN [row[i] EXCEPT !.status = status,
                                               !.aged = FALSE]
              ELSE row[i]]

(* set_patchwork_retry_at, set_forge_outbox_retry_at                       *)
Postpone ==
    row' = [i \in Items |->
              IF Target(i)
              THEN [row[i] EXCEPT !.status = "Pending", !.aged = FALSE,
                                  !.retries = @ + 1, !.waiting = TRUE]
              ELSE row[i]]

LastTry == kind = "mail" \/ worker.retries + 1 >= MaxRetries

(* mark_*_sent, mark_*_failed and handle_failure.                          *)
Settle ==
    /\ \/ worker.at = "sent" /\ Mark("Sent")
       \/ worker.at = "failed" /\ LastTry /\ Mark("Failed")
       \/ worker.at = "failed" /\ ~LastTry /\ Postpone
       \/ worker.at = "refused" /\ Mark("Failed")
    /\ worker' = Idle
    /\ UNCHANGED <<kind, faults, queued, live, posted>>

(* The outcome cannot be written, and the error is logged; the daemon dies *)
(* and starts again; the worker panics and is started again.               *)
Crash ==
    /\ worker # Idle
    /\ Fault
    /\ worker' = Idle
    /\ UNCHANGED <<kind, queued, row, live, posted>>

WorkerStep ==
    \/ Sweep \/ (\E i \in Items : Lock(i)) \/ Rest \/ Send \/ Settle

-----------------------------------------------------------------------------

Next ==
    \/ \E i \in Items :
         \/ \E s \in RowStatus, partial \in BOOLEAN : Queue(i, s, partial)
         \/ Cancel(i) \/ Supersede(i) \/ Withdraw(i) \/ Rerun(i) \/ Abort(i)
         \/ Release(i)
         \/ Age(i) \/ BackoffEnds(i)
    \/ WorkerStep
    \/ Crash

Spec == Init /\ [][Next]_vars

(* The worker's task is scheduled, its requests end (they have timeouts),  *)
(* and time passes.                                                        *)
Fairness ==
    /\ WF_vars(WorkerStep)
    /\ \A i \in Items : WF_vars(Age(i)) /\ WF_vars(BackoffEnds(i))

FairSpec == Spec /\ Fairness

-----------------------------------------------------------------------------
(* The inductive invariant.                                                *)

(* No two rows have an id in common, and no row has an id below 1.         *)
IdsDiffer ==
    \A i \in Present :
      /\ row[i].id > 0
      /\ \A j \in Present : row[i].id = row[j].id => i = j

(* A row has a text that was queued, and no two rows have the same one.    *)
RowsHaveTexts ==
    /\ \A i \in Items :
         /\ row[i].status # "none" => row[i].text \in 1..queued
         /\ row[i].status = "none" => row[i] = NoRow
    /\ \A i, j \in Present : row[i].text = row[j].text => i = j
    /\ \A t \in Texts : t > queued => posted[t] = 0

(* While a row is in flight, its item still has it or has a younger one,   *)
(* and no other row has come to have its id.                               *)
HandIsOwn ==
    InFlight =>
      /\ worker.item \in Present
      /\ kind # "forge" => row[worker.item].id = worker.id
      /\ worker.id > 0 /\ worker.id <= row[worker.item].id
      /\ worker.text \in 1..queued
      /\ \A i \in Present :
           row[i].id = worker.id \/ row[i].text = worker.text =>
             /\ i = worker.item
             /\ row[i].status = "Sending" /\ row[i].text = worker.text
             /\ row[i].id = worker.id /\ row[i].retries = worker.retries

(* What was sent was in hand.                                              *)
SentInHand == worker.at = "sent" => posted[worker.text] > 0

(* A row that is Sent tells of a text that has been posted.                *)
SentMeansPosted ==
    \A i \in Items : row[i].status = "Sent" => posted[row[i].text] > 0

(* A text is posted a second time only after a fault, a third time only    *)
(* after two.                                                              *)
DuplicatesNeedFaults == \A t \in Texts : posted[t] <= faults + 1

(* A text that has been posted once more than there were faults will not   *)
(* be posted again without another.                                        *)
Spent(t) ==
    /\ ~(worker.at = "sending" /\ worker.text = t)
    /\ \A i \in Items : row[i].text = t =>
         row[i].status = "Sent" \/ (worker.at = "sent" /\ worker.text = t)

SpentIsSpent == \A t \in Texts : posted[t] = faults + 1 => Spent(t)

(* A row is tried again at most MaxRetries - 1 times.                      *)
RetriesEnd == \A i \in Items : row[i].retries < MaxRetries

IInv ==
    /\ TypeOK /\ IdsDiffer /\ RowsHaveTexts /\ HandIsOwn /\ SentInHand
    /\ SentMeansPosted /\ DuplicatesNeedFaults /\ SpentIsSpent /\ RetriesEnd

-----------------------------------------------------------------------------
(* Properties.                                                             *)

(* Nothing that was cancelled, or that a newer revision of the pull        *)
(* request has overtaken, is taken up to be sent: a row that was in flight *)
(* when that happened, and comes back for another attempt or after a       *)
(* restart, is withdrawn by the lock.                                      *)
NothingUnwantedIsLocked ==
    [][\A i \in Items :
         row[i].status # "Sending" /\ row'[i].status = "Sending" =>
           ~live[i].cancelled /\ ~live[i].newer]_vars

(* What is queued is sent, given up or withdrawn, whatever happens to the  *)
(* daemon and to other rows.                                               *)
NothingIsStuck ==
    \A i \in Items :
      row[i].status \in {"Pending", "Sending"} ~>
        row[i].status \notin {"Pending", "Sending"}

-----------------------------------------------------------------------------
(* What the rest of the daemon sees of a row.                              *)

RowOutside(i) ==
    CASE row[i].status \in {"Embargoed", "Withheld"} -> "Held"
      [] row[i].status = "Sent" -> "Over"
      [] row[i].status = "Failed" /\ kind # "forge" -> "Over"
      [] OTHER -> row[i].status

Rows == INSTANCE OutboxLife
        WITH row <- [i \in Items |-> RowOutside(i)],
             cancelled <- [i \in Items |-> live[i].cancelled],
             newer <- [i \in Items |-> live[i].newer]

(* The outboxes change a row only as runs, maintainers and releases expect *)
(* them to: what is cancelled, overtaken or deleted meanwhile, in whatever *)
(* order, is not taken up, and comes out of the worker's hand once.        *)
MovesAsAgreed == Rows!Spec
=============================================================================
