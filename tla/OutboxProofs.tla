----------------------------- MODULE OutboxProofs -----------------------------
(***************************************************************************)
(* Proofs about Outbox, for any items, any number of texts and faults.  A  *)
(* comment is assumed not to be in flight when its patchset is rerun       *)
(* (OneAtATime): TLC shows what happens otherwise.                         *)
(***************************************************************************)
EXTENDS Outbox, TLAPS

(* Reruns leave comments alone that are being posted, or there are none.   *)
OneAtATime == ~RerunInFlight \/ "forge" \notin Kinds

-----------------------------------------------------------------------------
(* Rows.                                                                   *)

LEMMA NoRowIsRow == NoRow \in Row /\ NoRow.status = "none" /\ NoRow.text = 0
                    /\ NoRow.id = 0 /\ NoRow.retries = 0
  BY SMT DEF NoRow, Row, RowStatus

LEMMA StatusSet ==
  ASSUME NEW r \in Row, NEW s \in RowStatus,
         NEW q, q = [r EXCEPT !.status = s]
  PROVE  /\ q \in Row /\ q.status = s /\ q.id = r.id /\ q.text = r.text
         /\ q.retries = r.retries
  BY SMT DEF Row

LEMMA AgedSet ==
  ASSUME NEW r \in Row, NEW b \in BOOLEAN,
         NEW q, q = [r EXCEPT !.aged = b]
  PROVE  /\ q \in Row /\ q.status = r.status /\ q.id = r.id
         /\ q.text = r.text /\ q.retries = r.retries
  BY SMT DEF Row

LEMMA WaitingSet ==
  ASSUME NEW r \in Row, NEW b \in BOOLEAN,
         NEW q, q = [r EXCEPT !.waiting = b]
  PROVE  /\ q \in Row /\ q.status = r.status /\ q.id = r.id
         /\ q.text = r.text /\ q.retries = r.retries
  BY SMT DEF Row

LEMMA RetriesSet ==
  ASSUME NEW r \in Row, NEW n \in Nat,
         NEW q, q = [r EXCEPT !.retries = n]
  PROVE  /\ q \in Row /\ q.status = r.status /\ q.id = r.id
         /\ q.text = r.text /\ q.retries = n
  BY SMT DEF Row

LEMMA PostponedSet ==
  ASSUME NEW r \in Row, NEW s \in RowStatus,
         NEW b \in BOOLEAN, NEW c \in BOOLEAN,
         NEW q, q = [r EXCEPT !.status = s, !.aged = b,
                              !.retries = @ + 1, !.waiting = c]
  PROVE  /\ q \in Row /\ q.status = s /\ q.id = r.id
         /\ q.text = r.text /\ q.retries = r.retries + 1
<1> DEFINE n == r.retries + 1
           x == [r EXCEPT !.status = s]
           y == [x EXCEPT !.aged = b]
           z == [y EXCEPT !.retries = n]
<1>1. q = [z EXCEPT !.waiting = c] OBVIOUS
<1>2. n \in Nat BY DEF Row
<1>3. /\ x \in Row /\ x.status = s /\ x.id = r.id /\ x.text = r.text
  BY StatusSet
<1> HIDE DEF n, x
<1>4. /\ y \in Row /\ y.status = s /\ y.id = r.id /\ y.text = r.text
  BY <1>3, AgedSet
<1> HIDE DEF y
<1>5. /\ z \in Row /\ z.status = s /\ z.id = r.id /\ z.text = r.text
      /\ z.retries = n
  BY <1>2, <1>4, RetriesSet
<1> HIDE DEF z
<1>6. q \in Row /\ q.status = s /\ q.id = r.id /\ q.text = r.text
      /\ q.retries = n
  BY <1>1, <1>5, WaitingSet
<1> QED BY <1>6 DEF n

LEMMA OneRowSet ==
  ASSUME NEW S, NEW T, NEW f \in [S -> T], NEW i \in S, NEW v \in T
  PROVE  LET g == [f EXCEPT ![i] = v] IN
         g \in [S -> T] /\ g[i] = v /\ \A j \in S : j # i => g[j] = f[j]
  BY SMT

(* What people and runs do to the rows that there are: leave them, delete  *)
(* them, release or withdraw them.                                         *)
Same(i) ==
  /\ row'[i].status = row[i].status /\ row'[i].id = row[i].id
  /\ row'[i].text = row[i].text /\ row'[i].retries = row[i].retries
  /\ row[i].status = "none" => row'[i] = row[i]

Moved(i) ==
  /\ row[i].status \in {"Pending", "Embargoed"}
  /\ row'[i].status \in {"Pending", "Cancelled"}
  /\ row'[i].id = row[i].id /\ row'[i].text = row[i].text
  /\ row'[i].retries = row[i].retries

Deleted(i) ==
  /\ row[i].status \notin {"none", "Sending"} /\ row'[i] = NoRow
  /\ kind # "forge" \/ ~InFlight

PeopleWrite ==
  /\ row' \in [Items -> Row]
  /\ \A i \in Items : Same(i) \/ Moved(i) \/ Deleted(i)
  /\ UNCHANGED <<kind, faults, queued, worker, posted>>

LEMMA TakenBack ==
  ASSUME TypeOK, NEW i \in Items, Withdrawn(i),
         row' = [row EXCEPT ![i].status = "Cancelled"]
  PROVE  /\ row' \in [Items -> Row] /\ Moved(i)
         /\ row'[i].status = "Cancelled"
         /\ \A j \in Items : j # i => row'[j] = row[j]
<1> DEFINE q == [row[i] EXCEPT !.status = "Cancelled"]
<1>1. row' = [row EXCEPT ![i] = q] /\ row \in [Items -> Row] BY DEF TypeOK
<1>2. "Cancelled" \in RowStatus /\ row[i] \in Row BY <1>1 DEF RowStatus
<1>3. /\ q \in Row /\ q.status = "Cancelled" /\ q.id = row[i].id
      /\ q.text = row[i].text /\ q.retries = row[i].retries
  BY <1>2, StatusSet
<1> HIDE DEF q
<1>4. /\ row' \in [Items -> Row] /\ row'[i] = q
      /\ \A j \in Items : j # i => row'[j] = row[j]
  BY <1>1, <1>3, OneRowSet
<1>5. row[i].status \in {"Pending", "Embargoed"} BY DEF Withdrawn
<1>6. Moved(i) BY <1>3, <1>4, <1>5 DEF Moved
<1> QED BY <1>3, <1>4, <1>6

LEMMA CancelWrites ==
  ASSUME TypeOK, NEW i \in Items, Cancel(i) \/ Withdraw(i)
  PROVE  PeopleWrite
<1>1. CASE Withdrawn(i)
  <2>1. row' = [row EXCEPT ![i].status = "Cancelled"]
    BY <1>1 DEF Cancel, Withdraw
  <2>2. \A j \in Items : j # i => Same(j) BY <1>1, <2>1, TakenBack DEF Same
  <2> QED BY <1>1, <2>1, <2>2, TakenBack DEF PeopleWrite, Cancel, Withdraw
<1>2. CASE ~Withdrawn(i)
  BY <1>2 DEF Cancel, Withdraw, PeopleWrite, Same, TypeOK
<1> QED BY <1>1, <1>2

LEMMA DeletionWrites ==
  ASSUME TypeOK, NEW i \in Items, row[i].status \notin {"none", "Sending"},
         row' = [row EXCEPT ![i] = NoRow], kind # "forge" \/ ~InFlight,
         UNCHANGED <<kind, faults, queued, worker, posted>>
  PROVE  PeopleWrite
<1>1. row \in [Items -> Row] BY DEF TypeOK
<1>2. /\ row' \in [Items -> Row] /\ row'[i] = NoRow
      /\ \A j \in Items : j # i => row'[j] = row[j]
  BY <1>1, NoRowIsRow, OneRowSet
<1>3. Deleted(i) BY <1>2 DEF Deleted
<1>4. \A j \in Items : j # i => Same(j) BY <1>2 DEF Same
<1> QED BY <1>2, <1>3, <1>4 DEF PeopleWrite

LEMMA DiscardsWhat ==
  ASSUME TypeOK, NEW i \in Items, Discards(i)
  PROVE  row[i].status \notin {"none", "Sending"}
<1>1. kind = "mail" \/ kind = "patchwork" \/ kind = "forge"
  BY OutboxAssumption DEF TypeOK
<1> QED BY <1>1 DEF Discards

LEMMA RerunWrites ==
  ASSUME TypeOK, OneAtATime, NEW i \in Items, Rerun(i)
  PROVE  PeopleWrite
<1>1. kind # "forge" \/ ~InFlight
  BY OutboxAssumption DEF Rerun, OneAtATime, TypeOK
<1>2. UNCHANGED <<kind, faults, queued, worker, posted>> BY DEF Rerun
<1>3. CASE Discards(i) /\ row' = [row EXCEPT ![i] = NoRow]
  BY <1>1, <1>2, <1>3, DiscardsWhat, DeletionWrites
<1>4. CASE row' = row
  BY <1>2, <1>4 DEF PeopleWrite, Same, TypeOK
<1> QED BY <1>3, <1>4 DEF Rerun

LEMMA AbortWrites ==
  ASSUME TypeOK, NEW i \in Items, Abort(i)
  PROVE  PeopleWrite
  BY DiscardsWhat, DeletionWrites DEF Abort

LEMMA ReleaseWrites ==
  ASSUME TypeOK, NEW i \in Items, Release(i)
  PROVE  PeopleWrite
<1> DEFINE q == [row[i] EXCEPT !.status = "Pending"]
<1>1. row \in [Items -> Row] BY DEF TypeOK
<1>2. row' = [row EXCEPT ![i] = q] BY DEF Release
<1>3. "Pending" \in RowStatus /\ row[i] \in Row BY <1>1 DEF RowStatus
<1>4. /\ q \in Row /\ q.status = "Pending" /\ q.id = row[i].id
      /\ q.text = row[i].text /\ q.retries = row[i].retries
  BY <1>3, StatusSet
<1> HIDE DEF q
<1>5. /\ row' \in [Items -> Row] /\ row'[i] = q
      /\ \A j \in Items : j # i => row'[j] = row[j]
  BY <1>1, <1>2, <1>4, OneRowSet
<1>6. row[i].status = "Embargoed" BY DEF Release, Held
<1>7. Moved(i) BY <1>4, <1>5, <1>6 DEF Moved
<1>8. \A j \in Items : j # i => Same(j) BY <1>5 DEF Same
<1> QED BY <1>5, <1>7, <1>8 DEF PeopleWrite, Release

LEMMA AgeWrites ==
  ASSUME TypeOK, NEW i \in Items, Age(i)
  PROVE  PeopleWrite
<1> DEFINE q == [row[i] EXCEPT !.aged = TRUE]
<1>1. row \in [Items -> Row] BY DEF TypeOK
<1>2. row' = [row EXCEPT ![i] = q] BY DEF Age
<1>3. row[i].status = "Sending" BY DEF Age
<1>4. /\ q \in Row /\ q.status = row[i].status /\ q.id = row[i].id
      /\ q.text = row[i].text /\ q.retries = row[i].retries
  BY <1>1, AgedSet
<1> HIDE DEF q
<1>5. /\ row' \in [Items -> Row] /\ row'[i] = q
      /\ \A j \in Items : j # i => row'[j] = row[j]
  BY <1>1, <1>2, <1>4, OneRowSet
<1>6. \A j \in Items : Same(j) BY <1>3, <1>4, <1>5 DEF Same
<1> QED BY <1>5, <1>6 DEF PeopleWrite, Age

LEMMA BackoffEndsWrites ==
  ASSUME TypeOK, RowsHaveTexts, NEW i \in Items, BackoffEnds(i)
  PROVE  PeopleWrite
<1> DEFINE q == [row[i] EXCEPT !.waiting = FALSE]
<1>1. row \in [Items -> Row] BY DEF TypeOK
<1>2. row' = [row EXCEPT ![i] = q] BY DEF BackoffEnds
<1>3. row[i].status # "none" BY DEF BackoffEnds, RowsHaveTexts, NoRow
<1>4. /\ q \in Row /\ q.status = row[i].status /\ q.id = row[i].id
      /\ q.text = row[i].text /\ q.retries = row[i].retries
  BY <1>1, WaitingSet
<1> HIDE DEF q
<1>5. /\ row' \in [Items -> Row] /\ row'[i] = q
      /\ \A j \in Items : j # i => row'[j] = row[j]
  BY <1>1, <1>2, <1>4, OneRowSet
<1>6. \A j \in Items : Same(j) BY <1>3, <1>4, <1>5 DEF Same
<1> QED BY <1>5, <1>6 DEF PeopleWrite, BackoffEnds

-----------------------------------------------------------------------------
(* Invariants of rows that keep their id and text or go.                   *)

Stays ==
  \A i \in Items :
    \/ /\ row[i].status # "none" /\ row'[i].status # "none"
       /\ row'[i].id = row[i].id /\ row'[i].text = row[i].text
    \/ row'[i] = NoRow

LEMMA PeopleStays ==
  ASSUME RowsHaveTexts, PeopleWrite
  PROVE  Stays
<1> SUFFICES ASSUME NEW i \in Items
             PROVE  \/ /\ row[i].status # "none" /\ row'[i].status # "none"
                       /\ row'[i].id = row[i].id /\ row'[i].text = row[i].text
                    \/ row'[i] = NoRow
  BY DEF Stays
<1>1. CASE Same(i)
  BY <1>1 DEF Same, RowsHaveTexts
<1>2. CASE Moved(i)
  BY <1>2 DEF Moved
<1>3. CASE Deleted(i)
  BY <1>3 DEF Deleted
<1> QED BY <1>1, <1>2, <1>3 DEF PeopleWrite

LEMMA StaysIds ==
  ASSUME IdsDiffer, Stays
  PROVE  IdsDiffer'
<1>1. \A i \in Items : row'[i].status # "none" =>
        row[i].status # "none" /\ row'[i].id = row[i].id
  BY NoRowIsRow DEF Stays
<1> QED BY <1>1 DEF IdsDiffer, Present

LEMMA StaysTexts ==
  ASSUME RowsHaveTexts, Stays, queued' = queued,
         \A t \in Texts : t > queued => posted'[t] = posted[t]
  PROVE  RowsHaveTexts'
<1>1. \A i \in Items : row'[i].status # "none" =>
        row[i].status # "none" /\ row'[i].text = row[i].text
  BY NoRowIsRow DEF Stays
<1>2. \A i \in Items : row'[i].status = "none" => row'[i] = NoRow
  BY DEF Stays
<1>3. \A i \in Items : row'[i].status # "none" => row'[i].text \in 1..queued'
  BY <1>1 DEF RowsHaveTexts
<1>4. \A i, j \in Present' : row'[i].text = row'[j].text => i = j
  BY <1>1 DEF RowsHaveTexts, Present
<1>5. \A t \in Texts : t > queued' => posted'[t] = 0
  BY DEF RowsHaveTexts
<1> QED BY <1>2, <1>3, <1>4, <1>5 DEF RowsHaveTexts

LEMMA PeopleHand ==
  ASSUME TypeOK, HandIsOwn, PeopleWrite
  PROVE  HandIsOwn'
<1> SUFFICES ASSUME InFlight PROVE HandIsOwn'
  BY DEF HandIsOwn, InFlight, PeopleWrite
<1>1. /\ worker' = worker /\ queued' = queued /\ kind' = kind BY DEF PeopleWrite
<1> DEFINE w == worker.item
<1>2. /\ w \in Items /\ row[w].status # "none"
      /\ kind # "forge" => row[w].id = worker.id
      /\ worker.id > 0 /\ worker.id <= row[w].id /\ worker.text \in 1..queued
  BY DEF HandIsOwn, Present
<1>3. \A i \in Items : row[i].status # "none" =>
         (row[i].id = worker.id \/ row[i].text = worker.text =>
            /\ i = w /\ row[i].status = "Sending" /\ row[i].text = worker.text
            /\ row[i].id = worker.id /\ row[i].retries = worker.retries)
  BY DEF HandIsOwn, Present
<1> HIDE DEF w
<1>4. ~Deleted(w)
  BY <1>2, <1>3 DEF Deleted
<1>5. row'[w].status # "none" /\ row'[w].id = row[w].id
  BY <1>2, <1>4 DEF PeopleWrite, Same, Moved
<1>6. ASSUME NEW i \in Items, row'[i].status # "none",
             row'[i].id = worker.id \/ row'[i].text = worker.text
      PROVE  /\ i = w /\ row'[i].status = "Sending"
             /\ row'[i].text = worker.text /\ row'[i].id = worker.id
             /\ row'[i].retries = worker.retries
  <2>1. ~Deleted(i) BY <1>6, NoRowIsRow DEF Deleted
  <2>2. Same(i) \/ Moved(i) BY <2>1 DEF PeopleWrite
  <2>3. row[i].status # "none" /\ row'[i].id = row[i].id
        /\ row'[i].text = row[i].text /\ row'[i].retries = row[i].retries
    BY <1>6, <2>2 DEF Same, Moved
  <2>4. /\ i = w /\ row[i].status = "Sending" /\ row[i].text = worker.text
        /\ row[i].id = worker.id /\ row[i].retries = worker.retries
    BY <1>3, <1>6, <2>3
  <2>5. row'[i].status = "Sending" BY <2>2, <2>4 DEF Same, Moved
  <2> QED BY <2>3, <2>4, <2>5
<1> QED BY <1>1, <1>2, <1>5, <1>6 DEF HandIsOwn, Present, w

LEMMA PeopleRest ==
  ASSUME TypeOK, SentInHand, SentMeansPosted, DuplicatesNeedFaults,
         SpentIsSpent, RetriesEnd, PeopleWrite
  PROVE  /\ SentInHand' /\ SentMeansPosted' /\ DuplicatesNeedFaults'
         /\ SpentIsSpent' /\ RetriesEnd'
<1>1. /\ worker' = worker /\ posted' = posted /\ faults' = faults
  BY DEF PeopleWrite
<1>2. \A i \in Items : row'[i].status = "Sent" =>
        row[i].status = "Sent" /\ row'[i].text = row[i].text
  BY NoRowIsRow DEF PeopleWrite, Same, Moved, Deleted
<1>3. \A i \in Items : row'[i].retries = row[i].retries \/ row'[i].retries = 0
  BY NoRowIsRow DEF PeopleWrite, Same, Moved, Deleted
<1>4. \A i \in Items :
        \/ row'[i].text = row[i].text
           /\ (row[i].status = "Sent" => row'[i].status = "Sent")
        \/ row'[i].text = 0
  BY NoRowIsRow DEF PeopleWrite, Same, Moved, Deleted
<1>5. SentInHand' BY <1>1 DEF SentInHand
<1>6. SentMeansPosted' BY <1>1, <1>2 DEF SentMeansPosted
<1>7. DuplicatesNeedFaults' BY <1>1 DEF DuplicatesNeedFaults
<1>8. SpentIsSpent'
  <2> SUFFICES ASSUME NEW t \in Texts, posted[t] = faults + 1 PROVE Spent(t)'
    BY <1>1 DEF SpentIsSpent
  <2>1. Spent(t) BY DEF SpentIsSpent
  <2>2. t # 0 BY DEF Texts
  <2> QED BY <1>1, <1>4, <2>1, <2>2 DEF Spent
<1>9. RetriesEnd' BY <1>3, OutboxAssumption DEF RetriesEnd
<1> QED BY <1>5, <1>6, <1>7, <1>8, <1>9

-----------------------------------------------------------------------------
(* Queue.                                                                  *)

LEMMA KindIs ==
  ASSUME TypeOK
  PROVE  kind = "mail" \/ kind = "patchwork" \/ kind = "forge"
  BY OutboxAssumption DEF TypeOK

LEMMA AcceptsWhat ==
  ASSUME TypeOK, NEW i \in Items, NEW b \in BOOLEAN, Accepts(i, b),
         kind # "forge"
  PROVE  row[i].status # "Sending"
  BY KindIs DEF Accepts

LEMMA FirstStatusIs ==
  ASSUME TypeOK
  PROVE  FirstStatus \subseteq {"Pending", "Embargoed", "Withheld"}
  BY KindIs DEF FirstStatus

(* The row that a new text is given.                                       *)
QueuedRow(s, n, b) ==
  [status |-> s, id |-> n, text |-> queued + 1, partial |-> b,
   retries |-> 0, waiting |-> FALSE, aged |-> FALSE]

LEMMA QueuedRowIs ==
  ASSUME TypeOK, NEW s \in {"Pending", "Embargoed", "Withheld"},
         NEW n \in Nat, NEW b \in BOOLEAN
  PROVE  /\ QueuedRow(s, n, b) \in Row
         /\ QueuedRow(s, n, b).status = s /\ QueuedRow(s, n, b).id = n
         /\ QueuedRow(s, n, b).text = queued + 1
         /\ QueuedRow(s, n, b).retries = 0
<1>1. queued \in Nat BY OutboxAssumption DEF TypeOK
<1>2. s \in RowStatus BY DEF RowStatus
<1>3. queued + 1 \in Nat BY <1>1
<1> QED BY <1>2, <1>3 DEF QueuedRow, Row

(* What Queue needs of the id: it stays, or it is above all others.        *)
LEMMA QueueWrites ==
  ASSUME TypeOK, IdsDiffer, NEW i \in Items, NEW s \in RowStatus,
         NEW b \in BOOLEAN, Queue(i, s, b)
  PROVE  \E n \in Nat :
           /\ s \in {"Pending", "Embargoed", "Withheld"} /\ n > 0
           /\ row' = [row EXCEPT ![i] = QueuedRow(s, n, b)]
           /\ \/ kind # "forge" /\ row[i].status # "none" /\ n = row[i].id
              \/ \A j \in Present : row[j].id < n
           /\ kind # "forge" => row[i].status # "Sending"
<1>1. PICK n \in IF Keeps(i) THEN {row[i].id}
                 ELSE {m \in CandidateIds : IsNextId(m)} :
           row' = [row EXCEPT ![i] = QueuedRow(s, n, b)]
  BY DEF Queue, QueuedRow
<1>2. s \in {"Pending", "Embargoed", "Withheld"}
  BY FirstStatusIs DEF Queue
<1>3. kind # "forge" => row[i].status # "Sending"
  BY AcceptsWhat DEF Queue
<1>4. CASE Keeps(i)
  <2>1. n = row[i].id /\ kind # "forge" /\ row[i].status # "none"
    BY <1>1, <1>4 DEF Keeps
  <2>2. n \in Nat /\ n > 0
    BY <2>1 DEF TypeOK, Row, IdsDiffer, Present
  <2> QED BY <1>1, <1>2, <1>3, <2>1, <2>2
<1>5. CASE ~Keeps(i)
  <2>1. n \in CandidateIds /\ \A j \in Present : row[j].id < n
    BY <1>1, <1>5 DEF IsNextId
  <2>2. \A j \in Present : row[j].id \in Nat
    BY DEF Present, TypeOK, Row
  <2>3. n \in Nat /\ n > 0
    BY <2>1, <2>2 DEF CandidateIds
  <2> QED BY <1>1, <1>2, <1>3, <2>1, <2>3
<1> QED BY <1>4, <1>5

LEMMA QueueKeeps ==
  ASSUME IInv, NEW i \in Items, NEW s \in RowStatus, NEW b \in BOOLEAN,
         Queue(i, s, b)
  PROVE  IInv'
<1>1. /\ TypeOK /\ IdsDiffer /\ RowsHaveTexts /\ HandIsOwn /\ SentInHand
      /\ SentMeansPosted /\ DuplicatesNeedFaults /\ SpentIsSpent /\ RetriesEnd
  BY DEF IInv
<1>2. /\ kind' = kind /\ faults' = faults /\ live' = live
      /\ worker' = worker /\ posted' = posted /\ queued' = queued + 1
      /\ queued < MaxTexts
  BY DEF Queue
<1>3. PICK n \in Nat :
           /\ s \in {"Pending", "Embargoed", "Withheld"} /\ n > 0
           /\ row' = [row EXCEPT ![i] = QueuedRow(s, n, b)]
           /\ \/ kind # "forge" /\ row[i].status # "none" /\ n = row[i].id
              \/ \A j \in Present : row[j].id < n
           /\ kind # "forge" => row[i].status # "Sending"
  BY <1>1, QueueWrites
<1> DEFINE r == QueuedRow(s, n, b)
<1>4. /\ r \in Row /\ r.status = s /\ r.id = n /\ r.text = queued + 1
      /\ r.retries = 0
  BY <1>1, <1>3, QueuedRowIs
<1> HIDE DEF r
<1>5. row \in [Items -> Row] /\ queued \in Nat /\ faults \in Nat
      /\ posted \in [Texts -> Nat]
  BY <1>1, OutboxAssumption DEF TypeOK
<1>6. /\ row' \in [Items -> Row] /\ row'[i] = r
      /\ \A j \in Items : j # i => row'[j] = row[j]
  BY <1>3, <1>4, <1>5, OneRowSet DEF r
<1>7. /\ row'[i].status = s /\ row'[i].id = n /\ row'[i].text = queued + 1
      /\ row'[i].retries = 0 /\ s \notin {"none", "Sent", "Sending"}
  BY <1>3, <1>4, <1>6
<1>8. \A j \in Items : row[j].status # "none" => row[j].text \in 1..queued
  BY <1>1 DEF RowsHaveTexts
<1>9. \A j \in Items : row[j].status = "none" => row[j] = NoRow
  BY <1>1 DEF RowsHaveTexts
<1>10. \A j \in Items : row[j].id \in Nat BY <1>5 DEF Row
<1>11. TypeOK'
  <2>1. queued' \in 0..MaxTexts BY <1>1, <1>2, OutboxAssumption DEF TypeOK
  <2> QED BY <1>1, <1>2, <1>6, <2>1 DEF TypeOK
<1>12. IdsDiffer'
  <2>1. \A j \in Items \ {i} : row[j].status # "none" => row[j].id # n
    BY <1>1, <1>3, <1>10 DEF IdsDiffer, Present
  <2>2. \A j \in Items : row[j].status # "none" => row[j].id > 0
    BY <1>1 DEF IdsDiffer, Present
  <2>3. \A j, k \in Items : row[j].status # "none" /\ row[k].status # "none"
          /\ row[j].id = row[k].id => j = k
    BY <1>1 DEF IdsDiffer, Present
  <2> QED BY <1>3, <1>6, <1>7, <2>1, <2>2, <2>3 DEF IdsDiffer, Present
<1>13. RowsHaveTexts'
  <2>1. \A j \in Items : row'[j].status # "none" => row'[j].text \in 1..queued'
    BY <1>2, <1>5, <1>6, <1>7, <1>8
  <2>2. \A j \in Items : row'[j].status = "none" => row'[j] = NoRow
    BY <1>6, <1>7, <1>9
  <2>3. \A j, k \in Items : row[j].status # "none" /\ row[k].status # "none"
          /\ row[j].text = row[k].text => j = k
    BY <1>1 DEF RowsHaveTexts, Present
  <2>4. \A j \in Items : row[j].status # "none" => row[j].text # queued + 1
    BY <1>5, <1>8
  <2>5. \A j, k \in Items : row'[j].status # "none" /\ row'[k].status # "none"
          /\ row'[j].text = row'[k].text => j = k
    BY <1>6, <1>7, <2>3, <2>4
  <2>6. \A t \in Texts : t > queued' => posted'[t] = 0
    BY <1>1, <1>2, <1>5 DEF RowsHaveTexts, Texts
  <2> QED BY <2>1, <2>2, <2>5, <2>6 DEF RowsHaveTexts, Present
<1>14. HandIsOwn'
  <2> SUFFICES ASSUME InFlight PROVE HandIsOwn'
    BY <1>2 DEF HandIsOwn, InFlight
  <2> DEFINE w == worker.item
  <2>1. /\ w \in Items /\ row[w].status # "none"
        /\ kind # "forge" => row[w].id = worker.id
        /\ worker.id > 0 /\ worker.id <= row[w].id /\ worker.text \in 1..queued
    BY <1>1 DEF HandIsOwn, Present
  <2>2. \A j \in Items : row[j].status # "none" =>
           (row[j].id = worker.id \/ row[j].text = worker.text =>
              /\ j = w /\ row[j].status = "Sending"
              /\ row[j].text = worker.text
              /\ row[j].id = worker.id /\ row[j].retries = worker.retries)
    BY <1>1 DEF HandIsOwn, Present
  <2>3. worker.id \in Nat BY <1>1 DEF TypeOK, Worker
  <2> HIDE DEF w
  <2>4. n # worker.id /\ (i = w => kind = "forge" /\ row[w].id < n)
    BY <1>3, <1>10, <2>1, <2>2, <2>3 DEF Present
  <2>5. row'[w].status # "none" /\ worker.id <= row'[w].id
        /\ (kind # "forge" => row'[w].id = worker.id)
    BY <1>6, <1>7, <1>10, <2>1, <2>3, <2>4
  <2>6. worker.text # queued + 1 /\ worker.text \in 1..queued'
    BY <1>2, <1>5, <2>1
  <2>7. \A j \in Items : row'[j].status # "none" =>
           (row'[j].id = worker.id \/ row'[j].text = worker.text =>
              /\ j = w /\ row'[j].status = "Sending"
              /\ row'[j].text = worker.text
              /\ row'[j].id = worker.id /\ row'[j].retries = worker.retries)
    BY <1>6, <1>7, <2>2, <2>4, <2>6
  <2> QED BY <1>2, <2>1, <2>5, <2>6, <2>7 DEF HandIsOwn, Present, w
<1>15. SentInHand' BY <1>1, <1>2 DEF SentInHand
<1>16. SentMeansPosted'
  BY <1>1, <1>2, <1>6, <1>7 DEF SentMeansPosted
<1>17. DuplicatesNeedFaults' BY <1>1, <1>2 DEF DuplicatesNeedFaults
<1>18. SpentIsSpent'
  <2> SUFFICES ASSUME NEW t \in Texts, posted[t] = faults + 1 PROVE Spent(t)'
    BY <1>2 DEF SpentIsSpent
  <2>1. Spent(t) BY <1>1 DEF SpentIsSpent
  <2>2. ~(t > queued) BY <1>1, <1>5 DEF RowsHaveTexts
  <2>3. t # queued + 1 BY <1>5, <2>2 DEF Texts
  <2> QED BY <1>2, <1>6, <1>7, <2>1, <2>3 DEF Spent
<1>19. RetriesEnd'
  BY <1>1, <1>6, <1>7, OutboxAssumption DEF RetriesEnd
<1> QED BY <1>11, <1>12, <1>13, <1>14, <1>15, <1>16, <1>17, <1>18, <1>19
        DEF IInv

(* The other things that people and runs do.                               *)
LEMMA PeopleKeep ==
  ASSUME IInv, PeopleWrite, live' \in [Items -> Life]
  PROVE  IInv'
<1>1. /\ TypeOK /\ IdsDiffer /\ RowsHaveTexts /\ HandIsOwn /\ SentInHand
      /\ SentMeansPosted /\ DuplicatesNeedFaults /\ SpentIsSpent /\ RetriesEnd
  BY DEF IInv
<1>2. TypeOK' BY <1>1 DEF TypeOK, PeopleWrite
<1>3. Stays BY <1>1, PeopleStays
<1>4. IdsDiffer' BY <1>1, <1>3, StaysIds
<1>5. queued' = queued /\ posted' = posted BY DEF PeopleWrite
<1>6. RowsHaveTexts' BY <1>1, <1>3, <1>5, StaysTexts
<1>7. HandIsOwn' BY <1>1, PeopleHand
<1>8. /\ SentInHand' /\ SentMeansPosted' /\ DuplicatesNeedFaults'
      /\ SpentIsSpent' /\ RetriesEnd'
  BY <1>1, PeopleRest
<1> QED BY <1>2, <1>4, <1>6, <1>7, <1>8 DEF IInv

LEMMA LivesAreLives ==
  ASSUME live \in [Items -> Life], NEW i \in Items, NEW b \in BOOLEAN
  PROVE  /\ [live EXCEPT ![i].cancelled = b] \in [Items -> Life]
         /\ [live EXCEPT ![i].newer = b] \in [Items -> Life]
<1>1. live[i] \in Life OBVIOUS
<1>2. [live[i] EXCEPT !.cancelled = b] \in Life BY <1>1 DEF Life
<1>3. [live[i] EXCEPT !.newer = b] \in Life BY <1>1 DEF Life
<1>4. [live EXCEPT ![i] = [live[i] EXCEPT !.cancelled = b]] \in [Items -> Life]
  BY <1>2
<1>5. [live EXCEPT ![i] = [live[i] EXCEPT !.newer = b]] \in [Items -> Life]
  BY <1>3
<1> QED BY <1>4, <1>5

-----------------------------------------------------------------------------
(* The worker.                                                             *)

LEMMA IdleIs ==
  Idle \in Worker /\ Idle.at = "idle"
  BY DEF Idle, Worker

LEMMA AtSet ==
  ASSUME worker \in Worker,
         NEW a \in {"idle", "locking", "sending", "sent", "failed", "refused"}
  PROVE  /\ [worker EXCEPT !.at = a] \in Worker
         /\ [worker EXCEPT !.at = a].at = a
         /\ [worker EXCEPT !.at = a].item = worker.item
         /\ [worker EXCEPT !.at = a].id = worker.id
         /\ [worker EXCEPT !.at = a].text = worker.text
         /\ [worker EXCEPT !.at = a].retries = worker.retries
  BY SMT DEF Worker

LEMMA LockingIs ==
  [Idle EXCEPT !.at = "locking"] \in Worker
  /\ [Idle EXCEPT !.at = "locking"].at = "locking"
  BY DEF Idle, Worker

LEMMA MapIs ==
  ASSUME NEW f,
         \A i \in Items : f[i] \in Row, f = [i \in Items |-> f[i]]
  PROVE  f \in [Items -> Row]
  OBVIOUS

(* The worker empties its hand, and the rows that are Sent, and no others, *)
(* are those that were and those whose text has been posted.               *)
HandEmptied ==
  /\ row' \in [Items -> Row] /\ Stays
  /\ worker' \in Worker /\ worker'.at \in {"idle", "locking"}
  /\ \A i \in Items : row'[i].status = "Sent" =>
       \/ row[i].status = "Sent"
       \/ posted[row[i].text] > 0
  /\ \A i \in Items : row[i].status = "Sent" => row'[i].status = "Sent"
  /\ \A i \in Items : row[i].status # "none" /\ worker.at = "sent"
       /\ row[i].text = worker.text /\ row'[i].text = worker.text =>
         row'[i].status = "Sent"
  /\ \A i \in Items : row'[i].retries < MaxRetries
  /\ UNCHANGED <<kind, faults, queued, live, posted>>

LEMMA EmptyHandKeeps ==
  ASSUME IInv, HandEmptied
  PROVE  IInv'
<1>1. /\ TypeOK /\ IdsDiffer /\ RowsHaveTexts /\ SentMeansPosted
      /\ DuplicatesNeedFaults /\ SpentIsSpent
  BY DEF IInv
<1>2. /\ kind' = kind /\ faults' = faults /\ live' = live /\ posted' = posted
      /\ queued' = queued
  BY DEF HandEmptied
<1>3. TypeOK' BY <1>1, <1>2 DEF TypeOK, HandEmptied
<1>4. IdsDiffer' BY <1>1, StaysIds DEF HandEmptied
<1>5. RowsHaveTexts' BY <1>1, <1>2, StaysTexts DEF HandEmptied
<1>6. HandIsOwn' BY DEF HandIsOwn, InFlight, HandEmptied
<1>7. SentInHand' BY DEF SentInHand, HandEmptied
<1>8. SentMeansPosted'
  <2> SUFFICES ASSUME NEW i \in Items, row'[i].status = "Sent"
               PROVE  posted[row'[i].text] > 0
    BY <1>2 DEF SentMeansPosted
  <2>1. row'[i].text = row[i].text BY NoRowIsRow DEF HandEmptied, Stays
  <2> QED BY <1>1, <2>1 DEF HandEmptied, SentMeansPosted
<1>9. DuplicatesNeedFaults' BY <1>1, <1>2 DEF DuplicatesNeedFaults
<1>10. SpentIsSpent'
  <2> SUFFICES ASSUME NEW t \in Texts, posted[t] = faults + 1 PROVE Spent(t)'
    BY <1>2 DEF SpentIsSpent
  <2>1. Spent(t) BY <1>1 DEF SpentIsSpent
  <2>2. t # 0 BY DEF Texts
  <2>3. ASSUME NEW i \in Items, row'[i].text = t
        PROVE  row'[i].status = "Sent"
    <3>1. row[i].status # "none" /\ row[i].text = t
      BY <2>2, <2>3, NoRowIsRow DEF HandEmptied, Stays
    <3>2. row[i].status = "Sent" \/ (worker.at = "sent" /\ worker.text = t)
      BY <2>1, <3>1 DEF Spent
    <3> QED BY <2>3, <3>1, <3>2 DEF HandEmptied
  <2>4. worker'.at # "sending" BY DEF HandEmptied
  <2> QED BY <2>3, <2>4 DEF Spent
<1>11. RetriesEnd' BY DEF RetriesEnd, HandEmptied
<1> QED BY <1>3, <1>4, <1>5, <1>6, <1>7, <1>8, <1>9, <1>10, <1>11 DEF IInv

LEMMA SweepKeeps ==
  ASSUME IInv, Sweep
  PROVE  IInv'
<1>1. TypeOK /\ RowsHaveTexts /\ RetriesEnd BY DEF IInv
<1>2. row \in [Items -> Row] BY <1>1 DEF TypeOK
<1>3. ASSUME NEW i \in Items
      PROVE  /\ row'[i] \in Row
             /\ \/ row'[i] = row[i]
                \/ /\ row[i].status = "Sending" /\ row'[i].status = "Pending"
                   /\ row'[i].id = row[i].id /\ row'[i].text = row[i].text
                   /\ row'[i].retries = row[i].retries
  <2>1. row[i] \in Row BY <1>2
  <2>2. CASE Ghost(i)
    <3>1. row'[i] = [row[i] EXCEPT !.status = "Pending", !.aged = FALSE]
      BY <2>2 DEF Sweep
    <3>2. "Pending" \in RowStatus BY DEF RowStatus
    <3> DEFINE x == [row[i] EXCEPT !.status = "Pending"]
    <3>3. row'[i] = [x EXCEPT !.aged = FALSE] BY <3>1
    <3>4. /\ x \in Row /\ x.status = "Pending" /\ x.id = row[i].id
          /\ x.text = row[i].text /\ x.retries = row[i].retries
      BY <2>1, <3>2, StatusSet
    <3> HIDE DEF x
    <3> DEFINE q == [x EXCEPT !.aged = FALSE]
    <3>5. /\ q \in Row /\ q.status = "Pending" /\ q.id = row[i].id
          /\ q.text = row[i].text /\ q.retries = row[i].retries
      BY <3>4, AgedSet
    <3> HIDE DEF q
    <3> QED BY <2>2, <3>3, <3>5 DEF Ghost, q
  <2>3. CASE ~Ghost(i)
    BY <2>1, <2>3 DEF Sweep
  <2> QED BY <2>2, <2>3
<1>4. row' \in [Items -> Row]
  <2>1. row' = [i \in Items |-> row'[i]] BY DEF Sweep
  <2> QED BY <1>2, <1>3, <2>1, MapIs
<1>5. Stays BY <1>1, <1>3 DEF Stays, RowsHaveTexts
<1>6. worker.at = "idle" /\ worker' \in Worker /\ worker'.at = "locking"
  BY LockingIs DEF Sweep
<1>7. \A i \in Items : row'[i].retries < MaxRetries
  BY <1>1, <1>3 DEF RetriesEnd
<1>8. HandEmptied
  BY <1>3, <1>4, <1>5, <1>6, <1>7 DEF HandEmptied, Sweep
<1> QED BY <1>8, EmptyHandKeeps

LEMMA PurgedIs ==
  ASSUME TypeOK, NEW i \in Items
  PROVE  /\ Purged[i] \in Row
         /\ \/ Purged[i] = row[i]
            \/ /\ row[i].status \in {"Pending", "Embargoed"}
               /\ Purged[i].status = "Cancelled"
               /\ Purged[i].id = row[i].id /\ Purged[i].text = row[i].text
               /\ Purged[i].retries = row[i].retries
<1>1. row[i] \in Row BY DEF TypeOK
<1>2. CASE Dropped(i)
  <2> DEFINE q == [row[i] EXCEPT !.status = "Cancelled"]
  <2>1. Purged[i] = q BY <1>2 DEF Purged
  <2>2. "Cancelled" \in RowStatus BY DEF RowStatus
  <2>3. /\ q \in Row /\ q.status = "Cancelled" /\ q.id = row[i].id
        /\ q.text = row[i].text /\ q.retries = row[i].retries
    BY <1>1, <2>2, StatusSet
  <2> HIDE DEF q
  <2> QED BY <1>2, <2>1, <2>3 DEF Dropped, Withdrawn
<1>3. CASE ~Dropped(i)
  BY <1>1, <1>3 DEF Purged
<1> QED BY <1>2, <1>3

LEMMA PurgedType ==
  ASSUME TypeOK
  PROVE  Purged \in [Items -> Row]
<1>1. Purged = [i \in Items |-> Purged[i]] BY DEF Purged
<1>2. row \in [Items -> Row] BY DEF TypeOK
<1> QED BY <1>1, <1>2, PurgedIs, MapIs

LEMMA RestKeeps ==
  ASSUME IInv, Rest
  PROVE  IInv'
<1>1. TypeOK /\ RowsHaveTexts /\ RetriesEnd BY DEF IInv
<1>2. row' = Purged /\ worker.at = "locking" /\ worker' = Idle BY DEF Rest
<1>3. row' \in [Items -> Row] BY <1>1, <1>2, PurgedType
<1>4. \A i \in Items :
         \/ row'[i] = row[i]
         \/ /\ row[i].status \in {"Pending", "Embargoed"}
            /\ row'[i].status = "Cancelled"
            /\ row'[i].id = row[i].id /\ row'[i].text = row[i].text
            /\ row'[i].retries = row[i].retries
  BY <1>1, <1>2, PurgedIs
<1>5. Stays BY <1>1, <1>4 DEF Stays, RowsHaveTexts
<1>6. \A i \in Items : row'[i].retries < MaxRetries
  BY <1>1, <1>4 DEF RetriesEnd
<1>7. HandEmptied
  BY <1>2, <1>3, <1>4, <1>5, <1>6, IdleIs DEF HandEmptied, Rest
<1> QED BY <1>7, EmptyHandKeeps

LEMMA CrashKeeps ==
  ASSUME IInv, Crash
  PROVE  IInv'
<1>1. /\ TypeOK /\ IdsDiffer /\ RowsHaveTexts /\ SentMeansPosted
      /\ DuplicatesNeedFaults /\ RetriesEnd
  BY DEF IInv
<1>2. /\ kind' = kind /\ queued' = queued /\ row' = row /\ live' = live
      /\ posted' = posted /\ worker' = Idle
      /\ faults' = faults + 1 /\ faults < MaxFaults
  BY DEF Crash, Fault
<1>3. faults \in 0..MaxFaults /\ posted \in [Texts -> Nat]
  BY <1>1 DEF TypeOK
<1>4. faults \in Nat /\ faults' \in 0..MaxFaults
  BY <1>2, <1>3, OutboxAssumption
<1>5. TypeOK' BY <1>1, <1>2, <1>4, IdleIs DEF TypeOK
<1>6. IdsDiffer' BY <1>1, <1>2 DEF IdsDiffer, Present
<1>7. RowsHaveTexts' BY <1>1, <1>2 DEF RowsHaveTexts, Present
<1>8. HandIsOwn' BY <1>2, IdleIs DEF HandIsOwn, InFlight
<1>9. SentInHand' BY <1>2, IdleIs DEF SentInHand
<1>10. SentMeansPosted' BY <1>1, <1>2 DEF SentMeansPosted
<1>11. \A t \in Texts : posted[t] \in Nat /\ posted[t] <= faults + 1
  BY <1>1, <1>3 DEF DuplicatesNeedFaults
<1>12. DuplicatesNeedFaults' BY <1>2, <1>4, <1>11 DEF DuplicatesNeedFaults
<1>13. SpentIsSpent' BY <1>2, <1>4, <1>11 DEF SpentIsSpent
<1>14. RetriesEnd' BY <1>1, <1>2 DEF RetriesEnd
<1> QED BY <1>5, <1>6, <1>7, <1>8, <1>9, <1>10, <1>12, <1>13, <1>14 DEF IInv

LEMMA LockedRow ==
  ASSUME TypeOK, NEW i \in Items, Lock(i)
  PROVE  /\ row' \in [Items -> Row]
         /\ row'[i].status = "Sending" /\ row'[i].id = row[i].id
         /\ row'[i].text = row[i].text /\ row'[i].retries = row[i].retries
         /\ \A j \in Items : j # i => row'[j] = Purged[j]
<1> DEFINE x == [row[i] EXCEPT !.status = "Sending"]
           q == [x EXCEPT !.aged = FALSE]
<1>1. row[i] \in Row /\ "Sending" \in RowStatus
  BY DEF TypeOK, RowStatus
<1>2. row' = [Purged EXCEPT ![i] = q] BY DEF Lock
<1>3. /\ x \in Row /\ x.status = "Sending" /\ x.id = row[i].id
      /\ x.text = row[i].text /\ x.retries = row[i].retries
  BY <1>1, StatusSet
<1> HIDE DEF x
<1>4. /\ q \in Row /\ q.status = "Sending" /\ q.id = row[i].id
      /\ q.text = row[i].text /\ q.retries = row[i].retries
  BY <1>3, AgedSet
<1> HIDE DEF q
<1>5. Purged \in [Items -> Row] BY PurgedType
<1>6. /\ row' \in [Items -> Row] /\ row'[i] = q
      /\ \A j \in Items : j # i => row'[j] = Purged[j]
  BY <1>2, <1>4, <1>5, OneRowSet
<1> QED BY <1>4, <1>6

LEMMA LockKeeps ==
  ASSUME IInv, NEW i \in Items, Lock(i)
  PROVE  IInv'
<1>1. /\ TypeOK /\ IdsDiffer /\ RowsHaveTexts /\ SentMeansPosted
      /\ DuplicatesNeedFaults /\ SpentIsSpent /\ RetriesEnd
  BY DEF IInv
<1>2. /\ kind' = kind /\ queued' = queued /\ faults' = faults /\ live' = live
      /\ posted' = posted /\ worker.at = "locking"
      /\ row[i].status = "Pending"
  BY DEF Lock, Due
<1>3. /\ row' \in [Items -> Row]
      /\ row'[i].status = "Sending" /\ row'[i].id = row[i].id
      /\ row'[i].text = row[i].text /\ row'[i].retries = row[i].retries
      /\ \A j \in Items : j # i => row'[j] = Purged[j]
  BY <1>1, LockedRow
<1>4. \A j \in Items : j # i =>
         \/ row'[j] = row[j]
         \/ /\ row[j].status \in {"Pending", "Embargoed"}
            /\ row'[j].status = "Cancelled"
            /\ row'[j].id = row[j].id /\ row'[j].text = row[j].text
            /\ row'[j].retries = row[j].retries
  BY <1>1, <1>3, PurgedIs
<1>5. Stays
  <2> SUFFICES ASSUME NEW j \in Items
               PROVE  \/ /\ row[j].status # "none" /\ row'[j].status # "none"
                         /\ row'[j].id = row[j].id
                         /\ row'[j].text = row[j].text
                      \/ row'[j] = NoRow
    BY DEF Stays
  <2>1. CASE j = i BY <1>2, <1>3, <2>1
  <2>2. CASE j # i BY <1>1, <1>4, <2>2 DEF RowsHaveTexts
  <2> QED BY <2>1, <2>2
<1>6. /\ worker'.at = "sending" /\ worker'.item = i
      /\ worker'.id = row[i].id /\ worker'.text = row[i].text
      /\ worker'.retries = row[i].retries
  BY DEF Lock
<1>7. worker' \in Worker
  <2>1. row[i].id \in Nat /\ row[i].text \in Nat /\ row[i].retries \in Nat
    BY <1>1 DEF TypeOK, Row
  <2> QED BY <2>1 DEF Lock, Worker
<1>8. TypeOK' BY <1>1, <1>2, <1>3, <1>7 DEF TypeOK
<1>9. IdsDiffer' BY <1>1, <1>5, StaysIds
<1>10. RowsHaveTexts' BY <1>1, <1>2, <1>5, StaysTexts
<1>11. HandIsOwn'
  <2>1. row'[i].status # "none" /\ row'[i].id > 0
        /\ row'[i].text \in 1..queued'
    BY <1>3, <1>9, <1>10 DEF IdsDiffer, RowsHaveTexts, Present
  <2>2. row'[i].id \in Nat BY <1>3 DEF Row
  <2>3. \A j \in Items : row'[j].status # "none" =>
           (row'[j].id = row'[i].id \/ row'[j].text = row'[i].text => j = i)
    BY <1>9, <1>10, <2>1 DEF IdsDiffer, RowsHaveTexts, Present
  <2>4. worker'.id <= row'[i].id BY <1>3, <1>6, <2>2
  <2> QED BY <1>3, <1>6, <2>1, <2>3, <2>4 DEF HandIsOwn, Present
<1>12. SentInHand' BY <1>6 DEF SentInHand
<1>13. \A j \in Items : row'[j].status = "Sent" =>
          row[j].status = "Sent" /\ row'[j].text = row[j].text
  BY <1>3, <1>4
<1>14. SentMeansPosted' BY <1>1, <1>2, <1>13 DEF SentMeansPosted
<1>15. DuplicatesNeedFaults' BY <1>1, <1>2 DEF DuplicatesNeedFaults
<1>16. SpentIsSpent'
  <2> SUFFICES ASSUME NEW t \in Texts, posted[t] = faults + 1 PROVE Spent(t)'
    BY <1>2 DEF SpentIsSpent
  <2>1. Spent(t) BY <1>1 DEF SpentIsSpent
  <2>2. \A j \in Items : row[j].text = t => row[j].status = "Sent"
    BY <1>2, <2>1 DEF Spent
  <2>3. row[i].text # t BY <1>2, <2>2
  <2>4. \A j \in Items : row'[j].text = t => row'[j].status = "Sent"
    BY <1>3, <1>4, <2>2, <2>3
  <2> QED BY <1>6, <2>3, <2>4 DEF Spent
<1>17. RetriesEnd'
  <2>1. \A j \in Items : row'[j].retries = row[j].retries BY <1>3, <1>4
  <2> QED BY <1>1, <2>1 DEF RetriesEnd
<1> QED BY <1>8, <1>9, <1>10, <1>11, <1>12, <1>14, <1>15, <1>16, <1>17
        DEF IInv

(* Send changes the stage of the worker, the count of its text, the number *)
(* of faults.                                                              *)
LEMMA SendDoes ==
  ASSUME TypeOK, Send
  PROVE  /\ \E a \in {"sent", "failed", "refused"} :
              /\ worker' = [worker EXCEPT !.at = a]
              /\ \/ /\ a = "sent" /\ Post /\ faults' = faults
                 \/ /\ a # "sent" /\ posted' = posted /\ faults' = faults
                 \/ /\ a # "sent" /\ Post /\ Fault
         /\ worker.at = "sending"
         /\ UNCHANGED <<kind, queued, row, live>>
  BY DEF Send

LEMMA SendKeeps ==
  ASSUME IInv, Send
  PROVE  IInv'
<1>1. /\ TypeOK /\ IdsDiffer /\ RowsHaveTexts /\ HandIsOwn /\ SentMeansPosted
      /\ DuplicatesNeedFaults /\ SpentIsSpent /\ RetriesEnd
  BY DEF IInv
<1>2. PICK a \in {"sent", "failed", "refused"} :
        /\ worker' = [worker EXCEPT !.at = a]
        /\ \/ /\ a = "sent" /\ Post /\ faults' = faults
           \/ /\ a # "sent" /\ posted' = posted /\ faults' = faults
           \/ /\ a # "sent" /\ Post /\ Fault
  BY <1>1, SendDoes
<1>3. worker.at = "sending" /\ kind' = kind /\ queued' = queued /\ row' = row
      /\ live' = live
  BY <1>1, SendDoes
<1>4. /\ worker' \in Worker /\ worker'.at = a /\ worker'.item = worker.item
      /\ worker'.id = worker.id /\ worker'.text = worker.text
      /\ worker'.retries = worker.retries
  <2>1. a \in {"idle", "locking", "sending", "sent", "failed", "refused"}
    OBVIOUS
  <2> QED BY <1>1, <1>2, <2>1, AtSet DEF TypeOK
<1> DEFINE x == worker.text
<1>5. /\ posted \in [Texts -> Nat] /\ faults \in Nat /\ queued \in Nat
      /\ faults \in 0..MaxFaults /\ queued <= MaxTexts /\ MaxFaults \in Nat
  BY <1>1, OutboxAssumption DEF TypeOK
<1>6. x \in 1..queued /\ x \in Texts
  <2>1. x \in 1..queued BY <1>1, <1>3 DEF HandIsOwn, InFlight
  <2> QED BY <1>5, <2>1, OutboxAssumption DEF Texts
<1> HIDE DEF x
<1>7. \A t \in Texts : posted[t] \in Nat /\ posted[t] <= faults + 1
  BY <1>1, <1>5 DEF DuplicatesNeedFaults
<1>8. posted[x] <= faults
  <2>1. ~Spent(x) BY <1>3 DEF Spent, x
  <2>2. posted[x] # faults + 1 BY <1>1, <1>6, <2>1 DEF SpentIsSpent
  <2> QED BY <1>5, <1>6, <1>7, <2>2
<1>9. \/ posted' = posted
      \/ posted' = [posted EXCEPT ![x] = posted[x] + 1]
  BY <1>2 DEF Post, x
<1>10. /\ posted' \in [Texts -> Nat]
       /\ \A t \in Texts : t # x => posted'[t] = posted[t]
       /\ \A t \in Texts : posted'[t] >= posted[t]
       /\ posted'[x] <= posted[x] + 1
  <2>1. CASE posted' = posted
    BY <1>5, <1>6, <1>7, <2>1
  <2>2. CASE posted' = [posted EXCEPT ![x] = posted[x] + 1]
    <3>1. posted[x] + 1 \in Nat BY <1>6, <1>7
    <3>2. /\ posted' \in [Texts -> Nat] /\ posted'[x] = posted[x] + 1
          /\ \A t \in Texts : t # x => posted'[t] = posted[t]
      BY <1>5, <1>6, <2>2, <3>1, OneRowSet
    <3> QED BY <1>6, <1>7, <3>2
  <2> QED BY <1>9, <2>1, <2>2
<1>11. faults' = faults \/ (faults' = faults + 1 /\ faults < MaxFaults)
  BY <1>2 DEF Fault
<1>12. TypeOK'
  <2>1. faults' \in 0..MaxFaults BY <1>5, <1>11
  <2> QED BY <1>1, <1>3, <1>4, <1>10, <2>1 DEF TypeOK
<1>13. IdsDiffer' BY <1>1, <1>3 DEF IdsDiffer, Present
<1>14. RowsHaveTexts'
  <2>1. \A t \in Texts : t > queued' => posted'[t] = 0
    BY <1>1, <1>3, <1>5, <1>6, <1>10 DEF RowsHaveTexts
  <2> QED BY <1>1, <1>3, <2>1 DEF RowsHaveTexts, Present
<1>15. HandIsOwn'
  <2>1. InFlight BY <1>3 DEF InFlight
  <2> QED BY <1>1, <1>3, <1>4, <2>1 DEF HandIsOwn, Present
<1>16. SentInHand'
  <2>1. ASSUME a = "sent" PROVE posted'[x] > 0
    <3>1. posted' = [posted EXCEPT ![x] = posted[x] + 1]
      BY <1>2, <2>1 DEF Post, x
    <3>2. posted'[x] = posted[x] + 1 BY <1>5, <1>6, <3>1
    <3> QED BY <1>6, <1>7, <3>2
  <2> QED BY <1>4, <2>1 DEF SentInHand, x
<1>17. SentMeansPosted'
  <2> SUFFICES ASSUME NEW i \in Items, row[i].status = "Sent"
               PROVE  posted'[row[i].text] > 0
    BY <1>3 DEF SentMeansPosted
  <2>1. posted[row[i].text] > 0 BY <1>1 DEF SentMeansPosted
  <2>2. row[i].text \in Texts
    <3>1. row[i].text \in 1..queued BY <1>1 DEF RowsHaveTexts
    <3> QED BY <1>5, <3>1, OutboxAssumption DEF Texts
  <2>3. posted'[row[i].text] >= posted[row[i].text] BY <1>10, <2>2
  <2>4. posted'[row[i].text] \in Nat /\ posted[row[i].text] \in Nat
    BY <1>5, <1>10, <2>2
  <2> QED BY <2>1, <2>3, <2>4
<1>18. DuplicatesNeedFaults'
  <2> SUFFICES ASSUME NEW t \in Texts PROVE posted'[t] <= faults' + 1
    BY DEF DuplicatesNeedFaults
  <2>1. posted'[t] \in Nat /\ posted[t] \in Nat BY <1>5, <1>10
  <2>2. posted'[t] <= faults + 1
    BY <1>5, <1>6, <1>7, <1>8, <1>10, <2>1
  <2> QED BY <1>5, <1>11, <2>1, <2>2
<1>19. SpentIsSpent'
  <2> SUFFICES ASSUME NEW t \in Texts, posted'[t] = faults' + 1
               PROVE  Spent(t)'
    BY DEF SpentIsSpent
  <2>1. posted'[t] \in Nat /\ posted[t] \in Nat BY <1>5, <1>10
  <2>2. faults' = faults
    <3>1. posted'[t] <= faults + 1
      BY <1>5, <1>6, <1>7, <1>8, <1>10, <2>1
    <3> QED BY <1>5, <1>11, <3>1
  <2>3. CASE t # x
    <3>1. Spent(t) BY <1>1, <1>10, <2>2, <2>3 DEF SpentIsSpent
    <3>2. \A i \in Items : row[i].text = t => row[i].status = "Sent"
      BY <1>3, <3>1 DEF Spent
    <3> QED BY <1>2, <1>3, <1>4, <3>2 DEF Spent
  <2>4. CASE t = x
    <3>1. posted' # posted BY <1>5, <1>8, <2>1, <2>2, <2>4
    <3>2. a = "sent"
      BY <1>2, <1>5, <2>2, <3>1 DEF Fault
    <3> QED BY <1>3, <1>4, <2>4, <3>2 DEF Spent, x
  <2> QED BY <2>3, <2>4
<1>20. RetriesEnd' BY <1>1, <1>3 DEF RetriesEnd
<1> QED BY <1>12, <1>13, <1>14, <1>15, <1>16, <1>17, <1>18, <1>19, <1>20
        DEF IInv

LEMMA TargetIs ==
  ASSUME HandIsOwn, InFlight, NEW i \in Items, Target(i)
  PROVE  /\ row[i].status = "Sending" /\ row[i].text = worker.text
         /\ row[i].retries = worker.retries
  BY DEF HandIsOwn, Target, Present

(* An outcome: the row gets status s, and perhaps another try.             *)
Outcome(s) ==
  \A i \in Items :
    /\ row'[i] \in Row
    /\ IF Target(i)
       THEN /\ row'[i].status = s
            /\ row'[i].id = row[i].id /\ row'[i].text = row[i].text
            /\ row'[i].retries < MaxRetries
       ELSE row'[i] = row[i]

LEMMA MarkIs ==
  ASSUME TypeOK, RetriesEnd, NEW s \in RowStatus, Mark(s)
  PROVE  Outcome(s) /\ row' = [i \in Items |-> row'[i]]
<1>1. row' = [i \in Items |-> row'[i]] BY DEF Mark
<1>2. ASSUME NEW i \in Items
      PROVE  /\ row'[i] \in Row
             /\ IF Target(i)
                THEN /\ row'[i].status = s
                     /\ row'[i].id = row[i].id /\ row'[i].text = row[i].text
                     /\ row'[i].retries < MaxRetries
                ELSE row'[i] = row[i]
  <2>1. row[i] \in Row BY DEF TypeOK
  <2>2. CASE Target(i)
    <3> DEFINE x == [row[i] EXCEPT !.status = s]
               q == [x EXCEPT !.aged = FALSE]
    <3>1. row'[i] = q BY <2>2 DEF Mark
    <3>2. /\ x \in Row /\ x.status = s /\ x.id = row[i].id
          /\ x.text = row[i].text /\ x.retries = row[i].retries
      BY <2>1, StatusSet
    <3> HIDE DEF x
    <3>3. /\ q \in Row /\ q.status = s /\ q.id = row[i].id
          /\ q.text = row[i].text /\ q.retries = row[i].retries
      BY <3>2, AgedSet
    <3> HIDE DEF q
    <3>4. row[i].retries < MaxRetries BY DEF RetriesEnd
    <3> QED BY <2>2, <3>1, <3>3, <3>4
  <2>3. CASE ~Target(i)
    BY <2>1, <2>3 DEF Mark
  <2> QED BY <2>2, <2>3
<1> QED BY <1>1, <1>2 DEF Outcome

LEMMA PostponeIs ==
  ASSUME TypeOK, HandIsOwn, InFlight, ~LastTry, Postpone
  PROVE  Outcome("Pending") /\ row' = [i \in Items |-> row'[i]]
<1>1. row' = [i \in Items |-> row'[i]] BY DEF Postpone
<1>2. worker.retries \in Nat BY DEF TypeOK, Worker
<1>3. worker.retries + 1 < MaxRetries
  BY <1>2, OutboxAssumption DEF LastTry
<1>4. ASSUME NEW i \in Items
      PROVE  /\ row'[i] \in Row
             /\ IF Target(i)
                THEN /\ row'[i].status = "Pending"
                     /\ row'[i].id = row[i].id /\ row'[i].text = row[i].text
                     /\ row'[i].retries < MaxRetries
                ELSE row'[i] = row[i]
  <2>1. row[i] \in Row BY DEF TypeOK
  <2>2. CASE Target(i)
    <3> DEFINE n == row[i].retries + 1
               x == [row[i] EXCEPT !.status = "Pending"]
               y == [x EXCEPT !.aged = FALSE]
               z == [y EXCEPT !.retries = n]
               q == [z EXCEPT !.waiting = TRUE]
    <3>1. row'[i] = q BY <2>2 DEF Postpone
    <3>2. "Pending" \in RowStatus BY DEF RowStatus
    <3>3. n \in Nat BY <2>1 DEF Row
    <3>4. n < MaxRetries BY <1>3, <2>2, TargetIs
    <3> HIDE DEF n
    <3>5. /\ x \in Row /\ x.status = "Pending" /\ x.id = row[i].id
          /\ x.text = row[i].text
      BY <2>1, <3>2, StatusSet
    <3> HIDE DEF x
    <3>6. /\ y \in Row /\ y.status = "Pending" /\ y.id = row[i].id
          /\ y.text = row[i].text
      BY <3>5, AgedSet
    <3> HIDE DEF y
    <3>7. /\ z \in Row /\ z.status = "Pending" /\ z.id = row[i].id
          /\ z.text = row[i].text /\ z.retries = n
      BY <3>3, <3>6, RetriesSet
    <3> HIDE DEF z
    <3>8. /\ q \in Row /\ q.status = "Pending" /\ q.id = row[i].id
          /\ q.text = row[i].text /\ q.retries = n
      BY <3>7, WaitingSet
    <3> HIDE DEF q
    <3> QED BY <2>2, <3>1, <3>4, <3>8
  <2>3. CASE ~Target(i)
    BY <2>1, <2>3 DEF Postpone
  <2> QED BY <2>2, <2>3
<1> QED BY <1>1, <1>4 DEF Outcome

LEMMA OutcomeKeeps ==
  ASSUME IInv, InFlight, NEW s \in {"Sent", "Failed", "Pending"},
         Outcome(s), row' = [i \in Items |-> row'[i]],
         worker.at = "sent" <=> s = "Sent",
         worker' = Idle, UNCHANGED <<kind, faults, queued, live, posted>>
  PROVE  IInv'
<1>1. /\ TypeOK /\ RowsHaveTexts /\ HandIsOwn /\ SentInHand /\ RetriesEnd
  BY DEF IInv
<1>2. row' \in [Items -> Row] BY MapIs DEF Outcome
<1>3. \A i \in Items : Target(i) =>
         row[i].status = "Sending" /\ row[i].text = worker.text
  BY <1>1, TargetIs
<1>4. Stays
  <2> SUFFICES ASSUME NEW i \in Items
               PROVE  \/ /\ row[i].status # "none" /\ row'[i].status # "none"
                         /\ row'[i].id = row[i].id
                         /\ row'[i].text = row[i].text
                      \/ row'[i] = NoRow
    BY DEF Stays
  <2>1. CASE Target(i) BY <1>3, <2>1 DEF Outcome
  <2>2. CASE ~Target(i) BY <1>1, <2>2 DEF Outcome, RowsHaveTexts
  <2> QED BY <2>1, <2>2
<1>5. ASSUME NEW i \in Items, row'[i].status = "Sent"
      PROVE  row[i].status = "Sent" \/ posted[row[i].text] > 0
  <2>1. CASE Target(i)
    BY <1>1, <1>3, <1>5, <2>1 DEF Outcome, SentInHand
  <2>2. CASE ~Target(i)
    BY <1>5, <2>2 DEF Outcome
  <2> QED BY <2>1, <2>2
<1>6. \A i \in Items : row[i].status = "Sent" => row'[i].status = "Sent"
  BY <1>3 DEF Outcome
<1>7. ASSUME NEW i \in Items, row[i].status # "none", worker.at = "sent",
             row[i].text = worker.text
      PROVE  row'[i].status = "Sent"
  <2>1. Target(i) BY <1>1, <1>7 DEF HandIsOwn, Present, Target
  <2> QED BY <1>7, <2>1 DEF Outcome
<1>8. \A i \in Items : row'[i].retries < MaxRetries
  BY <1>1 DEF Outcome, RetriesEnd
<1>9. HandEmptied
  BY <1>2, <1>4, <1>5, <1>6, <1>7, <1>8, IdleIs DEF HandEmptied
<1> QED BY <1>9, EmptyHandKeeps

LEMMA SettleKeeps ==
  ASSUME IInv, Settle
  PROVE  IInv'
<1>1. TypeOK /\ HandIsOwn /\ RetriesEnd BY DEF IInv
<1>2. worker' = Idle /\ UNCHANGED <<kind, faults, queued, live, posted>>
  BY DEF Settle
<1>3. "Sent" \in RowStatus /\ "Failed" \in RowStatus BY DEF RowStatus
<1>4. CASE worker.at = "sent" /\ Mark("Sent")
  <2>1. InFlight BY <1>4 DEF InFlight
  <2>2. Outcome("Sent") /\ row' = [i \in Items |-> row'[i]]
    BY <1>1, <1>3, <1>4, MarkIs
  <2> QED BY <1>2, <1>4, <2>1, <2>2, OutcomeKeeps
<1>5. CASE worker.at \in {"failed", "refused"} /\ Mark("Failed")
  <2>1. InFlight BY <1>5 DEF InFlight
  <2>2. Outcome("Failed") /\ row' = [i \in Items |-> row'[i]]
    BY <1>1, <1>3, <1>5, MarkIs
  <2> QED BY <1>2, <1>5, <2>1, <2>2, OutcomeKeeps
<1>6. CASE worker.at = "failed" /\ ~LastTry /\ Postpone
  <2>1. InFlight BY <1>6 DEF InFlight
  <2>2. Outcome("Pending") /\ row' = [i \in Items |-> row'[i]]
    BY <1>1, <1>6, <2>1, PostponeIs
  <2> QED BY <1>2, <1>6, <2>1, <2>2, OutcomeKeeps
<1> QED BY <1>4, <1>5, <1>6 DEF Settle

-----------------------------------------------------------------------------
(* Theorems.                                                               *)

LEMMA Initially ==
  ASSUME Init
  PROVE  IInv
<1>1. \A i \in Items : row[i] = NoRow /\ row[i].status = "none"
        /\ row[i].text = 0 /\ row[i].retries = 0
  BY NoRowIsRow DEF Init
<1>2. TypeOK
  <2>1. row \in [Items -> Row] BY NoRowIsRow DEF Init
  <2>2. live \in [Items -> Life] BY DEF Init, Life
  <2>3. worker \in Worker BY IdleIs DEF Init
  <2>4. posted \in [Texts -> Nat] BY DEF Init
  <2>5. faults \in 0..MaxFaults /\ queued \in 0..MaxTexts /\ kind \in Kinds
    BY OutboxAssumption DEF Init
  <2> QED BY <2>1, <2>2, <2>3, <2>4, <2>5 DEF TypeOK
<1>3. worker.at = "idle" BY IdleIs DEF Init
<1>4. \A t \in Texts : posted[t] = 0 BY DEF Init
<1>5. faults = 0 BY DEF Init
<1>6. IdsDiffer BY <1>1 DEF IdsDiffer, Present
<1>7. RowsHaveTexts BY <1>1, <1>4 DEF RowsHaveTexts, Present
<1>8. HandIsOwn BY <1>3 DEF HandIsOwn, InFlight
<1>9. SentInHand BY <1>3 DEF SentInHand
<1>10. SentMeansPosted BY <1>1 DEF SentMeansPosted
<1>11. DuplicatesNeedFaults BY <1>4, <1>5 DEF DuplicatesNeedFaults
<1>12. SpentIsSpent BY <1>4, <1>5 DEF SpentIsSpent
<1>13. RetriesEnd BY <1>1, OutboxAssumption DEF RetriesEnd
<1> QED BY <1>2, <1>6, <1>7, <1>8, <1>9, <1>10, <1>11, <1>12, <1>13 DEF IInv

LEMMA EveryStep ==
  ASSUME IInv, OneAtATime, [Next]_vars
  PROVE  IInv'
<1>1. TypeOK /\ RowsHaveTexts BY DEF IInv
<1>2. live \in [Items -> Life] BY <1>1 DEF TypeOK
<1>3. ASSUME NEW i \in Items, NEW s \in RowStatus, NEW b \in BOOLEAN,
             Queue(i, s, b)
      PROVE  IInv'
  BY <1>3, QueueKeeps
<1>4. ASSUME NEW i \in Items, Cancel(i) PROVE IInv'
  <2>1. live' \in [Items -> Life] BY <1>2, <1>4, LivesAreLives DEF Cancel
  <2> QED BY <1>1, <1>4, <2>1, CancelWrites, PeopleKeep
<1>14. ASSUME NEW i \in Items, Withdraw(i) PROVE IInv'
  BY <1>1, <1>2, <1>14, CancelWrites, PeopleKeep DEF Withdraw
<1>5. ASSUME NEW i \in Items, Supersede(i) PROVE IInv'
  <2>1. live' \in [Items -> Life] BY <1>2, <1>5, LivesAreLives DEF Supersede
  <2>2. PeopleWrite BY <1>1, <1>5 DEF Supersede, PeopleWrite, Same, TypeOK
  <2> QED BY <2>1, <2>2, PeopleKeep
<1>6. ASSUME NEW i \in Items, Rerun(i) PROVE IInv'
  <2>1. live' \in [Items -> Life] BY <1>2, <1>6, LivesAreLives DEF Rerun
  <2> QED BY <1>1, <1>6, <2>1, RerunWrites, PeopleKeep
<1>7. ASSUME NEW i \in Items, Abort(i) PROVE IInv'
  BY <1>1, <1>2, <1>7, AbortWrites, PeopleKeep DEF Abort
<1>8. ASSUME NEW i \in Items, Release(i) PROVE IInv'
  BY <1>1, <1>2, <1>8, ReleaseWrites, PeopleKeep DEF Release
<1>9. ASSUME NEW i \in Items, Age(i) PROVE IInv'
  BY <1>1, <1>2, <1>9, AgeWrites, PeopleKeep DEF Age
<1>10. ASSUME NEW i \in Items, BackoffEnds(i) PROVE IInv'
  BY <1>1, <1>2, <1>10, BackoffEndsWrites, PeopleKeep DEF BackoffEnds
<1>11. CASE WorkerStep
  BY <1>11, SweepKeeps, LockKeeps, RestKeeps, SendKeeps, SettleKeeps
     DEF WorkerStep
<1>12. CASE Crash BY <1>12, CrashKeeps
<1>13. CASE UNCHANGED vars
  BY <1>13 DEF vars, IInv, TypeOK, IdsDiffer, RowsHaveTexts, HandIsOwn,
     InFlight, SentInHand, SentMeansPosted, DuplicatesNeedFaults,
     SpentIsSpent, Spent, RetriesEnd, Present
<1> QED BY <1>3, <1>4, <1>5, <1>6, <1>7, <1>8, <1>9, <1>10, <1>11, <1>12,
        <1>13, <1>14 DEF Next

(* The inductive invariant: ids and texts belong to one row, the copy in   *)
(* the worker's hand is of a row that is locked or gone, and posts are     *)
(* accounted for.                                                          *)
THEOREM Invariance == OneAtATime => (Spec => []IInv)
<1> SUFFICES ASSUME OneAtATime PROVE Spec => []IInv
  OBVIOUS
<1>1. Init => IInv BY Initially
<1>2. IInv /\ [Next]_vars => IInv' BY EveryStep
<1> QED BY <1>1, <1>2, PTL DEF Spec

(* A text is posted twice only after a fault, three times only after two:  *)
(* the retries, the sweep and the reruns post nothing again by themselves. *)
THEOREM DuplicatesNeedFaultsAlways ==
  OneAtATime => (Spec => []DuplicatesNeedFaults)
<1> SUFFICES ASSUME OneAtATime PROVE Spec => []DuplicatesNeedFaults
  OBVIOUS
<1>1. IInv => DuplicatesNeedFaults BY DEF IInv
<1> QED BY <1>1, Invariance, PTL

(* A row that is Sent tells of a text that was posted, in every behaviour  *)
(* in which comments are not in flight during a rerun.                     *)
THEOREM SentMeansPostedAlways ==
  OneAtATime => (Spec => []SentMeansPosted)
<1> SUFFICES ASSUME OneAtATime PROVE Spec => []SentMeansPosted
  OBVIOUS
<1>1. IInv => SentMeansPosted BY DEF IInv
<1> QED BY <1>1, Invariance, PTL

(* Only the lock makes a row Sending, and it takes no row that was         *)
(* cancelled or overtaken, whatever brought the row back.                  *)
THEOREM NothingUnwantedIsLockedEver ==
  OneAtATime => (Spec => NothingUnwantedIsLocked)
<1> SUFFICES ASSUME OneAtATime PROVE Spec => NothingUnwantedIsLocked
  OBVIOUS
<1> DEFINE A == \A i \in Items :
                  row[i].status # "Sending" /\ row'[i].status = "Sending" =>
                    ~live[i].cancelled /\ ~live[i].newer
<1>1. IInv /\ [Next]_vars => [A]_vars
  <2> SUFFICES ASSUME IInv, [Next]_vars, NEW i \in Items,
                      row[i].status # "Sending", row'[i].status = "Sending"
               PROVE  ~live[i].cancelled /\ ~live[i].newer
    OBVIOUS
  <2>1. TypeOK /\ RowsHaveTexts /\ HandIsOwn /\ RetriesEnd BY DEF IInv
  <2>2. ~PeopleWrite
    BY NoRowIsRow DEF PeopleWrite, Same, Moved, Deleted
  <2>3. PICK j \in Items : Lock(j)
    <3>1. ASSUME NEW j \in Items, NEW s \in RowStatus, NEW b \in BOOLEAN,
                 Queue(j, s, b)
          PROVE  FALSE
      <4>1. IdsDiffer BY DEF IInv
      <4>2. PICK n \in Nat :
               /\ s \in {"Pending", "Embargoed", "Withheld"}
               /\ row' = [row EXCEPT ![j] = QueuedRow(s, n, b)]
        BY <2>1, <3>1, <4>1, QueueWrites
      <4>3. row \in [Items -> Row] BY <2>1 DEF TypeOK
      <4>4. QueuedRow(s, n, b) \in Row /\ QueuedRow(s, n, b).status = s
        BY <2>1, <4>2, QueuedRowIs
      <4> DEFINE r == QueuedRow(s, n, b)
      <4>5. row' = [row EXCEPT ![j] = r] /\ r \in Row /\ r.status = s
        BY <4>2, <4>4
      <4> HIDE DEF r
      <4>6. row'[j] = r /\ \A k \in Items : k # j => row'[k] = row[k]
        BY <4>3, <4>5, OneRowSet
      <4> QED BY <4>2, <4>5, <4>6
    <3>2. ASSUME NEW j \in Items,
                 Cancel(j) \/ Supersede(j) \/ Withdraw(j) \/ Rerun(j)
                   \/ Abort(j) \/ Release(j) \/ Age(j) \/ BackoffEnds(j)
          PROVE  FALSE
      <4>1. CASE Supersede(j) BY <4>1 DEF Supersede
      <4> QED BY <2>1, <2>2, <3>2, <4>1, CancelWrites, RerunWrites,
              AbortWrites, ReleaseWrites, AgeWrites, BackoffEndsWrites
    <3>3. CASE Sweep
      <4>1. row'[i] = IF Ghost(i)
                      THEN [row[i] EXCEPT !.status = "Pending", !.aged = FALSE]
                      ELSE row[i]
        BY <3>3 DEF Sweep
      <4> QED BY <4>1 DEF Ghost
    <3>4. CASE Rest
      <4>1. row'[i] = Purged[i] BY <3>4 DEF Rest
      <4> QED BY <2>1, <4>1, PurgedIs
    <3>5. CASE Send BY <3>5 DEF Send
    <3>6. CASE Settle
      <4>1. InFlight BY <3>6 DEF Settle, InFlight
      <4>2. "Sent" \in RowStatus /\ "Failed" \in RowStatus BY DEF RowStatus
      <4>3. Outcome("Sent") \/ Outcome("Failed") \/ Outcome("Pending")
        BY <2>1, <3>6, <4>1, <4>2, MarkIs, PostponeIs DEF Settle
      <4> QED BY <4>3 DEF Outcome
    <3>7. CASE Crash BY <3>7 DEF Crash
    <3>8. CASE UNCHANGED vars BY <3>8 DEF vars
    <3> QED BY <3>1, <3>2, <3>3, <3>4, <3>5, <3>6, <3>7, <3>8
            DEF Next, WorkerStep
  <2>4. CASE i = j
    BY <2>3, <2>4 DEF Lock, Due, Dropped, Withdrawn
  <2>5. CASE i # j
    <3>1. row'[i] = Purged[i] BY <2>1, <2>3, <2>5, LockedRow
    <3> QED BY <2>1, <3>1, PurgedIs
  <2> QED BY <2>4, <2>5
<1>2. Spec => [][A]_vars BY <1>1, Invariance, PTL DEF Spec
<1> QED BY <1>2 DEF NothingUnwantedIsLocked

-----------------------------------------------------------------------------
(* What runs, people and releases see.                                     *)

LEMMA OutsideValues ==
  ASSUME NEW j \in Items
  PROVE  /\ [i \in Items |-> RowOutside(i)][j] = RowOutside(j)
         /\ [i \in Items |-> RowOutside(i)]'[j] = RowOutside(j)'
         /\ [i \in Items |-> live[i].cancelled][j] = live[j].cancelled
         /\ [i \in Items |-> live[i].cancelled]'[j] = live'[j].cancelled
         /\ [i \in Items |-> live[i].newer][j] = live[j].newer
         /\ [i \in Items |-> live[i].newer]'[j] = live'[j].newer
  OBVIOUS

LEMMA OutsideIs ==
  ASSUME NEW j \in Items
  PROVE  /\ row[j].status = "Pending" => RowOutside(j) = "Pending"
         /\ row[j].status \in {"Embargoed", "Withheld"} => RowOutside(j) = "Held"
         /\ row[j].status \in {"none", "Cancelled", "Sending"} =>
               RowOutside(j) = row[j].status
         /\ row[j].status = "Sent" => RowOutside(j) = "Over"
         /\ row[j].status = "Failed" =>
               RowOutside(j) = IF kind = "forge" THEN "Failed" ELSE "Over"
  BY DEF RowOutside

LEMMA OutsideIsNext ==
  ASSUME NEW j \in Items
  PROVE  /\ row'[j].status = "Pending" => RowOutside(j)' = "Pending"
         /\ row'[j].status \in {"Embargoed", "Withheld"} => RowOutside(j)' = "Held"
         /\ row'[j].status \in {"none", "Cancelled", "Sending"} =>
               RowOutside(j)' = row'[j].status
         /\ row'[j].status = "Sent" => RowOutside(j)' = "Over"
         /\ row'[j].status = "Failed" =>
               RowOutside(j)' = IF kind' = "forge" THEN "Failed" ELSE "Over"
  BY DEF RowOutside

(* Row j stays as it is, to be seen from outside.                          *)
Untouched(j) == row'[j].status = row[j].status /\ live'[j] = live[j]

LEMMA UntouchedRests ==
  ASSUME NEW j \in Items, kind' = kind, Untouched(j)
  PROVE  Rows!Rest(j)
<1>1. RowOutside(j)' = RowOutside(j)
  BY DEF Untouched, RowOutside
<1> QED
  BY <1>1, OutsideValues
     DEF Untouched, Rows!Rest, Rows!Stays, Rows!SamePatchset, Rows!SameNewer

LEMMA WithdrawnMoves ==
  ASSUME NEW j \in Items, live'[j] = live[j],
         row[j].status \in {"Pending", "Embargoed"},
         row'[j].status = "Cancelled"
  PROVE  Rows!Withdraw(j)
<1>1. RowOutside(j) \in {"Pending", "Held"} /\ RowOutside(j)' = "Cancelled"
  BY OutsideIs, OutsideIsNext
<1> QED
  BY <1>1, OutsideValues
     DEF Rows!Withdraw, Rows!Goes, Rows!Open, Rows!SamePatchset, Rows!SameNewer

(* What the worker does to a row, seen from outside.                       *)
Delivered(j) == Rows!Deliver(j) \/ Rows!Withdraw(j) \/ Rows!Rest(j)

LEMMA PurgedMoves ==
  ASSUME TypeOK, NEW j \in Items, row'[j] = Purged[j],
         kind' = kind, live' = live
  PROVE  Delivered(j)
<1>1. \/ row'[j] = row[j]
      \/ row[j].status \in {"Pending", "Embargoed"} /\ row'[j].status = "Cancelled"
  BY PurgedIs
<1> QED BY <1>1, UntouchedRests, WithdrawnMoves DEF Delivered, Untouched

LEMMA WorkerMoves ==
  ASSUME IInv, WorkerStep \/ Crash, NEW j \in Items
  PROVE  kind' = kind /\ Delivered(j)
<1> USE DEF Delivered
<1>1. /\ TypeOK /\ HandIsOwn /\ RetriesEnd BY DEF IInv
<1>2. kind' = kind /\ live' = live
  BY DEF WorkerStep, Sweep, Lock, Rest, Send, Settle, Crash
<1>3. ASSUME row[j].status = "Sending", row'[j].status = "Pending"
      PROVE  Rows!Deliver(j)
  <2>1. RowOutside(j) = "Sending" /\ RowOutside(j)' = "Pending"
    BY <1>3, OutsideIs, OutsideIsNext
  <2> QED
    BY <1>2, <2>1, OutsideValues
       DEF Rows!Deliver, Rows!ComeBack, Rows!Goes, Rows!SamePatchset, Rows!SameNewer
<1>4. CASE Sweep
  <2>1. row'[j] = IF Ghost(j)
                  THEN [row[j] EXCEPT !.status = "Pending", !.aged = FALSE]
                  ELSE row[j]
    BY <1>4 DEF Sweep
  <2>2. CASE Ghost(j)
    <3>1. row[j] \in Row BY <1>1 DEF TypeOK
    <3>2. row'[j].status = "Pending" BY <2>1, <2>2, <3>1 DEF Row
    <3> QED BY <1>2, <1>3, <2>2, <3>2 DEF Ghost
  <2>3. CASE ~Ghost(j)
    BY <1>2, <2>1, <2>3, UntouchedRests DEF Untouched
  <2> QED BY <1>2, <2>2, <2>3
<1>5. ASSUME NEW i \in Items, Lock(i) PROVE Delivered(j)
  <2>1. CASE i = j
    <3>1. /\ row[j].status = "Pending" /\ ~live[j].cancelled /\ ~live[j].newer
      BY <1>5, <2>1 DEF Lock, Due, Dropped, Withdrawn
    <3>2. row'[j].status = "Sending" BY <1>1, <1>5, <2>1, LockedRow
    <3>3. RowOutside(j) = "Pending" /\ RowOutside(j)' = "Sending"
      BY <3>1, <3>2, OutsideIs, OutsideIsNext
    <3> QED
      BY <1>2, <3>1, <3>3, OutsideValues
         DEF Rows!Deliver, Rows!Take, Rows!Wanted, Rows!Goes, Rows!SamePatchset,
             Rows!SameNewer
  <2>2. CASE i # j
    BY <1>1, <1>2, <1>5, <2>2, LockedRow, PurgedMoves
  <2> QED BY <2>1, <2>2
<1>6. CASE Rest BY <1>1, <1>2, <1>6, PurgedMoves DEF Rest
<1>7. CASE Send \/ Crash
  BY <1>2, <1>7, UntouchedRests DEF Send, Crash, Untouched
<1>8. CASE Settle
  <2>1. InFlight BY <1>8 DEF Settle, InFlight
  <2>2. "Sent" \in RowStatus /\ "Failed" \in RowStatus BY DEF RowStatus
  <2>3. PICK s \in {"Sent", "Failed", "Pending"} : Outcome(s)
    BY <1>1, <1>8, <2>1, <2>2, MarkIs, PostponeIs DEF Settle
  <2>4. CASE ~Target(j)
    BY <1>2, <2>3, <2>4, UntouchedRests DEF Outcome, Untouched
  <2>5. CASE Target(j)
    <3>1. row[j].status = "Sending" /\ row'[j].status = s
      BY <1>1, <2>1, <2>3, <2>5, TargetIs DEF Outcome
    <3>2. CASE s = "Pending" BY <1>2, <1>3, <3>1, <3>2
    <3>3. CASE s \in {"Sent", "Failed"}
      <4>1. /\ RowOutside(j) = "Sending"
            /\ RowOutside(j)' \in {"Over"} \cup IF kind = "forge" THEN {"Failed"} ELSE {}
        BY <1>2, <3>1, <3>3, OutsideIs, OutsideIsNext
      <4> QED
        BY <1>2, <4>1, OutsideValues
           DEF Rows!Deliver, Rows!Finish, Rows!Goes, Rows!OfForge,
               Rows!SamePatchset, Rows!SameNewer
    <3> QED BY <3>2, <3>3
  <2> QED BY <2>4, <2>5
<1> QED BY <1>2, <1>4, <1>5, <1>6, <1>7, <1>8 DEF WorkerStep

(* What people and runs do.                                                *)
LEMMA QueueMoves ==
  ASSUME TypeOK, IdsDiffer, NEW i \in Items, NEW s \in RowStatus,
         NEW b \in BOOLEAN, Queue(i, s, b), NEW j \in Items
  PROVE  kind' = kind /\ Rows!Move(j)
<1>1. kind' = kind /\ live' = live /\ ~live[i].cancelled /\ ~live[i].newer
  BY DEF Queue
<1>2. PICK n \in Nat :
        /\ s \in {"Pending", "Embargoed", "Withheld"}
        /\ row' = [row EXCEPT ![i] = QueuedRow(s, n, b)]
  BY QueueWrites
<1>3. row \in [Items -> Row] BY DEF TypeOK
<1>4. QueuedRow(s, n, b) \in Row /\ QueuedRow(s, n, b).status = s
  BY <1>2, QueuedRowIs
<1> DEFINE r == QueuedRow(s, n, b)
<1>5. row' = [row EXCEPT ![i] = r] /\ r \in Row /\ r.status = s
  BY <1>2, <1>4
<1> HIDE DEF r
<1>6. row'[i] = r /\ \A k \in Items : k # i => row'[k] = row[k]
  BY <1>3, <1>5, OneRowSet
<1>7. CASE j # i
  BY <1>1, <1>6, <1>7, UntouchedRests DEF Untouched, Rows!Move
<1>8. CASE j = i
  <2>1. RowOutside(j)' \in {"Pending", "Held"}
    BY <1>2, <1>5, <1>6, <1>8, OutsideIsNext
  <2>2. row[j].status \in RowStatus BY <1>3 DEF Row
  <2>3. Accepts(i, b) BY DEF Queue
  <2>4. CASE kind = "forge"
    <3>1. RowOutside(j) \in {"Pending", "Held", "none", "Cancelled", "Sending",
                             "Over", "Failed"}
      BY <2>2, OutsideIs DEF RowStatus
    <3>2. Rows!Queue(j)
      BY <1>1, <1>8, <2>1, <2>4, <3>1, OutsideValues
         DEF Rows!Queue, Rows!Wanted, Rows!Goes, Rows!Open, Rows!OfForge,
             Rows!SamePatchset, Rows!SameNewer
    <3> QED BY <1>1, <3>2 DEF Rows!Move
  <2>5. CASE kind # "forge"
    <3>1. row[j].status \in {"none", "Pending", "Embargoed", "Withheld", "Cancelled"}
      BY <1>8, <2>3, <2>5, KindIs DEF Accepts
    <3>2. RowOutside(j) \in {"Pending", "Held", "none", "Cancelled"}
      BY <3>1, OutsideIs
    <3>3. Rows!Queue(j)
      BY <1>1, <1>8, <2>1, <3>2, OutsideValues
         DEF Rows!Queue, Rows!Wanted, Rows!Goes, Rows!Open, Rows!OfForge,
             Rows!SamePatchset, Rows!SameNewer
    <3> QED BY <1>1, <3>3 DEF Rows!Move
  <2> QED BY <2>4, <2>5
<1> QED BY <1>1, <1>7, <1>8

LEMMA CancelMoves ==
  ASSUME TypeOK, NEW i \in Items, Cancel(i) \/ Withdraw(i) \/ Supersede(i),
         NEW j \in Items
  PROVE  kind' = kind /\ Rows!Move(j)
<1>1. kind' = kind /\ live \in [Items -> Life] /\ row[j].status \in RowStatus
  BY DEF Cancel, Withdraw, Supersede, TypeOK, Row
<1>2. CASE Withdraw(i)
  <2>1. CASE j = i
    <3>1. /\ row[j].status \in {"Pending", "Embargoed"}
          /\ row'[j].status = "Cancelled" /\ live' = live
      BY <1>2, <2>1, TakenBack DEF Withdraw, Withdrawn
    <3> QED BY <1>1, <3>1, WithdrawnMoves DEF Rows!Move
  <2>2. CASE j # i
    <3>1. row'[j] = row[j] /\ live' = live
      BY <1>2, <2>2, TakenBack DEF Withdraw
    <3> QED BY <1>1, <3>1, UntouchedRests DEF Untouched, Rows!Move
  <2> QED BY <2>1, <2>2
<1>3. CASE Supersede(i)
  <2>1. row' = row /\ live'[j].cancelled = live[j].cancelled
        /\ (j = i => live'[j].newer = TRUE) /\ (j # i => live'[j] = live[j])
    BY <1>1, <1>3 DEF Supersede, Life
  <2>2. CASE j # i
    BY <1>1, <2>1, <2>2, UntouchedRests DEF Untouched, Rows!Move
  <2>3. CASE j = i
    <3>1. RowOutside(j)' = RowOutside(j) BY <1>1, <2>1 DEF RowOutside
    <3>2. Rows!Overtake(j)
      BY <2>1, <2>3, <3>1, OutsideValues DEF Rows!Overtake, Rows!Stays
    <3> QED BY <1>1, <3>2 DEF Rows!Move
  <2> QED BY <2>2, <2>3
<1>4. CASE Cancel(i)
  <2>1. /\ live'[j].newer = live[j].newer
        /\ (j = i => live'[j].cancelled = TRUE) /\ (j # i => live'[j] = live[j])
    BY <1>1, <1>4 DEF Cancel, Life
  <2>2. CASE j # i
    <3>1. row'[j] = row[j]
      BY <1>4, <2>2, TakenBack DEF Cancel
    <3> QED BY <1>1, <2>1, <2>2, <3>1, UntouchedRests DEF Untouched, Rows!Move
  <2>3. CASE j = i /\ Withdrawn(i)
    <3>1. row[j].status \in {"Pending", "Embargoed"} /\ row'[j].status = "Cancelled"
      BY <1>4, <2>3, TakenBack DEF Cancel, Withdrawn
    <3>2. RowOutside(j) \in {"Pending", "Held"} /\ RowOutside(j)' = "Cancelled"
      BY <3>1, OutsideIs, OutsideIsNext
    <3>3. Rows!Cancel(j)
      BY <2>1, <2>3, <3>2, OutsideValues
         DEF Rows!Cancel, Rows!Goes, Rows!Open, Rows!SameNewer
    <3> QED BY <1>1, <3>3 DEF Rows!Move
  <2>4. CASE j = i /\ ~Withdrawn(i)
    <3>1. row' = row /\ row[j].status # "Pending"
      BY <1>4, <2>4 DEF Cancel, Withdrawn
    <3>2. RowOutside(j)' = RowOutside(j) BY <1>1, <3>1 DEF RowOutside
    <3>3. RowOutside(j) # "Pending" BY <3>1 DEF RowOutside
    <3>4. Rows!Cancel(j)
      BY <2>1, <2>4, <3>2, <3>3, OutsideValues
         DEF Rows!Cancel, Rows!Stays, Rows!SameNewer
    <3> QED BY <1>1, <3>4 DEF Rows!Move
  <2> QED BY <2>2, <2>3, <2>4
<1> QED BY <1>2, <1>3, <1>4

(* A row that is deleted was open, cancelled or, of a comment, Failed.     *)
LEMMA DiscardedMoves ==
  ASSUME TypeOK, NEW i \in Items, Discards(i), kind' = kind,
         row' = [row EXCEPT ![i] = NoRow]
  PROVE  /\ Rows!Discarded(i) /\ RowOutside(i)' = "none"
         /\ \A j \in Items : j # i => row'[j] = row[j]
<1>1. row \in [Items -> Row] BY DEF TypeOK
<1>2. /\ row'[i] = NoRow /\ row'[i].status = "none"
      /\ \A j \in Items : j # i => row'[j] = row[j]
  BY <1>1, NoRowIsRow, OneRowSet
<1>3. RowOutside(i)' = "none" BY <1>2, OutsideIsNext
<1>4. RowOutside(i) \in {"Pending", "Held", "Cancelled"}
                          \cup IF kind = "forge" THEN {"Failed"} ELSE {}
  <2>1. CASE kind = "forge"
    <3>1. row[i].status \in {"Pending", "Embargoed", "Withheld", "Failed",
                             "Cancelled"}
      BY <2>1 DEF Discards
    <3> QED BY <2>1, <3>1, OutsideIs
  <2>2. CASE kind # "forge"
    <3>1. row[i].status \in {"Pending", "Embargoed", "Withheld", "Cancelled"}
      BY <2>2, KindIs DEF Discards
    <3> QED BY <3>1, OutsideIs
  <2> QED BY <2>1, <2>2
<1> QED
  BY <1>2, <1>3, <1>4, OutsideValues
     DEF Rows!Discarded, Rows!Goes, Rows!Open, Rows!OfForge

LEMMA RerunMoves ==
  ASSUME TypeOK, NEW i \in Items, Rerun(i), NEW j \in Items
  PROVE  kind' = kind /\ Rows!Move(j)
<1>1. kind' = kind /\ live \in [Items -> Life] /\ row[j].status \in RowStatus
  BY DEF Rerun, TypeOK, Row
<1>2. /\ live'[j].newer = live[j].newer
      /\ (j = i => ~live'[j].cancelled) /\ (j # i => live'[j] = live[j])
  BY <1>1 DEF Rerun, Life
<1>3. CASE Discards(i) /\ row' = [row EXCEPT ![i] = NoRow]
  <2>1. CASE j # i
    BY <1>1, <1>2, <1>3, <2>1, DiscardedMoves, UntouchedRests
       DEF Untouched, Rows!Move
  <2>2. CASE j = i
    <3>1. Rows!Discarded(j) /\ RowOutside(j)' = "none"
      BY <1>1, <1>3, <2>2, DiscardedMoves
    <3>2. Rows!Rerun(j)
      BY <1>2, <2>2, <3>1, OutsideValues DEF Rows!Rerun, Rows!SameNewer
    <3> QED BY <1>1, <3>2 DEF Rows!Move
  <2> QED BY <2>1, <2>2
<1>4. CASE (kind = "forge" => ~Discards(i)) /\ row' = row
  <2>1. CASE j # i
    BY <1>1, <1>2, <1>4, <2>1, UntouchedRests DEF Untouched, Rows!Move
  <2>2. CASE j = i
    <3>1. RowOutside(j)' = RowOutside(j) BY <1>1, <1>4 DEF RowOutside
    <3>2. ASSUME kind = "forge"
          PROVE  RowOutside(j)' \in {"none", "Sending", "Over"}
      <4>1. row[j].status \in {"none", "Sending", "Sent"}
        BY <1>1, <1>4, <2>2, <3>2 DEF Discards, RowStatus
      <4> QED BY <3>1, <4>1, OutsideIs
    <3>3. Rows!Rerun(j)
      BY <1>2, <2>2, <3>1, <3>2, OutsideValues
         DEF Rows!Rerun, Rows!Stays, Rows!SameNewer
    <3> QED BY <1>1, <3>3 DEF Rows!Move
  <2> QED BY <2>1, <2>2
<1> QED BY <1>1, <1>3, <1>4 DEF Rerun

LEMMA AbortMoves ==
  ASSUME TypeOK, NEW i \in Items, Abort(i), NEW j \in Items
  PROVE  kind' = kind /\ Rows!Move(j)
<1>1. kind' = kind /\ live' = live BY DEF Abort
<1>2. CASE j # i
  BY <1>1, <1>2, DiscardedMoves, UntouchedRests DEF Abort, Untouched, Rows!Move
<1>3. CASE j = i
  <2>1. Rows!Discard(j)
    BY <1>1, <1>3, DiscardedMoves, OutsideValues
       DEF Abort, Rows!Discard, Rows!SamePatchset, Rows!SameNewer
  <2> QED BY <1>1, <2>1 DEF Rows!Move
<1> QED BY <1>2, <1>3

LEMMA ReleaseMoves ==
  ASSUME TypeOK, NEW i \in Items, Release(i), NEW j \in Items
  PROVE  kind' = kind /\ Rows!Move(j)
<1> DEFINE q == [row[i] EXCEPT !.status = "Pending"]
<1>1. kind' = kind /\ live' = live /\ row[i].status = "Embargoed"
  BY DEF Release, Held
<1>2. row \in [Items -> Row] /\ row' = [row EXCEPT ![i] = q]
  BY DEF TypeOK, Release
<1>3. "Pending" \in RowStatus /\ row[i] \in Row BY <1>2 DEF RowStatus
<1>4. q \in Row /\ q.status = "Pending" BY <1>3, StatusSet
<1> HIDE DEF q
<1>5. row'[i] = q /\ \A k \in Items : k # i => row'[k] = row[k]
  BY <1>2, <1>4, OneRowSet
<1>6. CASE j # i
  BY <1>1, <1>5, <1>6, UntouchedRests DEF Untouched, Rows!Move
<1>7. CASE j = i
  <2>1. RowOutside(j) = "Held" /\ RowOutside(j)' = "Pending"
    BY <1>1, <1>4, <1>5, <1>7, OutsideIs, OutsideIsNext
  <2>2. Rows!Release(j)
    BY <1>1, <2>1, OutsideValues
       DEF Rows!Release, Rows!Goes, Rows!SamePatchset, Rows!SameNewer
  <2> QED BY <1>1, <2>2 DEF Rows!Move
<1> QED BY <1>6, <1>7

LEMMA TimeMoves ==
  ASSUME TypeOK, NEW i \in Items, Age(i) \/ BackoffEnds(i), NEW j \in Items
  PROVE  kind' = kind /\ Rows!Move(j)
<1>1. kind' = kind /\ live' = live BY DEF Age, BackoffEnds
<1>2. row \in [Items -> Row] BY DEF TypeOK
<1>3. row'[j].status = row[j].status
  <2>1. CASE Age(i)
    <3> DEFINE q == [row[i] EXCEPT !.aged = TRUE]
    <3>1. q \in Row /\ q.status = row[i].status BY <1>2, AgedSet
    <3>2. row' = [row EXCEPT ![i] = q] BY <2>1 DEF Age
    <3> HIDE DEF q
    <3> QED BY <1>2, <3>1, <3>2, OneRowSet
  <2>2. CASE BackoffEnds(i)
    <3> DEFINE q == [row[i] EXCEPT !.waiting = FALSE]
    <3>1. q \in Row /\ q.status = row[i].status BY <1>2, WaitingSet
    <3>2. row' = [row EXCEPT ![i] = q] BY <2>2 DEF BackoffEnds
    <3> HIDE DEF q
    <3> QED BY <1>2, <3>1, <3>2, OneRowSet
  <2> QED BY <2>1, <2>2
<1> QED BY <1>1, <1>3, UntouchedRests DEF Untouched, Rows!Move

LEMMA NextMoves ==
  ASSUME IInv, [Next]_vars
  PROVE  kind' = kind /\ \A j \in Items : Rows!Move(j)
<1> SUFFICES ASSUME NEW k \in Items \cup {None}
             PROVE  kind' = kind /\ (k \in Items => Rows!Move(k))
  OBVIOUS
<1>1. TypeOK /\ IdsDiffer BY DEF IInv
<1>2. kind' = kind
  BY DEF Next, vars, Queue, Cancel, Supersede, Withdraw, Rerun, Abort, Release,
     Age, BackoffEnds, WorkerStep, Sweep, Lock, Rest, Send, Settle, Crash
<1>3. ASSUME k \in Items PROVE Rows!Move(k)
  <2>1. ASSUME NEW i \in Items, NEW s \in RowStatus, NEW b \in BOOLEAN,
               Queue(i, s, b)
        PROVE  Rows!Move(k)
    BY <1>1, <1>3, <2>1, QueueMoves
  <2>2. ASSUME NEW i \in Items, Cancel(i) \/ Supersede(i) \/ Withdraw(i)
        PROVE  Rows!Move(k)
    BY <1>1, <1>3, <2>2, CancelMoves
  <2>3. ASSUME NEW i \in Items, Rerun(i) \/ Abort(i) \/ Release(i)
        PROVE  Rows!Move(k)
    BY <1>1, <1>3, <2>3, RerunMoves, AbortMoves, ReleaseMoves
  <2>4. ASSUME NEW i \in Items, Age(i) \/ BackoffEnds(i)
        PROVE  Rows!Move(k)
    BY <1>1, <1>3, <2>4, TimeMoves
  <2>5. CASE WorkerStep \/ Crash
    BY <1>3, <2>5, WorkerMoves DEF Delivered, Rows!Move
  <2>6. CASE UNCHANGED vars
    BY <1>3, <2>6, UntouchedRests DEF vars, Untouched, Rows!Move
  <2> QED BY <2>1, <2>2, <2>3, <2>4, <2>5, <2>6 DEF Next
<1> QED BY <1>2, <1>3

(* The outboxes change a row only as the runs, the people and the releases *)
(* that share it expect: what was cancelled, overtaken or deleted while it *)
(* was in the worker's hand is not taken up again (lock_pending_email and  *)
(* its like), in every behaviour without a rerun during a post.            *)
THEOREM OutboxMovesAsAgreed == OneAtATime => (Spec => MovesAsAgreed)
<1> SUFFICES ASSUME OneAtATime PROVE Spec => MovesAsAgreed
  OBVIOUS
<1>1. Init => Rows!Init
  <2> SUFFICES ASSUME Init PROVE Rows!Init
    OBVIOUS
  <2>1. kind \in {"mail", "patchwork", "forge"}
    BY OutboxAssumption DEF Init
  <2>2. ASSUME NEW i \in Items
        PROVE  RowOutside(i) = "none" /\ ~live[i].cancelled /\ ~live[i].newer
               /\ live[i].cancelled = FALSE /\ live[i].newer = FALSE
    BY NoRowIsRow DEF Init, RowOutside
  <2> QED BY <2>1, <2>2 DEF Rows!Init
<1>2. IInv /\ [Next]_vars => [Rows!Next]_(Rows!lifeVars)
  <2> SUFFICES ASSUME IInv, [Next]_vars PROVE Rows!Next
    OBVIOUS
  <2> QED BY NextMoves DEF Rows!Next
<1>3. Spec => Rows!Spec
  BY <1>1, <1>2, Invariance, PTL DEF Spec, Rows!Spec
<1> QED BY <1>3 DEF MovesAsAgreed

(* The worker by itself only takes a wanted row, brings it back or ends    *)
(* it, and withdraws: it queues, releases, deletes and cancels nothing.    *)
THEOREM WorkersOnlyDeliver ==
  OneAtATime =>
    (Spec => [][WorkerStep \/ Crash => \A i \in Items : Delivered(i)]_vars)
<1> DEFINE A == WorkerStep \/ Crash => \A i \in Items : Delivered(i)
<1>1. IInv /\ [Next]_vars => [A]_vars
  BY WorkerMoves
<1>2. ASSUME OneAtATime PROVE Spec => [][A]_vars
  BY <1>1, <1>2, Invariance, PTL DEF Spec
<1> QED BY <1>2

===============================================================================
