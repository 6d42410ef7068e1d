------------------------ MODULE PatchsetReviewProofs ------------------------
(***************************************************************************)
(* Proofs about PatchsetReview, for any patches, runs, reviews and retries,*)
(* with and without failing writes and panicking tasks.                    *)
(*                                                                         *)
(* No property holds by induction alone: that two workers never fill one   *)
(* row needs that a worker's row is its own or was taken from it; that     *)
(* needs that ids are not reused and that a lost claim stays lost; and     *)
(* the findings of a completed row need all of it.  IInv is the            *)
(* conjunction.  Each conjunct P has a lemma that IInv and a step of Next  *)
(* give P', and before it the lemmas on what steps do to jobs, rows, mails *)
(* and patches.  They group the actions: the steps of people, of the mail  *)
(* and forge workers, of a run's task, and of a job that only moves        *)
(* (JobOnly), writes its patch (JobAndPatch) or writes rows and mail       *)
(* (JobAndRows).  The theorems are at the end.                             *)
(***************************************************************************)
EXTENDS PatchsetReview, WellFoundedInduction, TLAPS

(* A non-empty set of naturals has a least element.                        *)
LEMMA LeastNatural ==
  ASSUME NEW S \in SUBSET Nat, S # {}
  PROVE  \E n \in S : \A m \in S : n <= m
<1> DEFINE R == OpToRel(<, Nat)
<1>1. IsWellFoundedOn(R, Nat)
  BY NatLessThanWellFounded
<1> HIDE DEF R
<1>2. PICK n \in S : \A m \in S : <<m, n>> \notin R
  BY <1>1, WFMin
<1>3. \A m \in S : m < n => <<m, n>> \in R
  BY DEF R, OpToRel
<1>4. \A m, k \in Nat : ~(m < k) => k <= m
  OBVIOUS
<1>5. \A m \in S : n <= m
  <2> TAKE m \in S
  <2>1. ~(m < n) BY <1>2, <1>3
  <2> QED BY <2>1, <1>4
<1>6. QED BY <1>5

(* And a non-empty set of naturals with a bound has a greatest one.        *)
LEMMA GreatestNatural ==
  ASSUME NEW S, S \subseteq Nat, S # {}, NEW b \in Nat, \A m \in S : m <= b
  PROVE  \E n \in S : \A m \in S : m <= n
<1> DEFINE B == {k \in Nat : \A m \in S : m <= k}
<1>1. b \in B
  OBVIOUS
<1>2. PICK n \in B : \A k \in B : n <= k
  <2> B \in SUBSET Nat /\ B # {} BY <1>1
  <2> QED BY LeastNatural
<1>3. n \in S
  <2> SUFFICES ASSUME n \notin S PROVE FALSE OBVIOUS
  <2>1. \A m \in S : m \in Nat /\ m <= n /\ m # n
    BY <1>2
  <2>2. PICK m \in S : TRUE
    OBVIOUS
  <2>3. n \in Nat /\ n # 0
    BY <2>1, <2>2
  <2>4. n - 1 \in Nat /\ \A k \in S : k <= n - 1
    BY <2>1, <2>3
  <2>5. n <= n - 1
    BY <2>4, <1>2
  <2> QED BY <2>3, <2>5
<1>4. QED BY <1>2, <1>3

-----------------------------------------------------------------------------

USE PatchsetReviewAssumption DEF Runs, Ids

(* The newest of some ids is one of them.                                   *)
LEMMA NewestIn ==
  ASSUME NEW S \in SUBSET Ids, S # {}
  PROVE  Newest(S) \in S
<1>1. S \subseteq Nat /\ MaxReviews \in Nat /\ \A m \in S : m <= MaxReviews
  OBVIOUS
<1>2. \E i \in S : \A j \in S : j <= i
  BY <1>1, GreatestNatural
<1>3. QED BY <1>2 DEF Newest

(* And so is the oldest.                                                    *)
LEMMA OldestIn ==
  ASSUME NEW S \in SUBSET Ids, S # {}
  PROVE  Oldest(S) \in S
<1>1. \E i \in S : \A j \in S : i <= j
  BY LeastNatural
<1>2. QED BY <1>1 DEF Oldest

(* The highest id is past every row there is and every row deleted before. *)
LEMMA HighestIdIsHighest ==
  ASSUME maxId \in 0..MaxReviews
  PROVE  /\ HighestId \in 0..MaxReviews
         /\ HighestId >= maxId
         /\ \A i \in Ids : Exists(i) => i <= HighestId
<1> DEFINE S == {maxId} \cup {i \in Ids : Exists(i) /\ i >= maxId}
<1> HIDE DEF Exists
<1>1. S \subseteq Nat /\ maxId \in S /\ \A m \in S : m <= MaxReviews
  OBVIOUS
<1>2. PICK n \in S : \A m \in S : m <= n
  BY <1>1, GreatestNatural
<1>3. /\ n \in 0..MaxReviews /\ n >= maxId
      /\ n = maxId \/ (n \in Ids /\ Exists(n))
  BY <1>1, <1>2
<1>4. \A i \in Ids : Exists(i) => i <= n
  <2> TAKE i \in Ids
  <2>1. CASE i >= maxId
    BY <2>1, <1>2
  <2>2. CASE ~(i >= maxId)
    BY <2>2, <1>3
  <2> QED BY <2>1, <2>2
<1>5. QED BY <1>3, <1>4 DEF HighestId

-----------------------------------------------------------------------------
(* Types.                                                                  *)

Jobs == [Runs -> [Patches -> Job]]
ReviewRows == [Ids -> Review]
MailRows == [Patches -> Mail]

(* What is written over a row is a row.                                    *)
LEMMA RowTypes ==
  ASSUME NEW r \in Review
  PROVE  /\ Cleared(r) \in Review
         /\ \A s \in ReviewStatus : EndedAs(r, s) \in Review
         /\ \A q \in Patches : Cleared([Unused EXCEPT !.of = q]) \in Review
         /\ Deleted \in Review
<1>1. /\ "In Review" \in ReviewStatus /\ "unused" \in ReviewStatus
      /\ "deleted" \in ReviewStatus /\ 0 \in 0..2
      /\ TRUE \in BOOLEAN /\ FALSE \in BOOLEAN
  BY DEF ReviewStatus
<1>2. Unused \in Review
  BY <1>1 DEF Unused, Review
<1>3. ASSUME NEW q \in Patches PROVE [Unused EXCEPT !.of = q] \in Review
  BY <1>2 DEF Review
<1>4. ASSUME NEW x \in Review PROVE Cleared(x) \in Review
  BY <1>1 DEF Cleared, Review
<1>5. ASSUME NEW s \in ReviewStatus PROVE EndedAs(r, s) \in Review
  BY <1>1 DEF EndedAs, Review
<1>6. Deleted \in Review
  BY <1>1, <1>2 DEF Deleted, Review
<1>7. QED BY <1>3, <1>4, <1>5, <1>6

(* Deleting the artifacts of reviews leaves mails.                          *)
LEMMA MailWithoutType ==
  ASSUME mail \in MailRows, NEW S
  PROVE  MailWithout(S) \in MailRows
BY DEF MailWithout, MailRows, Mail, NoMail, OutboxStatus

(* A job that goes on, ends, or stops its worker, is a job.                *)
LEMMA JobTypes ==
  ASSUME job \in Jobs, NEW g \in Runs, NEW p \in Patches, NEW s \in JobStage
  PROVE  /\ JobAt(s) \in Job
         /\ JobTo(g, p, s) => job' \in Jobs
         /\ JobEnds(g, p, s) => job' \in Jobs
         /\ Drop(g, p, s) => job' \in Jobs
<1>1. JobAt(s) \in Job
  BY DEF JobAt, Job
<1>2. job[g] \in [Patches -> Job] /\ job[g][p] \in Job
  BY DEF Jobs
<1>3. [job[g][p] EXCEPT !.at = s] \in Job
  BY <1>2 DEF Job
<1>4. JobTo(g, p, s) => job' \in Jobs
  BY <1>2, <1>3 DEF JobTo, Jobs
<1>5. JobEnds(g, p, s) => job' \in Jobs
  BY <1>1, <1>2 DEF JobEnds, Jobs
<1>6. Drop(g, p, s) => job' \in Jobs
  BY <1>1, <1>2 DEF Drop, Jobs
<1>7. QED BY <1>1, <1>4, <1>5, <1>6

(* reset_patchset_review_state leaves rows, mails and a comment.            *)
LEMMA ResetTypes ==
  ASSUME TypeOK, ResetReviewState
  PROVE  /\ active' = 0
         /\ maxId' \in 0..MaxReviews
         /\ patch' \in [Patches -> PatchStatus]
         /\ review' \in ReviewRows
         /\ mail' \in MailRows
         /\ comment' \in Comment
<1>1. mail' \in MailRows
  BY MailWithoutType DEF ResetReviewState, TypeOK, MailRows
<1>2. maxId' \in 0..MaxReviews
  BY HighestIdIsHighest DEF ResetReviewState, TypeOK
<1>3. review' \in ReviewRows
  BY RowTypes DEF ResetReviewState, TypeOK, ReviewRows
<1>4. patch' \in [Patches -> PatchStatus]
  BY DEF ResetReviewState, TypeOK, PatchStatus
<1>5. comment' \in Comment
  BY DEF ResetReviewState, TypeOK, Comment, NoComment, OutboxStatus
<1>6. QED BY <1>1, <1>2, <1>3, <1>4, <1>5 DEF ResetReviewState

(* The parts of TypeOK, by the module's groups of variables.               *)
GensOK ==
    /\ target \in 1..(MaxRuns + 1)
    /\ active \in 0..MaxRuns /\ lastGen \in 0..MaxRuns

SetOK == status \in PatchsetStatus /\ GensOK

RowsOK ==
    /\ maxId \in 0..MaxReviews
    /\ patch \in [Patches -> PatchStatus]
    /\ review \in ReviewRows

OutboxOK == mail \in MailRows /\ comment \in Comment

TasksOK == run \in [Runs -> RunStage] /\ job \in Jobs

(* The type invariant in parts that the provers can take one at a time.     *)
LEMMA TypeParts == TypeOK <=> SetOK /\ RowsOK /\ OutboxOK /\ TasksOK
  BY DEF TypeOK, SetOK, GensOK, RowsOK, OutboxOK, TasksOK, ReviewRows, MailRows, Jobs

(* And the same after a step.                                               *)
LEMMA TypePartsNext == TypeOK' <=> SetOK' /\ RowsOK' /\ OutboxOK' /\ TasksOK'
  BY DEF TypeOK, SetOK, GensOK, RowsOK, OutboxOK, TasksOK, ReviewRows, MailRows, Jobs

(* The names that the actions write, so that the proofs need not look into *)
(* the sets again.                                                         *)
LEMMA PatchsetNames ==
  {"Fetching", "Incomplete", "Pending", "Awaiting Review", "In Review",
   "Reviewed", "Failed", "Failed To Apply", "Cancelled"} \subseteq PatchsetStatus
BY DEF PatchsetStatus

(* The stages of a run that the actions write.                              *)
LEMMA RunNames ==
  {"none", "starting", "reviewing", "settling", "failing", "concluding",
   "posting", "crashing", "crashed", "releasing", "gone"} \subseteq RunStage
BY DEF RunStage

(* The stages of a job that the actions write.                              *)
LEMMA JobNames ==
  {"none", "filtered", "queued", "looking", "claiming", "running", "found",
   "skipped", "errored", "retrying", "saving", "completing", "failing",
   "skipping", "notifying", "closing", "closeFailed", "closeSkipped",
   "aborting", "abortingPatch", "ok", "failed", "dropped"} \subseteq JobStage
BY DEF JobStage

(* Types: the steps of people, of ingestion and of the daemon's restart.    *)
LEMMA PeopleType == ASSUME IInv, People \/ Restart PROVE TypeOK'
<1> SetOK /\ RowsOK /\ OutboxOK /\ TasksOK /\ TypeOK /\ ClaimsInOrder
  BY TypeParts DEF IInv
<1>1. CASE Ingest
  BY <1>1, TypePartsNext, PatchsetNames
  DEF Ingest, SetOK, GensOK, RowsOK, OutboxOK, TasksOK, rows, outbox, tasks
<1>2. CASE Supersede
  <2>1. OutboxOK'
    BY <1>2 DEF Supersede, CancelOutbox, OutboxOK, MailRows, Mail, Comment, OutboxStatus
  <2>2. QED
    BY <1>2, <2>1, TypePartsNext DEF Supersede, SetOK, GensOK, RowsOK, TasksOK, set, rows, tasks
<1>3. CASE Rerun
  <2>1. /\ ResetReviewState /\ UNCHANGED <<lastGen, run, job>>
        /\ status' = "Pending"
        /\ target' = IF status = "Reviewed" THEN target + 1 ELSE target
    BY <1>3 DEF Rerun, tasks
  <2>2. GensOK'
    <3>1. CASE status = "Reviewed"
      BY <2>1, <3>1, ResetTypes DEF SetOK, GensOK, ClaimsInOrder
    <3>2. CASE status # "Reviewed"
      BY <2>1, <3>2, ResetTypes DEF SetOK, GensOK
    <3> QED BY <3>1, <3>2
  <2>3. SetOK'
    BY <2>1, <2>2, PatchsetNames DEF SetOK
  <2>4. RowsOK' /\ OutboxOK' /\ TasksOK'
    BY <2>1, ResetTypes DEF RowsOK, OutboxOK, TasksOK
  <2>5. QED BY <2>3, <2>4, TypePartsNext
<1>4. CASE Refetch
  <2>1. /\ ResetReviewState /\ UNCHANGED <<target, lastGen, run, job>>
        /\ status' = "Fetching"
    BY <1>4 DEF Refetch, tasks
  <2>2. GensOK' /\ status' \in PatchsetStatus
    <3>1. GensOK'
      BY <2>1, ResetTypes DEF SetOK, GensOK
    <3>2. QED BY <2>1, <3>1, PatchsetNames
  <2>3. RowsOK' /\ OutboxOK' /\ TasksOK'
    BY <2>1, ResetTypes DEF RowsOK, OutboxOK, TasksOK
  <2>4. QED BY <2>2, <2>3, TypePartsNext DEF SetOK
<1>5. ASSUME NEW force \in BOOLEAN, Cancel(force) PROVE TypeOK'
  <2>1. OutboxOK'
    BY <1>5 DEF Cancel, CancelOutbox, OutboxOK, MailRows, Mail, Comment, OutboxStatus
  <2>2. review' \in ReviewRows
    <3>1. "Cancelled" \in ReviewStatus BY DEF ReviewStatus
    <3>2. QED BY <1>5, <3>1, RowTypes DEF Cancel, RowsOK, ReviewRows
  <2>3. patch' \in [Patches -> PatchStatus]
    BY <1>5 DEF Cancel, RowsOK, PatchStatus
  <2>4. GensOK'
    <3>1. active' = 0 /\ UNCHANGED <<target, lastGen>>
      BY <1>5 DEF Cancel
    <3>2. QED BY <3>1 DEF SetOK, GensOK
  <2>5. status' \in PatchsetStatus /\ TasksOK' /\ maxId' = maxId
    BY <1>5, PatchsetNames DEF Cancel, TasksOK, tasks
  <2>6. QED BY <2>1, <2>2, <2>3, <2>4, <2>5, TypePartsNext DEF SetOK, RowsOK
<1>6. CASE Restart
  <2>1. "Pending" \in ReviewStatus BY DEF ReviewStatus
  <2>2. review' \in ReviewRows
    <3>1. ASSUME NEW i \in Ids
          PROVE  [review[i] EXCEPT !.status = "Pending"] \in Review
      BY <2>1 DEF RowsOK, ReviewRows, Review
    <3>2. review' = [i \in Ids |->
                       IF review[i].status = "In Review"
                       THEN [review[i] EXCEPT !.status = "Pending"]
                       ELSE review[i]]
      BY <1>6 DEF Restart, Interrupt
    <3>3. QED BY <3>1, <3>2 DEF RowsOK, ReviewRows
  <2>3. TasksOK'
    <3>1. {"none", "gone"} \subseteq RunStage /\ "none" \in JobStage
      BY DEF RunStage, JobStage
    <3>2. JobAt("none") \in Job
      BY <3>1, JobTypes DEF JobAt, Job
    <3>3. QED BY <1>6, <3>1, <3>2 DEF Restart, Interrupt, TasksOK, Jobs
  <2>4. GensOK'
    <3>1. active' = 0 /\ UNCHANGED <<target, lastGen>>
      BY <1>6 DEF Restart
    <3>2. QED BY <3>1 DEF SetOK, GensOK
  <2>5. status' \in PatchsetStatus /\ OutboxOK' /\ UNCHANGED <<patch, maxId>>
    BY <1>6, PatchsetNames DEF Restart, SetOK, OutboxOK, outbox
  <2>6. QED BY <2>2, <2>3, <2>4, <2>5, TypePartsNext DEF SetOK, RowsOK
<1>7. QED BY <1>1, <1>2, <1>3, <1>4, <1>5, <1>6 DEF People

(* Types: the mail worker and the forge worker.                             *)
LEMMA DeliveryType == ASSUME IInv, Delivery PROVE TypeOK'
<1> SetOK /\ RowsOK /\ OutboxOK /\ TasksOK
  BY TypeParts DEF IInv
<1>1. CASE SendComment
  BY <1>1, TypePartsNext
  DEF SendComment, SetOK, GensOK, RowsOK, OutboxOK, TasksOK, Comment, OutboxStatus,
      set, rows, tasks
<1>2. ASSUME NEW p \in Patches, SendMail(p) PROVE TypeOK'
  <2>1. mail' \in MailRows
    BY <1>2 DEF SendMail, OutboxOK, MailRows, Mail, OutboxStatus
  <2>2. QED
    BY <1>2, <2>1, TypePartsNext
    DEF SendMail, SetOK, GensOK, RowsOK, OutboxOK, TasksOK, set, rows, tasks
<1>3. QED BY <1>1, <1>2 DEF Delivery

(* A run is moved to a stage.                                               *)
LEMMA RunToType ==
  ASSUME run \in [Runs -> RunStage], NEW g \in Runs, NEW s \in RunStage, RunTo(g, s)
  PROVE  run' \in [Runs -> RunStage]
BY DEF RunTo

(* complete_patchset_review writes a status.                                *)
LEMMA CompletePatchsetType ==
  ASSUME SetOK, NEW g, NEW s \in PatchsetStatus, CompletePatchset(g, s)
  PROVE  status' \in PatchsetStatus
BY DEF CompletePatchset, SetOK

(* Types: the claim of a pending patchset.                                  *)
LEMMA ClaimType == ASSUME IInv, Claim PROVE TypeOK'
<1> SetOK /\ RowsOK /\ OutboxOK /\ TasksOK
  BY TypeParts DEF IInv
<1>1. lastGen' \in 1..MaxRuns /\ active' \in 1..MaxRuns /\ NextGen \in Runs
  <2>1. lastGen' = lastGen + 1 /\ active' = lastGen + 1 /\ lastGen < MaxRuns
    BY DEF Claim, NextGen
  <2>2. QED BY <2>1 DEF NextGen, SetOK, GensOK
<1>2. UNCHANGED target
  BY DEF Claim
<1>3. GensOK'
  BY <1>1, <1>2 DEF SetOK, GensOK
<1>4. status' \in PatchsetStatus
  BY PatchsetNames DEF Claim
<1>5. TasksOK'
  BY <1>1, RunNames, RunToType DEF Claim, TasksOK
<1>6. RowsOK' /\ OutboxOK'
  BY DEF Claim, RowsOK, OutboxOK, rows, outbox
<1>7. QED BY <1>3, <1>4, <1>5, <1>6, TypePartsNext DEF SetOK

(* Types: the steps of a run's task.                                        *)
LEMMA TaskType == ASSUME IInv, NEW g \in Runs, Task(g) PROVE TypeOK'
<1> SetOK /\ RowsOK /\ OutboxOK /\ TasksOK
  BY TypeParts DEF IInv
<1>1. CASE Start(g)
  <2>1. run' \in [Runs -> RunStage]
    BY <1>1, RunNames, RunToType DEF Start, TasksOK
  <2>2. job' \in Jobs
    <3>1. CASE UNCHANGED job
      BY <3>1 DEF TasksOK
    <3>2. ASSUME NEW out \in SUBSET Patches,
                 job' = [job EXCEPT ![g] =
                           [p \in Patches |->
                              JobAt(IF p \in out THEN "filtered" ELSE "queued")]]
          PROVE  job' \in Jobs
      <4>1. \A s \in {"filtered", "queued"} : JobAt(s) \in Job
        BY JobNames DEF JobAt, Job
      <4>2. QED BY <3>2, <4>1 DEF TasksOK, Jobs
    <3>3. QED BY <1>1, <3>1, <3>2 DEF Start
  <2>3. SetOK' /\ RowsOK' /\ OutboxOK'
    BY <1>1 DEF Start, SetOK, GensOK, RowsOK, OutboxOK, set, rows, outbox
  <2>4. QED BY <2>1, <2>2, <2>3, TypePartsNext DEF TasksOK
<1>2. CASE NoBaseline(g)
  <2>1. status' \in PatchsetStatus
    BY <1>2, CompletePatchsetType, PatchsetNames DEF NoBaseline
  <2>2. run' \in [Runs -> RunStage]
    BY <1>2, RunNames, RunToType DEF NoBaseline, TasksOK
  <2>3. GensOK' /\ RowsOK' /\ OutboxOK' /\ UNCHANGED job
    BY <1>2 DEF NoBaseline, SetOK, GensOK, RowsOK, OutboxOK, rows, outbox
  <2>4. QED BY <2>1, <2>2, <2>3, TypePartsNext DEF SetOK, TasksOK
<1>3. CASE AllEnded(g)
  <2>1. run' \in [Runs -> RunStage]
    BY <1>3, RunNames, RunToType DEF AllEnded, TasksOK
  <2>2. job' \in Jobs
    <3>1. JobAt("none") \in Job
      BY JobNames DEF JobAt, Job
    <3>2. QED BY <1>3, <3>1 DEF AllEnded, TasksOK, Jobs
  <2>3. SetOK' /\ RowsOK' /\ OutboxOK'
    BY <1>3 DEF AllEnded, SetOK, GensOK, RowsOK, OutboxOK, set, rows, outbox
  <2>4. QED BY <2>1, <2>2, <2>3, TypePartsNext DEF TasksOK
<1>4. CASE FailOrphans(g)
  <2>1. run' \in [Runs -> RunStage]
    BY <1>4, RunNames, RunToType DEF FailOrphans, TasksOK
  <2>2. review' \in ReviewRows
    <3>1. "Failed" \in ReviewStatus BY DEF ReviewStatus
    <3>2. QED BY <1>4, <3>1, RowTypes DEF FailOrphans, RowsOK, ReviewRows
  <2>3. mail' \in MailRows
    BY <1>4, MailWithoutType DEF FailOrphans, OutboxOK
  <2>4. SetOK' /\ UNCHANGED <<patch, maxId, comment, job>>
    BY <1>4 DEF FailOrphans, SetOK, GensOK, set
  <2>5. QED
    BY <2>1, <2>2, <2>3, <2>4, TypePartsNext DEF RowsOK, OutboxOK, TasksOK
<1>5. CASE Conclude(g)
  <2>1. status' \in PatchsetStatus
    BY <1>5, CompletePatchsetType, PatchsetNames DEF Conclude
  <2>2. run' \in [Runs -> RunStage]
    BY <1>5, RunNames, RunToType DEF Conclude, TasksOK
  <2>3. GensOK' /\ RowsOK' /\ OutboxOK' /\ UNCHANGED job
    BY <1>5 DEF Conclude, SetOK, GensOK, RowsOK, OutboxOK, rows, outbox
  <2>4. QED BY <2>1, <2>2, <2>3, TypePartsNext DEF SetOK, TasksOK
<1>6. CASE Post(g)
  <2>1. run' \in [Runs -> RunStage]
    BY <1>6, RunNames, RunToType DEF Post, TasksOK
  <2>2. comment' \in Comment
    <3>1. "Pending" \in OutboxStatus /\ (status = "Failed") \in BOOLEAN
      BY DEF OutboxStatus
    <3>2. [status |-> "Pending", incomplete |-> status = "Failed"] \in Comment
      BY <3>1 DEF Comment
    <3>3. QED BY <1>6, <3>2 DEF Post, OutboxOK
  <2>3. SetOK' /\ RowsOK' /\ UNCHANGED <<mail, job>>
    BY <1>6 DEF Post, SetOK, GensOK, RowsOK, set, rows
  <2>4. QED BY <2>1, <2>2, <2>3, TypePartsNext DEF OutboxOK, TasksOK
<1>7. CASE Release(g)
  <2>1. run' \in [Runs -> RunStage]
    BY <1>7, RunNames, RunToType DEF Release, TasksOK
  <2>2. GensOK'
    <3>1. active' \in {0, active} /\ UNCHANGED <<target, lastGen>>
      BY <1>7 DEF Release
    <3>2. QED BY <3>1 DEF SetOK, GensOK
  <2>3. UNCHANGED status /\ RowsOK' /\ OutboxOK' /\ UNCHANGED job
    BY <1>7 DEF Release, RowsOK, OutboxOK, rows, outbox
  <2>4. QED BY <2>1, <2>2, <2>3, TypePartsNext DEF SetOK, TasksOK
<1>8. QED BY <1>1, <1>2, <1>3, <1>4, <1>5, <1>6, <1>7 DEF Task

(* Steps that write a single job and nothing else.                         *)
JobOnly(g, p) ==
    \/ Look(g, p) \/ Inspect(g, p) \/ Judge(g, p) \/ FindOut(g, p)
    \/ JobError(g, p)

(* Types: a job moves and writes nothing.                                   *)
LEMMA JobOnlyType ==
  ASSUME IInv, NEW g \in Runs, NEW p \in Patches, JobOnly(g, p)
  PROVE  TypeOK'
<1> SetOK /\ RowsOK /\ OutboxOK /\ TasksOK
  BY TypeParts DEF IInv
<1> job \in Jobs /\ job[g] \in [Patches -> Job] /\ job[g][p] \in Job
  BY DEF TasksOK, Jobs
<1>1. SetOK' /\ RowsOK' /\ OutboxOK' /\ UNCHANGED run
  BY DEF JobOnly, Look, Inspect, Judge, FindOut, JobError,
         SetOK, GensOK, RowsOK, OutboxOK, set, rows, outbox
<1>2. job' \in Jobs
  <2>1. CASE Look(g, p)
    BY <2>1, JobTypes, JobNames DEF Look
  <2>2. CASE Inspect(g, p)
    <3>1. ASSUME AtLeast(Successes(p), target)
          PROVE  [JobAt("notifying") EXCEPT !.id = Newest(Successes(p))] \in Job
      <4>1. 1 \in 1..target
        BY DEF SetOK, GensOK
      <4>2. Successes(p) # {} /\ Successes(p) \in SUBSET Ids
        BY <3>1, <4>1 DEF AtLeast, Successes
      <4>3. Newest(Successes(p)) \in Ids
        BY <4>2, NewestIn
      <4>4. JobAt("notifying") \in Job
        BY JobTypes, JobNames
      <4>5. QED BY <4>3, <4>4 DEF Job
    <3>2. CASE ~AtLeast(Successes(p), target)
      <4>1. JobTo(g, p, "closeFailed") \/ JobTo(g, p, "claiming")
        BY <2>2, <3>2 DEF Inspect
      <4>2. QED BY <4>1, JobTypes, JobNames
    <3>3. CASE AtLeast(Successes(p), target)
      <4>1. job' = [job EXCEPT ![g][p] =
                      [JobAt("notifying") EXCEPT !.id = Newest(Successes(p))]]
        BY <2>2, <3>3 DEF Inspect
      <4>2. QED BY <3>1, <3>3, <4>1 DEF Jobs
    <3>4. QED BY <3>2, <3>3
  <2>3. CASE Judge(g, p)
    <3>1. ASSUME RetryLeft(g, p),
                 job' = [job EXCEPT ![g][p].at = "retrying",
                                    ![g][p].retries = @ + 1]
          PROVE  job' \in Jobs
      <4>1. job[g][p].retries + 1 \in 0..MaxRetries
        BY <3>1 DEF RetryLeft, Job
      <4>2. [[job[g][p] EXCEPT !.at = "retrying"]
               EXCEPT !.retries = job[g][p].retries + 1] \in Job
        BY <4>1, JobNames DEF Job
      <4>3. job' = [job EXCEPT ![g] = [job[g] EXCEPT ![p] =
                      [[job[g][p] EXCEPT !.at = "retrying"]
                         EXCEPT !.retries = job[g][p].retries + 1]]]
        BY <3>1 DEF Jobs, Job
      <4>4. QED BY <4>2, <4>3 DEF Jobs
    <3>2. QED BY <2>3, <3>1, JobTypes, JobNames DEF Judge
  <2>4. CASE FindOut(g, p)
    BY <2>4, JobTypes, JobNames DEF FindOut
  <2>5. CASE JobError(g, p)
    BY <2>5, JobTypes, JobNames DEF JobError
  <2>6. QED BY <2>1, <2>2, <2>3, <2>4, <2>5 DEF JobOnly
<1>3. QED BY <1>1, <1>2, TypePartsNext DEF TasksOK

(* update_patch_status writes one patch.                                   *)
LEMMA SetPatchType ==
  ASSUME patch \in [Patches -> PatchStatus], NEW g, NEW p \in Patches,
         NEW s \in PatchStatus, SetPatch(g, p, s)
  PROVE  patch' \in [Patches -> PatchStatus]
BY DEF SetPatch

(* Steps of a job that write its patch.                                    *)
JobAndPatch(g, p) ==
    Filter(g, p) \/ ToolEnds(g, p) \/ Close(g, p) \/ AbortPatch(g, p)

(* Types: a job writes the status of its patch.                             *)
LEMMA JobAndPatchType ==
  ASSUME IInv, NEW g \in Runs, NEW p \in Patches, JobAndPatch(g, p)
  PROVE  TypeOK'
<1> SetOK /\ RowsOK /\ OutboxOK /\ TasksOK
  BY TypeParts DEF IInv
<1> job \in Jobs /\ patch \in [Patches -> PatchStatus]
  BY DEF TasksOK, RowsOK
<1>1. /\ SetOK' /\ OutboxOK' /\ UNCHANGED <<run, review, maxId>>
  BY DEF JobAndPatch, Filter, ToolEnds, Close, AbortPatch,
         SetOK, GensOK, OutboxOK, set, outbox
<1>2. {"Skipped", "Reviewed", "Failed", "Cancelled", "applied", "error"}
        \subseteq PatchStatus
  BY DEF PatchStatus
<1>3. job' \in Jobs
  BY JobTypes, JobNames DEF JobAndPatch, Filter, ToolEnds, Close, AbortPatch
<1>4. patch' \in [Patches -> PatchStatus]
  BY <1>2, SetPatchType DEF JobAndPatch, Filter, ToolEnds, Close, AbortPatch
<1>5. QED BY <1>1, <1>3, <1>4, TypePartsNext DEF RowsOK, TasksOK

(* Steps of a job that write review rows or the mail of its patch.         *)
JobAndRows(g, p) ==
    \/ ClaimReview(g, p) \/ Retry(g, p) \/ SaveFindings(g, p)
    \/ Complete(g, p) \/ Notify(g, p) \/ Abort(g, p) \/ JobPanic(g, p)

(* Types: a job writes review rows or mail.                                 *)
LEMMA JobAndRowsType ==
  ASSUME IInv, NEW g \in Runs, NEW p \in Patches, JobAndRows(g, p)
  PROVE  TypeOK'
<1> SetOK /\ RowsOK /\ OutboxOK /\ TasksOK /\ FillingOwnRow
  BY TypeParts DEF IInv
<1> /\ job \in Jobs /\ job[g] \in [Patches -> Job] /\ job[g][p] \in Job
    /\ patch \in [Patches -> PatchStatus] /\ review \in ReviewRows
    /\ mail \in MailRows
  BY DEF TasksOK, Jobs, RowsOK, OutboxOK
<1>1. SetOK' /\ UNCHANGED <<maxId, comment, run>>
  BY DEF JobAndRows, ClaimReview, Retry, SaveFindings, Complete, Notify, Abort,
         JobPanic, SetOK, GensOK, set, rows, outbox
<1>2. {"Reviewed", "Skipped", "Failed", "Cancelled"} \subseteq ReviewStatus
  BY DEF ReviewStatus
<1>3. \A i \in Ids : Begin(g, p, i) => job' \in Jobs
  <2> SUFFICES ASSUME NEW i \in Ids, Begin(g, p, i) PROVE job' \in Jobs
    OBVIOUS
  <2>1. [[job[g][p] EXCEPT !.at = "running"] EXCEPT !.id = i] \in Job
    BY JobNames DEF Job
  <2>2. job' = [job EXCEPT ![g] = [job[g] EXCEPT ![p] =
                  [[job[g][p] EXCEPT !.at = "running"] EXCEPT !.id = i]]]
    BY DEF Begin, Jobs, Job
  <2>3. QED BY <2>1, <2>2 DEF Jobs
<1>4. job' \in Jobs /\ review' \in ReviewRows /\ mail' \in MailRows
      /\ patch' \in [Patches -> PatchStatus]
  <2>1. CASE ClaimReview(g, p)
    <3>1. PendingOf(p) \in SUBSET Ids
      BY DEF PendingOf
    <3>2. PendingOf(p) # {} => Oldest(PendingOf(p)) \in Ids
      BY <3>1, OldestIn
    <3>3. PICK i \in Ids, r \in Review :
            Begin(g, p, i) /\ review' = [review EXCEPT ![i] = r]
      BY <2>1, <3>2, RowTypes DEF ClaimReview, ReviewRows
    <3>4. mail' \in MailRows
      BY <2>1, MailWithoutType DEF ClaimReview
    <3>5. QED BY <2>1, <3>3, <3>4, <1>3 DEF ClaimReview, ReviewRows
  <2>2. CASE Retry(g, p)
    <3>1. review' \in ReviewRows
      BY <2>2, RowTypes DEF Retry, ReviewRows
    <3>2. mail' \in MailRows
      BY <2>2, MailWithoutType DEF Retry
    <3>3. QED BY <2>2, <3>1, <3>2, JobTypes, JobNames DEF Retry
  <2>3. CASE SaveFindings(g, p)
    <3> DEFINE i == job[g][p].id
    <3>1. i \in Ids /\ review[i].findings = 0 /\ review[i] \in Review
      BY <2>3 DEF SaveFindings, FillingOwnRow, Filling, OwnRow, ReviewRows
    <3>2. [review[i] EXCEPT !.findings = 1] \in Review
      BY <3>1 DEF Review
    <3>3. review' = [review EXCEPT ![i] = [review[i] EXCEPT !.findings = 1]]
      BY <2>3, <3>1 DEF SaveFindings
    <3>4. QED
      BY <2>3, <3>2, <3>3, JobTypes, JobNames
      DEF SaveFindings, ReviewRows, outbox
  <2>4. CASE Complete(g, p)
    <3> DEFINE i == job[g][p].id
    <3>1. ASSUME i \in Ids
          PROVE  /\ \A s \in ReviewStatus, infra \in BOOLEAN :
                      [[review[i] EXCEPT !.status = s] EXCEPT !.infra = infra]
                        \in Review
                 /\ \A s \in ReviewStatus :
                      [review[i] EXCEPT !.status = s] \in Review
      BY <3>1 DEF ReviewRows, Review
    <3>2. \A s \in ReviewStatus, infra \in BOOLEAN :
            /\ review' = [review EXCEPT ![i].status = s, ![i].infra = infra]
            /\ i \in Ids
            => review' \in ReviewRows
      <4> SUFFICES ASSUME NEW s \in ReviewStatus, NEW infra \in BOOLEAN, i \in Ids,
                          review' = [review EXCEPT ![i].status = s,
                                                   ![i].infra = infra]
                   PROVE  review' \in ReviewRows
        OBVIOUS
      <4>1. review' = [review EXCEPT ![i] =
                         [[review[i] EXCEPT !.status = s] EXCEPT !.infra = infra]]
        BY DEF ReviewRows, Review
      <4>2. [[review[i] EXCEPT !.status = s] EXCEPT !.infra = infra] \in Review
        BY <3>1
      <4>3. QED BY <4>1, <4>2 DEF ReviewRows
    <3>3. i \in Ids
      BY <2>4 DEF Complete, FillingOwnRow, Filling, OwnRow
    <3>4. review' \in ReviewRows
      <4>1. {"Reviewed", "Skipped", "Failed"} \subseteq ReviewStatus
        BY DEF ReviewStatus
      <4>2. CASE review' = [review EXCEPT ![i].status = "Skipped"]
        BY <3>1, <3>3, <4>1, <4>2 DEF ReviewRows
      <4>3. CASE \E s \in {"Reviewed", "Failed"}, infra \in BOOLEAN :
                   review' = [review EXCEPT ![i].status = s, ![i].infra = infra]
        BY <3>2, <3>3, <4>1, <4>3
      <4>4. \/ review' = [review EXCEPT ![i].status = "Skipped"]
            \/ review' = [review EXCEPT ![i].status = "Reviewed", ![i].infra = FALSE]
            \/ \E infra \in BOOLEAN :
                 review' = [review EXCEPT ![i].status = "Failed", ![i].infra = infra]
        BY <2>4 DEF Complete
      <4>5. QED BY <4>2, <4>3, <4>4
    <3>5. \/ JobTo(g, p, "notifying") \/ JobTo(g, p, "closeSkipped")
          \/ JobTo(g, p, "closeFailed")
      BY <2>4 DEF Complete
    <3>6. job' \in Jobs
      BY <3>5, JobTypes, JobNames
    <3>7. QED BY <2>4, <3>4, <3>6 DEF Complete, outbox
  <2>5. CASE Notify(g, p)
    <3>1. [status |-> "Pending", review |-> job[g][p].id] \in Mail
      BY DEF Mail, Job, OutboxStatus
    <3>2. mail' \in MailRows
      BY <2>5, <3>1 DEF Notify, MailRows
    <3>3. QED BY <2>5, <3>2, JobTypes, JobNames DEF Notify, rows
  <2>6. CASE Abort(g, p)
    <3>1. review' \in ReviewRows
      BY <2>6, <1>2, RowTypes DEF Abort, ReviewRows
    <3>2. mail' \in MailRows
      BY <2>6, MailWithoutType DEF Abort
    <3>3. QED BY <2>6, <3>1, <3>2, JobTypes, JobNames DEF Abort
  <2>7. CASE JobPanic(g, p)
    <3>1. {"Reviewed", "Failed"} \subseteq PatchStatus
      BY DEF PatchStatus
    <3>2. review' \in ReviewRows
      <4>1. \A i \in Ids : \/ review'[i] = review[i]
                           \/ review'[i] = EndedAs(review[i], "Failed")
        BY <2>7 DEF JobPanic, ReviewRows
      <4>2. review' = [i \in Ids |-> review'[i]]
        BY <2>7 DEF JobPanic, ReviewRows
      <4>3. ASSUME NEW i \in Ids PROVE review'[i] \in Review
        <5>1. review[i] \in Review /\ "Failed" \in ReviewStatus
          BY DEF ReviewRows, ReviewStatus
        <5>2. EndedAs(review[i], "Failed") \in Review
          BY <5>1, RowTypes
        <5>3. QED BY <4>1, <5>1, <5>2
      <4>4. QED BY <4>2, <4>3 DEF ReviewRows
    <3>3. mail' \in MailRows
      BY <2>7, MailWithoutType DEF JobPanic
    <3>4. patch' \in [Patches -> PatchStatus]
      BY <2>7, <3>1, SetPatchType DEF JobPanic
    <3>5. job' \in Jobs
      BY <2>7, JobTypes, JobNames DEF JobPanic
    <3>6. QED BY <3>2, <3>3, <3>4, <3>5
  <2>8. QED BY <2>1, <2>2, <2>3, <2>4, <2>5, <2>6, <2>7 DEF JobAndRows
<1>5. QED BY <1>1, <1>4, TypePartsNext DEF RowsOK, OutboxOK, TasksOK

(* A panic of the task, or a write of it that fails.                       *)
LEMMA RunFaultType ==
  ASSUME IInv, NEW g \in Runs, Panic(g) \/ RunError(g)
  PROVE  TypeOK'
<1> SetOK /\ RowsOK /\ OutboxOK /\ TasksOK
  BY TypeParts DEF IInv
<1>1. SetOK' /\ RowsOK' /\ OutboxOK'
  BY DEF Panic, RunError, SetOK, GensOK, RowsOK, OutboxOK, set, rows, outbox
<1>2. run' \in [Runs -> RunStage]
  BY RunNames, RunToType DEF Panic, RunError, TasksOK
<1>3. job' \in Jobs
  <2>1. JobAt("none") \in Job
    BY JobNames DEF JobAt, Job
  <2>2. QED BY <2>1 DEF Panic, RunError, TasksOK, Jobs
<1>4. QED BY <1>1, <1>2, <1>3, TypePartsNext DEF TasksOK

(* Next, by the groups of actions of the lemmas.                           *)
LEMMA NextGroups ==
  ASSUME Next
  PROVE  \/ People \/ Restart \/ Delivery \/ Claim
         \/ \E g \in Runs : \/ Task(g) \/ Panic(g) \/ RunError(g)
                           \/ \E p \in Patches : \/ JobOnly(g, p)
                                                \/ JobAndPatch(g, p)
                                                \/ JobAndRows(g, p)
BY DEF Next, Work, Faults, JobOnly, JobAndPatch, JobAndRows

(* Every step keeps the types.                                              *)
LEMMA NextType == ASSUME IInv, Next PROVE TypeOK'
BY NextGroups, PeopleType, DeliveryType, ClaimType, TaskType, RunFaultType,
   JobOnlyType, JobAndPatchType, JobAndRowsType

-----------------------------------------------------------------------------
(* Claims: only Claim opens one, for a run that was never there.           *)

NothingClaimed ==
    /\ lastGen' = lastGen /\ active' \in {0, active}
    /\ status' = "In Review" => status = "In Review"
    /\ \A h \in Runs : run'[h] # "none" => run[h] # "none"

(* A run moves to a stage that is not "none", and the others stay.         *)
LEMMA RunToKnown ==
  ASSUME TypeOK, NEW g \in Runs, NEW s, RunTo(g, s), run[g] # "none"
  PROVE  \A h \in Runs : run'[h] # "none" => run[h] # "none"
BY DEF RunTo, TypeOK

(* Every other step hands out no generation and starts no run.              *)
LEMMA StepClaims ==
  ASSUME TypeOK, Next PROVE Claim \/ NothingClaimed
<1>1. CASE People
  <2>1. lastGen' = lastGen /\ UNCHANGED run /\ active' \in {0, active}
    BY <1>1 DEF People, Ingest, Supersede, Rerun, Refetch, Cancel,
                ResetReviewState, set, tasks
  <2>2. status' = "In Review" => status = "In Review"
    BY <1>1 DEF People, Ingest, Supersede, Rerun, Refetch, Cancel, set
  <2>3. QED BY <2>1, <2>2 DEF NothingClaimed
<1>2. CASE Restart
  BY <1>2 DEF Restart, Interrupt, NothingClaimed
<1>3. CASE Delivery
  BY <1>3 DEF Delivery, SendMail, SendComment, NothingClaimed, set, tasks
<1>4. CASE Claim
  BY <1>4
<1>5. ASSUME NEW g \in Runs, Task(g) PROVE NothingClaimed
  <2>1. lastGen' = lastGen /\ active' \in {0, active}
    BY <1>5 DEF Task, Start, NoBaseline, AllEnded, FailOrphans, Conclude, Post,
                Release, set
  <2>2. status' = "In Review" => status = "In Review"
    BY <1>5 DEF Task, Start, NoBaseline, AllEnded, FailOrphans, Conclude, Post,
                Release, CompletePatchset, ClaimActive, set
  <2>3. run[g] # "none" /\ \E s \in RunStage : RunTo(g, s)
    BY <1>5, RunNames
    DEF Task, Start, NoBaseline, AllEnded, FailOrphans, Conclude, Post, Release
  <2>4. QED BY <2>1, <2>2, <2>3, RunToKnown DEF NothingClaimed
<1>6. ASSUME NEW g \in Runs, Panic(g) \/ RunError(g) PROVE NothingClaimed
  <2>1. UNCHANGED <<status, lastGen, active>>
    BY <1>6 DEF Panic, RunError, set
  <2>2. run[g] # "none" /\ \E s \in RunStage : RunTo(g, s)
    BY <1>6, RunNames DEF Panic, RunError
  <2>3. QED BY <2>1, <2>2, RunToKnown DEF NothingClaimed
<1>7. ASSUME NEW g \in Runs, NEW p \in Patches,
             JobOnly(g, p) \/ JobAndPatch(g, p) \/ JobAndRows(g, p)
      PROVE  NothingClaimed
  <2>1. UNCHANGED <<set, run>>
    BY <1>7 DEF JobOnly, Look, Inspect, Judge, FindOut, JobError,
       JobAndPatch, Filter, ToolEnds, Close, AbortPatch, JobAndRows,
       ClaimReview, Retry, SaveFindings, Complete, Notify, Abort, JobPanic
  <2>2. QED BY <2>1 DEF set, NothingClaimed
<1>8. QED BY <1>1, <1>2, <1>3, <1>4, <1>5, <1>6, <1>7, NextGroups

(* A run that lost its claim, or that is known and has none, stays without. *)
LEMMA LostStaysLost ==
  ASSUME TypeOK, ClaimsInOrder, Next, NEW g \in Runs,
         run[g] # "none", ~ClaimActive(g)
  PROVE  ~ClaimActive(g)'
<1>1. CASE Claim
  <2>1. active' = lastGen + 1 /\ g <= lastGen
    BY <1>1 DEF Claim, NextGen, ClaimsInOrder
  <2>2. g \in Int /\ lastGen \in Int
    BY DEF TypeOK
  <2>3. active' # g
    BY <2>1, <2>2
  <2>4. QED BY <2>3 DEF ClaimActive
<1>2. CASE NothingClaimed
  <2>1. g # 0
    OBVIOUS
  <2>2. QED BY <1>2, <2>1 DEF NothingClaimed, ClaimActive
<1>3. QED BY <1>1, <1>2, StepClaims

(* The number of reviews asked for grows only past a status that was        *)
(* reached.                                                                *)
LEMMA TargetInOrder ==
  ASSUME TypeOK, ClaimsInOrder, Next
  PROVE  /\ target' <= lastGen' + 1
         /\ status' \in {"In Review", "Reviewed"} => target' <= lastGen'
<1> DEFINE Counted == status \in {"In Review", "Reviewed"}
<1> HIDE DEF Counted
<1>1. /\ target \in Int /\ lastGen \in Int /\ target <= lastGen + 1
      /\ Counted => target <= lastGen
  <2>1. target \in Int /\ lastGen \in Int
    BY DEF TypeOK
  <2>2. QED BY <2>1 DEF ClaimsInOrder, Counted
<1>2. CASE Claim
  <2>1. target' = target /\ lastGen' = lastGen + 1
    BY <1>2 DEF Claim, NextGen
  <2>2. target' <= lastGen' /\ target' <= lastGen' + 1
    BY <2>1, <1>1
  <2>3. QED BY <2>2
<1>3. CASE Rerun
  <2>1. lastGen' = lastGen /\ status' = "Pending"
        /\ (target' = target \/ (target' = target + 1 /\ Counted))
    BY <1>3 DEF Rerun, Counted
  <2>2. target' <= lastGen' + 1
    BY <2>1, <1>1
  <2>3. QED BY <2>1, <2>2
<1>4. CASE ~Claim /\ ~Rerun
  <2>1. target' = target
    <3>1. CASE People \/ Restart \/ Delivery
      BY <1>4, <3>1 DEF People, Ingest, Supersede, Refetch, Cancel, Restart,
         Delivery, SendMail, SendComment, set
    <3>2. ASSUME NEW g \in Runs, Task(g) \/ Panic(g) \/ RunError(g)
          PROVE  target' = target
      BY <3>2 DEF Task, Start, NoBaseline, AllEnded, FailOrphans, Conclude,
         Post, Release, Panic, RunError, set
    <3>3. ASSUME NEW g \in Runs, NEW p \in Patches,
                 JobOnly(g, p) \/ JobAndPatch(g, p) \/ JobAndRows(g, p)
          PROVE  target' = target
      BY <3>3 DEF JobOnly, Look, Inspect, Judge, FindOut, JobError,
         JobAndPatch, Filter, ToolEnds, Close, AbortPatch, JobAndRows,
         ClaimReview, Retry, SaveFindings, Complete, Notify, Abort, JobPanic, set
    <3>4. QED BY <1>4, <3>1, <3>2, <3>3, NextGroups
  <2>2. NothingClaimed
    BY <1>4, StepClaims
  <2>3. lastGen' = lastGen
    BY <2>2 DEF NothingClaimed
  <2>4. Counted' => Counted
    <3>1. CASE People \/ Restart \/ Delivery
      BY <1>4, <3>1 DEF People, Ingest, Supersede, Refetch, Cancel, Restart,
         Delivery, SendMail, SendComment, set, Counted
    <3>2. ASSUME NEW g \in Runs, Task(g) \/ Panic(g) \/ RunError(g)
          PROVE  Counted' => Counted
      BY <3>2 DEF Task, Start, NoBaseline, AllEnded, FailOrphans, Conclude,
         Post, Release, Panic, RunError, CompletePatchset, ClaimActive, set,
         Counted
    <3>3. ASSUME NEW g \in Runs, NEW p \in Patches,
                 JobOnly(g, p) \/ JobAndPatch(g, p) \/ JobAndRows(g, p)
          PROVE  Counted' => Counted
      BY <3>3 DEF JobOnly, Look, Inspect, Judge, FindOut, JobError,
         JobAndPatch, Filter, ToolEnds, Close, AbortPatch, JobAndRows,
         ClaimReview, Retry, SaveFindings, Complete, Notify, Abort, JobPanic,
         set, Counted
    <3>4. QED BY <1>4, <3>1, <3>2, <3>3, NextGroups
  <2>5. target' <= lastGen' + 1 /\ (Counted' => target' <= lastGen')
    BY <2>1, <2>3, <2>4, <1>1
  <2>6. QED BY <2>5 DEF Counted
<1>5. QED BY <1>2, <1>3, <1>4

(* Generations stay in order.                                               *)
LEMMA NextClaims == ASSUME IInv, Next PROVE ClaimsInOrder'
<1> TypeOK /\ ClaimsInOrder
  BY DEF IInv
<1> active \in Int /\ lastGen \in Nat
  BY DEF TypeOK
<1>1. active' <= lastGen'
  <2>1. CASE Claim
    <3>1. active' = lastGen + 1 /\ lastGen' = lastGen + 1
      BY <2>1 DEF Claim, NextGen
    <3>2. QED BY <3>1
  <2>2. CASE NothingClaimed
    <3>1. lastGen' = lastGen /\ active' \in {0, active} /\ active <= lastGen
      BY <2>2 DEF NothingClaimed, ClaimsInOrder
    <3>2. QED BY <3>1
  <2>3. QED BY <2>1, <2>2, StepClaims
<1>2. \A g \in Runs : run'[g] # "none" => g <= lastGen'
  <2> SUFFICES ASSUME NEW g \in Runs, run'[g] # "none" PROVE g <= lastGen'
    OBVIOUS
  <2>1. CASE Claim
    <3>1. lastGen' = lastGen + 1 /\ (g = lastGen + 1 \/ run[g] # "none")
      BY <2>1 DEF Claim, NextGen, RunTo, TypeOK
    <3>2. g = lastGen + 1 \/ g <= lastGen
      BY <3>1 DEF ClaimsInOrder
    <3>3. QED BY <3>1, <3>2
  <2>2. CASE NothingClaimed
    BY <2>2 DEF NothingClaimed, ClaimsInOrder
  <2>3. QED BY <2>1, <2>2, StepClaims
<1>3. QED BY <1>1, <1>2, TargetInOrder DEF ClaimsInOrder

(* A run posts only after Conclude, when its claim is gone or its patchset *)
(* is In Review no longer.                                                 *)
LEMMA NextPosts == ASSUME IInv, Next PROVE PostsWhenDecided'
<1> TypeOK /\ ClaimsInOrder /\ PostsWhenDecided
  BY DEF IInv
<1> SUFFICES ASSUME NEW g \in Runs, run'[g] = "posting"
             PROVE  ~ClaimActive(g)'
  BY DEF PostsWhenDecided
<1>1. CASE run[g] = "posting"
  <2>1. ~ClaimActive(g)
    BY <1>1 DEF PostsWhenDecided
  <2>2. QED BY <1>1, <2>1, LostStaysLost
<1>2. CASE run[g] # "posting"
  <2>1. Conclude(g)
    <3>1. \A h \in Runs : \A s : RunTo(h, s) => run'[g] = run[g] \/ (h = g /\ s = run'[g])
      BY DEF RunTo, TypeOK
    <3>2. CASE People \/ Restart \/ Delivery
      BY <1>2, <3>2 DEF People, Ingest, Supersede, Rerun, Refetch, Cancel,
         Restart, Interrupt, Delivery, SendMail, SendComment, tasks
    <3>3. CASE Claim
      BY <1>2, <3>1, <3>3 DEF Claim, NextGen, RunTo, TypeOK
    <3>4. ASSUME NEW h \in Runs, Task(h) \/ Panic(h) \/ RunError(h)
          PROVE  Conclude(g)
      <4>1. CASE AllEnded(h)
        <5>1. \E s : RunTo(h, s) /\ s # "posting"
          BY <4>1 DEF AllEnded
        <5>2. QED BY <1>2, <3>1, <5>1
      <4>2. CASE Start(h) \/ Panic(h) \/ RunError(h)
        BY <1>2, <3>1, <4>2 DEF Start, Panic, RunError
      <4>3. CASE NoBaseline(h) \/ FailOrphans(h) \/ Post(h) \/ Release(h)
        <5>1. \/ RunTo(h, "releasing") \/ RunTo(h, "failing")
              \/ RunTo(h, "crashed") \/ RunTo(h, "gone")
          BY <4>3 DEF NoBaseline, FailOrphans, Post, Release
        <5>2. QED BY <1>2, <3>1, <5>1
      <4>4. CASE Conclude(h)
        BY <1>2, <3>1, <4>4 DEF Conclude
      <4>5. QED BY <3>4, <4>1, <4>2, <4>3, <4>4 DEF Task
    <3>5. ASSUME NEW h \in Runs, NEW p \in Patches,
                 JobOnly(h, p) \/ JobAndPatch(h, p) \/ JobAndRows(h, p)
          PROVE  UNCHANGED run
      BY <3>5 DEF JobOnly, Look, Inspect, Judge, FindOut, JobError,
         JobAndPatch, Filter, ToolEnds, Close, AbortPatch, JobAndRows,
         ClaimReview, Retry, SaveFindings, Complete, Notify, Abort, JobPanic
    <3>6. QED BY <1>2, <3>2, <3>3, <3>4, <3>5, NextGroups
  <2>2. ClaimActive(g) => status' # "In Review"
    BY <2>1 DEF Conclude, CompletePatchset
  <2>3. run[g] # "none"
    BY <2>1 DEF Conclude
  <2>4. QED BY <2>2, <2>3, LostStaysLost DEF ClaimActive
<1>3. QED BY <1>1, <1>2

-----------------------------------------------------------------------------
(* Outboxes and cancellation.                                              *)

(* Jobs write neither the patchset's row nor its claim nor the comment.    *)
LEMMA JobFrame ==
  ASSUME NEW g \in Runs, NEW p \in Patches,
         JobOnly(g, p) \/ JobAndPatch(g, p) \/ JobAndRows(g, p)
  PROVE  /\ UNCHANGED <<status, target, active, lastGen, maxId, comment, run>>
         /\ ~JobAndRows(g, p) => UNCHANGED <<review, mail>>
<1>1. UNCHANGED <<set, run>>
  BY DEF JobOnly, Look, Inspect, Judge, FindOut, JobError, JobAndPatch, Filter,
     ToolEnds, Close, AbortPatch, JobAndRows, ClaimReview, Retry, SaveFindings,
     Complete, Notify, Abort, JobPanic
<1>2. UNCHANGED <<maxId, comment>>
  BY DEF JobOnly, Look, Inspect, Judge, FindOut, JobError, JobAndPatch, Filter,
     ToolEnds, Close, AbortPatch, JobAndRows, ClaimReview, Retry, SaveFindings,
     Complete, Notify, Abort, JobPanic, rows, outbox
<1>3. ~JobAndRows(g, p) => UNCHANGED <<review, mail>>
  BY DEF JobOnly, Look, Inspect, Judge, FindOut, JobError, JobAndPatch, Filter,
     ToolEnds, Close, AbortPatch, rows, outbox
<1>4. QED BY <1>1, <1>2, <1>3 DEF set

(* A waiting comment stays the patchset's outcome, or reports that a review *)
(* was incomplete while the series is open again.                           *)
LEMMA NextComment == ASSUME IInv, Next PROVE CommentIsCurrent'
<1> TypeOK /\ CommentIsCurrent /\ PostsWhenDecided
  BY DEF IInv
<1> SUFFICES ASSUME comment'.status = "Pending"
             PROVE  IF comment'.incomplete
                    THEN status' \notin {"Fetching", "Cancelled"}
                    ELSE status' = "Reviewed"
  BY DEF CommentIsCurrent
<1>1. comment.status = "Pending" =>
         IF comment.incomplete THEN status \notin {"Fetching", "Cancelled"}
                               ELSE status = "Reviewed"
  BY DEF CommentIsCurrent
<1>2. CASE UNCHANGED <<status, comment>>
  BY <1>1, <1>2
<1>3. CASE People
  <2>1. CASE Ingest
    BY <1>1, <2>1 DEF Ingest, outbox
  <2>2. CASE Supersede \/ \E force \in BOOLEAN : Cancel(force)
    <3>1. CancelOutbox
      BY <2>2 DEF Supersede, Cancel
    <3>2. QED BY <3>1 DEF CancelOutbox, Unsent, TypeOK, Comment
  <2>3. CASE Rerun \/ Refetch
    <3>1. ResetReviewState
      BY <2>3 DEF Rerun, Refetch
    <3>2. QED BY <3>1 DEF ResetReviewState, Unsent, NoComment
  <2>4. QED BY <1>3, <2>1, <2>2, <2>3 DEF People
<1>4. CASE Restart
  BY <1>1, <1>4 DEF Restart, outbox
<1>5. CASE Delivery
  <2>1. CASE SendComment
    BY <2>1 DEF SendComment, Unsent, TypeOK, Comment
  <2>2. CASE \E p \in Patches : SendMail(p)
    BY <1>2, <2>2 DEF SendMail, set
  <2>3. QED BY <1>5, <2>1, <2>2 DEF Delivery
<1>6. CASE Claim
  BY <1>1, <1>6 DEF Claim, outbox
<1>7. ASSUME NEW g \in Runs, Task(g)
      PROVE  IF comment'.incomplete
                    THEN status' \notin {"Fetching", "Cancelled"}
                    ELSE status' = "Reviewed"
  <2>1. CASE Start(g) \/ AllEnded(g) \/ FailOrphans(g) \/ Release(g)
    BY <1>2, <2>1 DEF Start, AllEnded, FailOrphans, Release, set, outbox
  <2>2. CASE NoBaseline(g) \/ Conclude(g)
    <3>1. /\ UNCHANGED comment
          /\ \/ status' = status
             \/ /\ status = "In Review"
                /\ status' \in {"Reviewed", "Failed", "Failed To Apply"}
      BY <2>2 DEF NoBaseline, Conclude, CompletePatchset, ClaimActive, outbox
    <3>2. QED BY <1>1, <3>1
  <2>3. CASE Post(g)
    <3>1. CASE UNCHANGED comment
      BY <1>2, <2>3, <3>1 DEF Post, set
    <3>2. CASE comment' # comment
      <4>1. /\ comment' = [status |-> "Pending", incomplete |-> status = "Failed"]
            /\ ClaimActiveForOutbox(g) /\ status' = status /\ run[g] = "posting"
        BY <2>3, <3>2 DEF Post, set
      <4>2. status \in {"Reviewed", "Failed"}
        BY <4>1 DEF ClaimActiveForOutbox, PostsWhenDecided, ClaimActive
      <4>3. comment'.incomplete = (status = "Failed")
        BY <4>1
      <4>4. QED BY <4>1, <4>2, <4>3
    <3>3. QED BY <3>1, <3>2
  <2>4. QED BY <1>7, <2>1, <2>2, <2>3 DEF Task
<1>8. ASSUME NEW g \in Runs, Panic(g) \/ RunError(g)
      PROVE  UNCHANGED <<status, comment>>
  BY <1>8 DEF Panic, RunError, set, outbox
<1>9. QED
  BY <1>2, <1>3, <1>4, <1>5, <1>6, <1>7, <1>8, JobFrame, NextGroups

(* MailRows are only ever taken out with the artifacts of a review.           *)
LEMMA MailWithoutAdds ==
  ASSUME NEW S, NEW p \in Patches
  PROVE  MailWithout(S)[p] \in {mail[p], NoMail}
BY DEF MailWithout

(* A cancelled patchset stays quiet.                                        *)
LEMMA NextQuiet == ASSUME IInv, Next PROVE CancelledIsQuiet'
<1> TypeOK /\ CancelledIsQuiet
  BY DEF IInv
<1> SUFFICES ASSUME status' = "Cancelled"
             PROVE  /\ \A i \in Ids : review'[i].status \notin {"Pending", "In Review"}
                    /\ \A p \in Patches : mail'[p].status # "Pending"
                    /\ comment'.status # "Pending"
  BY DEF CancelledIsQuiet
<1>0. comment'.status # "Pending"
  BY NextComment DEF CommentIsCurrent
<1> DEFINE Quiet == /\ \A i \in Ids : review[i].status \notin {"Pending", "In Review"}
                    /\ \A p \in Patches : mail[p].status # "Pending"
<1> HIDE DEF Quiet
<1>q. status = "Cancelled" => Quiet
  BY DEF CancelledIsQuiet, Quiet
<1>1. CASE People
  <2>1. CASE Ingest
    BY <2>1 DEF Ingest
  <2>2. CASE Supersede
    <3>1. status = "Cancelled" /\ UNCHANGED review /\ CancelOutbox
      BY <2>2 DEF Supersede, set, rows
    <3>2. \A p \in Patches : mail'[p].status # "Pending"
      BY <3>1 DEF CancelOutbox, Unsent, TypeOK, Mail
    <3>3. QED BY <3>1, <3>2, <1>q, <1>0 DEF Quiet
  <2>3. CASE Rerun \/ Refetch
    BY <2>3 DEF Rerun, Refetch
  <2>4. ASSUME NEW force \in BOOLEAN, Cancel(force)
        PROVE  Quiet'
    <3>1. \A p \in Patches : mail'[p].status # "Pending"
      BY <2>4 DEF Cancel, CancelOutbox, Unsent, TypeOK, Mail
    <3>2. \A i \in Ids : review'[i].status \notin {"Pending", "In Review"}
      BY <2>4 DEF Cancel, Unended, EndedAs, TypeOK, Review
    <3>3. QED BY <3>1, <3>2 DEF Quiet
  <2>5. QED BY <1>1, <2>1, <2>2, <2>3, <2>4, <1>0 DEF People, Quiet
<1>2. CASE Restart
  <2>1. status = "Cancelled" /\ UNCHANGED mail
    BY <1>2 DEF Restart, outbox
  <2>2. \A i \in Ids : review'[i] = review[i]
    BY <1>2, <2>1, <1>q DEF Restart, Interrupt, Quiet
  <2>3. QED BY <2>1, <2>2, <1>q, <1>0 DEF Quiet
<1>3. CASE Delivery
  <2>1. status = "Cancelled" /\ UNCHANGED review
    BY <1>3 DEF Delivery, SendComment, SendMail, set, rows
  <2>2. \A p \in Patches : mail'[p].status # "Pending"
    <3>1. CASE SendComment
      BY <3>1, <1>q, <2>1 DEF SendComment, Quiet
    <3>2. ASSUME NEW q \in Patches, SendMail(q), NEW p \in Patches
          PROVE  mail'[p].status # "Pending"
      <4>1. \/ mail'[p] = mail[p]
            \/ \E s \in {"Cancelled", "Sent", "Retrying"} :
                 mail'[p] = [mail[p] EXCEPT !.status = s]
        BY <3>2, <2>1 DEF SendMail, TypeOK
      <4>2. CASE mail'[p] = mail[p]
        BY <4>2, <1>q, <2>1 DEF Quiet
      <4>3. CASE \E s \in {"Cancelled", "Sent", "Retrying"} :
                   mail'[p] = [mail[p] EXCEPT !.status = s]
        BY <4>3 DEF TypeOK, Mail
      <4>4. QED BY <4>1, <4>2, <4>3
    <3>3. QED BY <1>3, <3>1, <3>2 DEF Delivery
  <2>3. QED BY <2>1, <2>2, <1>q, <1>0 DEF Quiet
<1>4. CASE Claim
  BY <1>4 DEF Claim
<1>5. ASSUME NEW g \in Runs, Task(g) \/ Panic(g) \/ RunError(g) PROVE Quiet'
  <2>1. status = "Cancelled"
    BY <1>5 DEF Task, Start, NoBaseline, AllEnded, FailOrphans, Conclude,
       Post, Release, Panic, RunError, CompletePatchset, set
  <2>2. \A i \in Ids : review'[i] = review[i]
    BY <1>5, <2>1
    DEF Task, Start, NoBaseline, AllEnded, FailOrphans, Conclude,
        Post, Release, Panic, RunError, ClaimActive, rows
  <2>3. \A p \in Patches : mail'[p] \in {mail[p], NoMail}
    BY <1>5, MailWithoutAdds
    DEF Task, Start, NoBaseline, AllEnded, FailOrphans, Conclude,
        Post, Release, Panic, RunError, outbox
  <2>4. \A p \in Patches : mail[p].status # "Pending"
    BY <2>1, <1>q DEF Quiet
  <2>5. \A p \in Patches : mail'[p].status # "Pending"
    BY <2>3, <2>4 DEF NoMail
  <2>6. QED BY <2>1, <2>2, <2>5, <1>q DEF Quiet
<1>6. ASSUME NEW g \in Runs, NEW p \in Patches, JobAndRows(g, p) PROVE Quiet'
  <2>1. status = "Cancelled" /\ ~ClaimActive(g)
    BY <1>6, JobFrame DEF ClaimActive
  <2>2. Notify(g, p) \/ Abort(g, p) \/ JobPanic(g, p)
    BY <1>6, <2>1
    DEF JobAndRows, ClaimReview, Retry, SaveFindings, Complete, Writable
  <2>3. \A i \in Ids : \/ review'[i] = review[i]
                       \/ review'[i] = EndedAs(review[i], "Cancelled")
    BY <2>1, <2>2 DEF Notify, Abort, JobPanic, rows
  <2>4. \A q \in Patches : mail'[q] \in {mail[q], NoMail}
    BY <2>1, <2>2, MailWithoutAdds
    DEF Notify, Abort, JobPanic, ClaimActiveForOutbox
  <2>5. \A i \in Ids : EndedAs(review[i], "Cancelled").status = "Cancelled"
    BY DEF EndedAs, TypeOK, Review
  <2>6. \A q \in Patches : mail'[q].status # "Pending"
    <3>1. \A q \in Patches : mail[q].status # "Pending"
      BY <2>1, <1>q DEF Quiet
    <3>2. QED BY <3>1, <2>4 DEF NoMail
  <2>7. QED BY <2>1, <2>3, <2>5, <2>6, <1>q DEF Quiet
<1>7. ASSUME NEW g \in Runs, NEW p \in Patches,
             JobOnly(g, p) \/ JobAndPatch(g, p), ~JobAndRows(g, p)
      PROVE  Quiet'
  BY <1>7, <1>q, JobFrame DEF Quiet
<1>8. QED
  BY <1>0, <1>1, <1>2, <1>3, <1>4, <1>5, <1>6, <1>7, NextGroups DEF Quiet

-----------------------------------------------------------------------------
(* Jobs: what a step does to the job that takes it, and to the others.     *)

OthersKept(g, p) ==
    \A h \in Runs, q \in Patches :
      \/ h = g /\ q = p
      \/ job'[h][q] = job[h][q]
      \/ job[h][q].at = "queued" /\ job'[h][q].at \in {"dropped", "failed"}

(* The three ways to move a job, and that they leave other jobs alone.      *)
LEMMA JobEffects ==
  ASSUME job \in Jobs, NEW g \in Runs, NEW p \in Patches, NEW s
  PROVE  /\ JobTo(g, p, s) => /\ job'[g][p] = [job[g][p] EXCEPT !.at = s]
                              /\ job'[g][p].at = s
                              /\ job'[g][p].id = job[g][p].id
                              /\ OthersKept(g, p)
         /\ JobEnds(g, p, s) => job'[g][p].at = s /\ OthersKept(g, p)
         /\ s \in {"dropped", "failed"} /\ Drop(g, p, s) =>
              job'[g][p].at = s /\ OthersKept(g, p)
<1>1. job[g] \in [Patches -> Job] /\ job[g][p] \in Job
  BY DEF Jobs
<1>2. JobAt(s).at = s
  BY DEF JobAt
<1>3. JobTo(g, p, s) => job'[g][p] = [job[g][p] EXCEPT !.at = s] /\ OthersKept(g, p)
  BY <1>1 DEF JobTo, OthersKept, Jobs
<1>4. [job[g][p] EXCEPT !.at = s].at = s
      /\ [job[g][p] EXCEPT !.at = s].id = job[g][p].id
  BY <1>1 DEF Job
<1>5. JobEnds(g, p, s) => job'[g][p].at = s /\ OthersKept(g, p)
  BY <1>1, <1>2 DEF JobEnds, OthersKept, Jobs
<1>6. ASSUME s \in {"dropped", "failed"}, Drop(g, p, s)
      PROVE  job'[g][p].at = s /\ OthersKept(g, p)
  <2>1. job'[g][p] = JobAt(s)
    BY <1>1, <1>6 DEF Drop, Jobs
  <2>2. ASSUME NEW h \in Runs, NEW q \in Patches
        PROVE  \/ job'[h][q] = job[h][q]
               \/ h = g /\ q = p
               \/ job[h][q].at = "queued" /\ job'[h][q] = JobAt(s)
    BY <1>1, <1>6 DEF Drop, Jobs
  <2>3. QED BY <2>1, <2>2, <1>2, <1>6 DEF OthersKept
<1>7. QED BY <1>3, <1>4, <1>5, <1>6

(* The first of them alone.                                                 *)
LEMMA JobToAt ==
  ASSUME job \in Jobs, NEW g \in Runs, NEW p \in Patches
  PROVE  \A s : JobTo(g, p, s) => job'[g][p].at = s
<1>1. job[g] \in [Patches -> Job] /\ job[g][p] \in Job
  BY DEF Jobs
<1>2. QED BY <1>1 DEF JobTo, Jobs, Job

LEMMA JobEndsEffect ==
  ASSUME job \in Jobs, NEW g \in Runs, NEW p \in Patches, NEW s, JobEnds(g, p, s)
  PROVE  job'[g][p].at = s /\ OthersKept(g, p)
BY JobEffects

LEMMA DropEffect ==
  ASSUME job \in Jobs, NEW g \in Runs, NEW p \in Patches, Drop(g, p, "dropped")
  PROVE  job'[g][p].at = "dropped" /\ OthersKept(g, p)
BY JobEffects

LEMMA JobToKeeps ==
  ASSUME job \in Jobs, NEW g \in Runs, NEW p \in Patches, NEW s, JobTo(g, p, s)
  PROVE  job'[g][p].id = job[g][p].id /\ OthersKept(g, p)
<1>1. job[g] \in [Patches -> Job] /\ job[g][p] \in Job
  BY DEF Jobs
<1>2. job'[g][p].id = job[g][p].id
  BY <1>1 DEF JobTo, Jobs, Job
<1>3. OthersKept(g, p)
  BY <1>1 DEF JobTo, OthersKept, Jobs
<1>4. QED BY <1>2, <1>3

(* Where a job's own steps take it.                                        *)
LEMMA JobOnlyEffect ==
  ASSUME TypeOK, NEW g \in Runs, NEW p \in Patches, JobOnly(g, p)
  PROVE  /\ job[g][p].at \notin {"none"} \cup {"ok"}
         /\ job'[g][p].at # "none"
         /\ OthersKept(g, p)
         /\ job'[g][p].at \in Filling =>
              /\ job'[g][p].id = job[g][p].id
              /\ job[g][p].at \in {"found", "skipped", "errored"}
              /\ job'[g][p].at # "completing"
         /\ job'[g][p].at = "ok" => WritesFail
         /\ job'[g][p].at \in {"notifying", "closing"} => Inspect(g, p)
<1> job \in Jobs
  BY TypeParts DEF TasksOK
<1> job[g] \in [Patches -> Job] /\ job[g][p] \in Job
  BY DEF Jobs
<1>1. CASE Look(g, p)
  <2>1. job[g][p].at = "queued"
    BY <1>1 DEF Look
  <2>2. job'[g][p].at \in {"looking", "dropped", "failed"} /\ OthersKept(g, p)
    BY <1>1, JobEffects DEF Look
  <2>3. QED BY <2>1, <2>2 DEF Filling
<1>2. CASE Inspect(g, p)
  <2>1. CASE /\ AtLeast(Successes(p), target)
             /\ job' = [job EXCEPT ![g][p] =
                       [JobAt("notifying") EXCEPT !.id = Newest(Successes(p))]]
    <3>1. job'[g][p].at = "notifying"
      BY <2>1 DEF Jobs, JobAt
    <3>2. OthersKept(g, p)
      BY <2>1 DEF Jobs, OthersKept
    <3>3. QED BY <1>2, <3>1, <3>2 DEF Inspect, Filling
  <2>2. CASE JobTo(g, p, "closeFailed") \/ JobTo(g, p, "claiming")
    <3>1. job[g][p].at = "looking"
      BY <1>2 DEF Inspect
    <3>2. job'[g][p].at \in {"closeFailed", "claiming"} /\ OthersKept(g, p)
      BY <2>2, JobToAt, JobToKeeps
    <3>3. QED BY <3>1, <3>2 DEF Filling
  <2>3. QED BY <1>2, <2>1, <2>2 DEF Inspect
<1>3. CASE Judge(g, p)
  <2>1. CASE job' = [job EXCEPT ![g][p].at = "retrying",
                                ![g][p].retries = @ + 1]
    <3>1. job'[g][p].at = "retrying" /\ job'[g][p].id = job[g][p].id
      BY <2>1 DEF Jobs, Job
    <3>2. OthersKept(g, p)
      BY <2>1 DEF Jobs, OthersKept
    <3>3. QED BY <1>3, <3>1, <3>2 DEF Judge
  <2>2. CASE \E s \in {"aborting", "saving", "skipping", "failing"} : JobTo(g, p, s)
    <3>1. job[g][p].at \in {"found", "skipped", "errored"}
      BY <1>3 DEF Judge
    <3>2. /\ job'[g][p].at \in {"aborting", "saving", "skipping", "failing"}
          /\ job'[g][p].id = job[g][p].id /\ OthersKept(g, p)
      BY <2>2, JobToAt, JobToKeeps
    <3>3. QED BY <3>1, <3>2
  <2>3. QED BY <1>3, <2>1, <2>2 DEF Judge
<1>4. CASE FindOut(g, p)
  <2>1. job[g][p].at \in {"claiming", "retrying", "saving", "completing",
                           "skipping", "failing"}
    BY <1>4 DEF FindOut
  <2>2. job'[g][p].at \in {"dropped", "aborting"} /\ OthersKept(g, p)
    <3>1. Drop(g, p, "dropped") \/ JobTo(g, p, "aborting")
      BY <1>4 DEF FindOut
    <3>2. QED BY <3>1, JobToAt, JobToKeeps, DropEffect
  <2>3. QED BY <2>1, <2>2 DEF Filling
<1>5. CASE JobError(g, p)
  <2>1. WritesFail /\ job[g][p].at \notin {"none", "ok"}
    BY <1>5 DEF JobError
  <2>2. /\ job'[g][p].at \in {"failed", "abortingPatch", "dropped", "ok"}
        /\ OthersKept(g, p)
    <3>1. \/ JobEnds(g, p, "failed") \/ JobTo(g, p, "abortingPatch")
          \/ Drop(g, p, "dropped") \/ JobEnds(g, p, "ok")
      BY <1>5 DEF JobError
    <3>2. QED BY <3>1, JobToAt, JobToKeeps, JobEndsEffect, DropEffect
  <2>3. QED BY <2>1, <2>2 DEF Filling
<1>6. QED BY <1>1, <1>2, <1>3, <1>4, <1>5 DEF JobOnly

(* The same for the steps that write the job's patch.                       *)
LEMMA JobAndPatchEffect ==
  ASSUME TypeOK, NEW g \in Runs, NEW p \in Patches, JobAndPatch(g, p)
  PROVE  /\ job[g][p].at \notin {"none"} \cup {"ok"}
         /\ job'[g][p].at \notin {"none", "notifying"} \cup {"closing"}
         /\ OthersKept(g, p)
         /\ job'[g][p].at \in Filling =>
              /\ job'[g][p].id = job[g][p].id
              /\ job[g][p].at = "running"
              /\ job'[g][p].at # "completing"
         /\ job'[g][p].at = "ok" => Filter(g, p) \/ Close(g, p)
<1> job \in Jobs
  BY TypeParts DEF TasksOK
<1>1. CASE Filter(g, p)
  <2>1. job[g][p].at = "filtered"
    BY <1>1 DEF Filter
  <2>2. job'[g][p].at = "ok" /\ OthersKept(g, p)
    BY <1>1, JobEffects DEF Filter
  <2>3. QED BY <1>1, <2>1, <2>2 DEF Filling
<1>2. CASE ToolEnds(g, p)
  <2>1. job[g][p].at = "running"
    BY <1>2 DEF ToolEnds
  <2>2. /\ job'[g][p].at \in {"found", "skipped", "errored"}
        /\ job'[g][p].id = job[g][p].id /\ OthersKept(g, p)
    BY <1>2, JobToAt, JobToKeeps DEF ToolEnds
  <2>3. QED BY <2>1, <2>2
<1>3. CASE Close(g, p)
  <2>1. job[g][p].at \in {"closing", "closeSkipped", "closeFailed"}
    BY <1>3 DEF Close
  <2>2. job'[g][p].at \in {"ok", "failed"} /\ OthersKept(g, p)
    BY <1>3, JobEffects DEF Close
  <2>3. QED BY <1>3, <2>1, <2>2 DEF Filling
<1>4. CASE AbortPatch(g, p)
  <2>1. job[g][p].at = "abortingPatch"
    BY <1>4 DEF AbortPatch
  <2>2. job'[g][p].at = "dropped" /\ OthersKept(g, p)
    BY <1>4, JobEffects DEF AbortPatch
  <2>3. QED BY <2>1, <2>2 DEF Filling
<1>5. QED BY <1>1, <1>2, <1>3, <1>4 DEF JobAndPatch

(* The row that a job claims.                                              *)
Claims(g, p, i) ==
    /\ i \in Ids
    /\ \/ i \in PendingOf(p) /\ review' = [review EXCEPT ![i] = Cleared(review[i])]
       \/ /\ i = FreshId
          /\ review' = [review EXCEPT ![i] = Cleared([Unused EXCEPT !.of = p])]
    /\ Begin(g, p, i)

(* A job that claims runs on the row that it claimed.                       *)
LEMMA ClaimReviewEffect ==
  ASSUME TypeOK, NEW g \in Runs, NEW p \in Patches, ClaimReview(g, p)
  PROVE  /\ job[g][p].at = "claiming"
         /\ job'[g][p].at = "running"
         /\ OthersKept(g, p)
         /\ Claims(g, p, job'[g][p].id)
<1> job \in Jobs
  BY TypeParts DEF TasksOK
<1> job[g] \in [Patches -> Job] /\ job[g][p] \in Job
  BY DEF Jobs
<1>1. \A i : Begin(g, p, i) =>
               /\ job'[g][p].at = "running" /\ job'[g][p].id = i
               /\ OthersKept(g, p)
  BY DEF Begin, OthersKept, Jobs, Job
<1>2. \E i : Claims(g, p, i)
  <2>1. CASE PendingOf(p) # {}
    <3>1. Oldest(PendingOf(p)) \in PendingOf(p) /\ PendingOf(p) \subseteq Ids
      BY <2>1, OldestIn DEF PendingOf
    <3>2. QED BY <2>1, <3>1 DEF ClaimReview, Claims
  <2>2. CASE PendingOf(p) = {}
    BY <2>2 DEF ClaimReview, Claims
  <2>3. QED BY <2>1, <2>2
<1>3. QED BY <1>1, <1>2 DEF ClaimReview, Claims

(* The same for the steps that write rows or mail.                          *)
LEMMA JobAndRowsEffect ==
  ASSUME TypeOK, NEW g \in Runs, NEW p \in Patches, JobAndRows(g, p)
  PROVE  /\ job[g][p].at \notin {"none"} \cup {"ok"}
         /\ job'[g][p].at \notin {"none"} \cup {"ok"}
         /\ OthersKept(g, p)
         /\ job'[g][p].at \in Filling =>
              \/ ClaimReview(g, p)
              \/ /\ Retry(g, p) \/ SaveFindings(g, p)
                 /\ job[g][p].at \in Filling
                 /\ job'[g][p].id = job[g][p].id
<1> job \in Jobs
  BY TypeParts DEF TasksOK
<1>1. CASE ClaimReview(g, p)
  BY <1>1, ClaimReviewEffect
<1>2. CASE Retry(g, p)
  <2>1. job[g][p].at = "retrying"
    BY <1>2 DEF Retry
  <2>2. /\ job'[g][p].at = "running" /\ job'[g][p].id = job[g][p].id
        /\ OthersKept(g, p)
    BY <1>2, JobToAt, JobToKeeps DEF Retry
  <2>3. QED BY <1>2, <2>1, <2>2 DEF Filling
<1>3. CASE SaveFindings(g, p)
  <2>1. job[g][p].at = "saving"
    BY <1>3 DEF SaveFindings
  <2>2. /\ job'[g][p].at = "completing" /\ job'[g][p].id = job[g][p].id
        /\ OthersKept(g, p)
    BY <1>3, JobToAt, JobToKeeps DEF SaveFindings
  <2>3. QED BY <1>3, <2>1, <2>2 DEF Filling
<1>4. CASE Complete(g, p)
  <2>1. job[g][p].at \in {"completing", "skipping", "failing"}
    BY <1>4 DEF Complete
  <2>2. job'[g][p].at \in {"notifying", "closeSkipped", "closeFailed"}
        /\ OthersKept(g, p)
    <3>1. \/ JobTo(g, p, "notifying") \/ JobTo(g, p, "closeSkipped")
          \/ JobTo(g, p, "closeFailed")
      BY <1>4 DEF Complete
    <3>2. QED BY <3>1, JobToAt, JobToKeeps
  <2>3. QED BY <2>1, <2>2 DEF Filling
<1>5. CASE Notify(g, p) \/ Abort(g, p)
  <2>1. job[g][p].at \in {"notifying", "aborting"}
    BY <1>5 DEF Notify, Abort
  <2>2. job'[g][p].at \in {"closing", "abortingPatch"} /\ OthersKept(g, p)
    <3>1. JobTo(g, p, "closing") \/ JobTo(g, p, "abortingPatch")
      BY <1>5 DEF Notify, Abort
    <3>2. QED BY <3>1, JobToAt, JobToKeeps
  <2>3. QED BY <2>1, <2>2 DEF Filling
<1>6. CASE JobPanic(g, p)
  <2>1. job[g][p].at \notin {"none"} \cup {"ok"}
    BY <1>6 DEF JobPanic, Ended
  <2>2. job'[g][p].at \in {"dropped", "failed"} /\ OthersKept(g, p)
    BY <1>6, JobEffects DEF JobPanic
  <2>3. QED BY <2>1, <2>2 DEF Filling
<1>7. QED BY <1>1, <1>2, <1>3, <1>4, <1>5, <1>6 DEF JobAndRows

-----------------------------------------------------------------------------
(* Rows: what a step does to the row of somebody else.                     *)

EndedByOther(i) ==
    /\ review[i].status \in Unended \cup {"Cancelled"}
    /\ \E s \in {"Failed", "Cancelled"} : review'[i] = EndedAs(review[i], s)

DeletedByRerun(i) == Spoiled(i) /\ review'[i] = Deleted /\ i <= maxId'

Taken(i) == review'[i] = review[i] \/ EndedByOther(i) \/ DeletedByRerun(i)

(* The steps of no job, but for Restart.                                   *)
LEMMA OtherRows ==
  ASSUME TypeOK, NEW i \in Ids,
         \/ People \/ Delivery \/ Claim
         \/ \E g \in Runs : Task(g) \/ Panic(g) \/ RunError(g)
  PROVE  /\ Taken(i)
         /\ review'[i] # review[i] =>
              \/ active' = 0
              \/ \E g \in Runs : FailOrphans(g) /\ ClaimActive(g)
         /\ maxId' = maxId \/ (maxId' = HighestId /\ active' = 0)
<1>1. CASE UNCHANGED <<review, maxId>>
  BY <1>1 DEF Taken
<1>2. ASSUME NEW force \in BOOLEAN, Cancel(force)
      PROVE  Taken(i) /\ active' = 0 /\ maxId' = maxId
  <2>1. \/ review'[i] = review[i]
        \/ review[i].status \in Unended /\ review'[i] = EndedAs(review[i], "Cancelled")
    BY <1>2 DEF Cancel
  <2>2. QED BY <1>2, <2>1 DEF Cancel, Taken, EndedByOther
<1>3. CASE Rerun \/ Refetch
  <2>1. ResetReviewState
    BY <1>3 DEF Rerun, Refetch
  <2>2. /\ active' = 0 /\ maxId' = HighestId
        /\ review'[i] = IF Spoiled(i) THEN Deleted ELSE review[i]
    BY <2>1 DEF ResetReviewState
  <2>3. Spoiled(i) => i <= HighestId
    <3>1. Spoiled(i) => Exists(i)
      BY DEF Spoiled, Exists
    <3>2. maxId \in 0..MaxReviews
      BY DEF TypeOK
    <3>3. QED BY <3>1, <3>2, HighestIdIsHighest
  <2>4. QED BY <2>2, <2>3 DEF Taken, DeletedByRerun
<1>4. ASSUME NEW g \in Runs, FailOrphans(g)
      PROVE  /\ Taken(i) /\ maxId' = maxId
             /\ review'[i] # review[i] => ClaimActive(g)
  <2>1. \/ review'[i] = review[i]
        \/ /\ ClaimActive(g) /\ review[i].status = "In Review"
           /\ review'[i] = EndedAs(review[i], "Failed")
    BY <1>4 DEF FailOrphans
  <2>2. QED BY <1>4, <2>1 DEF FailOrphans, Taken, EndedByOther, Unended
<1>5. CASE Ingest \/ Supersede \/ Delivery \/ Claim
  BY <1>1, <1>5 DEF Ingest, Supersede, Delivery, SendComment, SendMail, Claim, rows
<1>6. ASSUME NEW g \in Runs, Task(g) \/ Panic(g) \/ RunError(g), ~FailOrphans(g)
      PROVE  UNCHANGED <<review, maxId>>
  BY <1>6 DEF Task, Start, NoBaseline, AllEnded, Conclude, Post, Release, Panic,
     RunError, rows
<1>7. QED BY <1>1, <1>2, <1>3, <1>4, <1>5, <1>6 DEF People

(* The steps of a job take other rows only if it panicked or the patchset  *)
(* was cancelled; its own row it writes only while that is writable.       *)
LEMMA JobRows ==
  ASSUME TypeOK, NEW g \in Runs, NEW p \in Patches, JobAndRows(g, p), NEW i \in Ids
  PROVE  \/ review'[i] = review[i]
         \/ EndedByOther(i) /\ (TasksPanic \/ status = "Cancelled")
         \/ /\ Retry(g, p) \/ SaveFindings(g, p) \/ Complete(g, p)
            /\ i = job[g][p].id /\ Writable(g, i)
         \/ ClaimReview(g, p) /\ i = job'[g][p].id
<1>1. CASE ClaimReview(g, p)
  <2>1. \E r : review' = [review EXCEPT ![job'[g][p].id] = r]
    <3>1. Claims(g, p, job'[g][p].id)
      BY <1>1, ClaimReviewEffect
    <3>2. QED BY <3>1 DEF Claims
  <2>2. QED BY <1>1, <2>1 DEF TypeOK
<1>2. CASE Retry(g, p)
  BY <1>2 DEF Retry, TypeOK
<1>3. CASE SaveFindings(g, p)
  BY <1>3 DEF SaveFindings, TypeOK
<1>4. CASE Complete(g, p)
  <2>1. i # job[g][p].id => review'[i] = review[i]
    BY <1>4 DEF Complete, TypeOK
  <2>2. QED BY <1>4, <2>1 DEF Complete
<1>5. CASE Notify(g, p)
  BY <1>5 DEF Notify, rows
<1>6. CASE Abort(g, p)
  <2>1. \/ review'[i] = review[i]
        \/ /\ status = "Cancelled" /\ i \in Leftover(g, p)
           /\ review'[i] = EndedAs(review[i], "Cancelled")
    BY <1>6 DEF Abort
  <2>2. i \in Leftover(g, p) => review[i].status \in Unended \cup {"Cancelled"}
    <3>1. CASE job[g][p].id # 0
      BY <3>1 DEF Leftover
    <3>2. CASE job[g][p].id = 0
      <4> DEFINE S == {j \in Ids : review[j].of = p /\ review[j].status \in Unended}
      <4>1. S # {} => Oldest(S) \in S
        BY OldestIn
      <4>2. i \in Leftover(g, p) => S # {} /\ i = Oldest(S)
        BY <3>2 DEF Leftover
      <4>3. QED BY <4>1, <4>2
    <3>3. QED BY <3>1, <3>2
  <2>3. QED BY <2>1, <2>2 DEF EndedByOther
<1>7. CASE JobPanic(g, p)
  <2>1. \/ review'[i] = review[i]
        \/ /\ review[i].status = "In Review"
           /\ review'[i] = EndedAs(review[i], "Failed")
    BY <1>7 DEF JobPanic
  <2>2. QED BY <1>7, <2>1 DEF JobPanic, EndedByOther, Unended
<1>8. QED BY <1>1, <1>2, <1>3, <1>4, <1>5, <1>6, <1>7 DEF JobAndRows

(* An id that is given out was never used.                                 *)
LEMMA FreshIdIsFresh ==
  ASSUME TypeOK, DeletedBelow, FreshId \in Ids
  PROVE  review[FreshId].status = "unused"
<1>1. HighestId \in Nat /\ maxId \in Nat /\ HighestId >= maxId
      /\ \A i \in Ids : Exists(i) => i <= HighestId
  <2>1. maxId \in 0..MaxReviews
    BY DEF TypeOK
  <2>2. QED BY <2>1, HighestIdIsHighest
<1>2. ~(FreshId <= HighestId) /\ ~(FreshId <= maxId)
  BY <1>1 DEF FreshId
<1>3. ~Exists(FreshId) /\ review[FreshId].status # "deleted"
  BY <1>1, <1>2 DEF DeletedBelow
<1>4. QED BY <1>3 DEF Exists

(* Row i is begun from nothing for patch p.                                 *)
BegunFor(i, p) ==
    /\ review'[i].status = "In Review" /\ review'[i].of = p
    /\ review'[i].findings = 0

(* A row that is claimed was nobody's.                                     *)
LEMMA ClaimedRow ==
  ASSUME TypeOK, DeletedBelow, NEW g \in Runs, NEW p \in Patches, NEW i \in Ids,
         Claims(g, p, i)
  PROVE  /\ review[i].status \in {"Pending", "unused"}
         /\ BegunFor(i, p)
<1>1. i \in Ids /\ review[i] \in Review
  BY DEF Claims, TypeOK
<1>2. CASE i \in PendingOf(p) /\ review' = [review EXCEPT ![i] = Cleared(review[i])]
  <2>1. review'[i] = Cleared(review[i])
    BY <1>1, <1>2 DEF TypeOK
  <2>2. QED BY <1>1, <1>2, <2>1 DEF PendingOf, Cleared, Review, BegunFor
<1>3. CASE /\ i = FreshId
           /\ review' = [review EXCEPT ![i] = Cleared([Unused EXCEPT !.of = p])]
  <2>1. review'[i] = Cleared([Unused EXCEPT !.of = p])
    BY <1>1, <1>3 DEF TypeOK
  <2>2. QED BY <1>1, <1>3, <2>1, FreshIdIsFresh DEF Cleared, Unused, BegunFor
<1>4. QED BY <1>2, <1>3 DEF Claims

(* A job's writes to its own row.                                          *)
LEMMA OwnRowWrite ==
  ASSUME TypeOK, NEW g \in Runs, NEW p \in Patches,
         Retry(g, p) \/ SaveFindings(g, p) \/ Complete(g, p),
         FillingOwnRow
  PROVE  LET i == job[g][p].id
         IN /\ i \in Ids /\ ClaimActive(g)
            /\ job[g][p].at \in Filling
            /\ review[i].status \in {"In Review", "Failed"}
            /\ review[i].of = p /\ review'[i].of = p
            /\ Retry(g, p) =>
                 review'[i].findings = 0 /\ review'[i].status = "In Review"
            /\ SaveFindings(g, p) =>
                 /\ review'[i].findings = 1
                 /\ review'[i].status = review[i].status
            /\ Complete(g, p) =>
                 /\ review'[i].findings = review[i].findings
                 /\ review'[i].status =
                      CASE job[g][p].at = "completing" -> "Reviewed"
                        [] job[g][p].at = "skipping" -> "Skipped"
                        [] OTHER -> "Failed"
<1> DEFINE i == job[g][p].id
<1>1. job[g][p].at \in Filling /\ Writable(g, i)
  BY DEF Retry, SaveFindings, Complete, Filling
<1>2. i \in Ids /\ OwnRow(g, p)
  BY <1>1 DEF FillingOwnRow, OwnRow
<1>3. /\ ClaimActive(g) /\ review[i].of = p
      /\ review[i].status \in {"In Review", "Failed"}
  BY <1>1, <1>2 DEF Writable, Exists, OwnRow
<1>4. review[i] \in Review /\ review \in [Ids -> Review]
  BY <1>2 DEF TypeOK
<1>5. ASSUME Retry(g, p)
      PROVE  /\ review'[i].findings = 0 /\ review'[i].status = "In Review"
             /\ review'[i].of = p
  <2>1. review'[i] = Cleared(review[i])
    BY <1>2, <1>4, <1>5 DEF Retry
  <2>2. QED BY <2>1, <1>3, <1>4 DEF Cleared, Review
<1>6. ASSUME SaveFindings(g, p)
      PROVE  /\ review'[i].findings = 1 /\ review'[i].status = review[i].status
             /\ review'[i].of = p
  <2>1. review[i].findings = 0
    BY <1>2, <1>6 DEF SaveFindings, OwnRow
  <2>2. review'[i] = [review[i] EXCEPT !.findings = 1]
    BY <1>2, <1>4, <1>6, <2>1 DEF SaveFindings
  <2>3. QED BY <2>2, <1>3, <1>4 DEF Review
<1>7. ASSUME Complete(g, p)
      PROVE  /\ review'[i].findings = review[i].findings /\ review'[i].of = p
             /\ review'[i].status =
                  CASE job[g][p].at = "completing" -> "Reviewed"
                    [] job[g][p].at = "skipping" -> "Skipped"
                    [] OTHER -> "Failed"
  <2>1. CASE job[g][p].at = "completing"
    <3>1. review' = [review EXCEPT ![i].status = "Reviewed", ![i].infra = FALSE]
      BY <1>7, <2>1 DEF Complete
    <3>2. QED BY <1>2, <1>3, <1>4, <2>1, <3>1 DEF Review
  <2>2. CASE job[g][p].at = "skipping"
    <3>1. review' = [review EXCEPT ![i].status = "Skipped"]
      BY <1>7, <2>2 DEF Complete
    <3>2. QED BY <1>2, <1>3, <1>4, <2>2, <3>1 DEF Review
  <2>3. CASE job[g][p].at = "failing"
    <3>1. PICK infra \in BOOLEAN :
            review' = [review EXCEPT ![i].status = "Failed", ![i].infra = infra]
      BY <1>7, <2>3 DEF Complete
    <3>2. review'[i] = [[review[i] EXCEPT !.status = "Failed"] EXCEPT !.infra = infra]
      BY <1>2, <1>4, <3>1 DEF Review
    <3>3. QED BY <1>3, <1>4, <2>3, <3>2 DEF Review
  <2>4. QED BY <1>7, <2>1, <2>2, <2>3 DEF Complete
<1>8. QED BY <1>1, <1>2, <1>3, <1>5, <1>6, <1>7

(* An id that was deleted stays so, and a completed review is never written. *)
LEMMA DeletedStays ==
  ASSUME IInv, Next, NEW i \in Ids
  PROVE  /\ review[i].status = "deleted" => review'[i].status = "deleted"
         /\ review'[i].status = "deleted" =>
              review[i].status = "deleted" \/ i <= maxId'
         /\ review[i].status = "Reviewed" => review'[i] = review[i]
<1> TypeOK /\ DeletedBelow /\ FillingOwnRow
  BY DEF IInv
<1> review[i] \in Review /\ review \in [Ids -> Review]
  BY DEF TypeOK
<1> DEFINE Stays == /\ review[i].status = "deleted" => review'[i].status = "deleted"
                    /\ review'[i].status = "deleted" =>
                         review[i].status = "deleted" \/ i <= maxId'
                    /\ review[i].status = "Reviewed" => review'[i] = review[i]
<1>e. \A s \in {"Failed", "Cancelled"} : EndedAs(review[i], s).status = s
  BY DEF EndedAs, Review
<1>1. CASE review'[i] = review[i]
  BY <1>1
<1>2. CASE EndedByOther(i)
  BY <1>2, <1>e DEF EndedByOther, Unended
<1>3. CASE DeletedByRerun(i)
  BY <1>3 DEF DeletedByRerun, Spoiled, Deleted, Unused
<1>4. CASE Restart
  BY <1>4 DEF Restart, Interrupt, Review
<1>5. ASSUME NEW g \in Runs, NEW p \in Patches, JobAndRows(g, p) PROVE Stays
  <2>1. CASE ClaimReview(g, p) /\ i = job'[g][p].id
    <3>1. Claims(g, p, i)
      BY <2>1, ClaimReviewEffect
    <3>2. review[i].status \in {"Pending", "unused"} /\ BegunFor(i, p)
      BY <3>1, ClaimedRow
    <3>3. review'[i].status = "In Review"
      BY <3>2 DEF BegunFor
    <3>4. QED BY <3>2, <3>3
  <2>2. CASE /\ Retry(g, p) \/ SaveFindings(g, p) \/ Complete(g, p)
             /\ i = job[g][p].id
    BY <2>2, OwnRowWrite
  <2>3. QED BY <1>1, <1>2, <1>5, <2>1, <2>2, JobRows
<1>6. ASSUME NEW g \in Runs, NEW p \in Patches,
             JobOnly(g, p) \/ JobAndPatch(g, p), ~JobAndRows(g, p)
      PROVE  review'[i] = review[i]
  BY <1>6, JobFrame
<1>7. CASE \/ People \/ Delivery \/ Claim
           \/ \E g \in Runs : Task(g) \/ Panic(g) \/ RunError(g)
  BY <1>1, <1>2, <1>3, <1>7, OtherRows DEF Taken
<1>8. QED BY <1>1, <1>4, <1>5, <1>6, <1>7, NextGroups

(* reviews_max_id stays past every deleted row.                             *)
LEMMA NextDeleted == ASSUME IInv, Next PROVE DeletedBelow'
<1> TypeOK /\ DeletedBelow
  BY DEF IInv
<1>1. maxId' = maxId \/ maxId' = HighestId
  <2>1. CASE Restart
    BY <2>1 DEF Restart
  <2>2. CASE \/ People \/ Delivery \/ Claim
             \/ \E g \in Runs : Task(g) \/ Panic(g) \/ RunError(g)
    <3>1. 1 \in Ids
      OBVIOUS
    <3>2. QED BY <2>2, <3>1, OtherRows
  <2>3. QED BY <2>1, <2>2, JobFrame, NextGroups
<1>2. maxId \in Nat /\ maxId' \in Nat /\ maxId <= maxId'
  <2>1. maxId \in 0..MaxReviews
    BY DEF TypeOK
  <2>2. QED BY <1>1, <2>1, HighestIdIsHighest
<1>3. ASSUME NEW i \in Ids, review'[i].status = "deleted" PROVE i <= maxId'
  <2>1. review[i].status = "deleted" => i <= maxId
    BY DEF DeletedBelow
  <2>2. i <= maxId => i <= maxId'
    BY <1>2
  <2>3. QED BY <1>3, <2>1, <2>2, DeletedStays
<1>4. QED BY <1>3 DEF DeletedBelow

(* A run moves and the others stay.                                         *)
LEMMA RunToEffect ==
  ASSUME TypeOK, NEW g \in Runs, NEW s, RunTo(g, s)
  PROVE  run'[g] = s /\ \A h \in Runs : h # g => run'[h] = run[h]
BY DEF RunTo, TypeOK

(* No job is left behind by a task that ended without a panic.              *)
LEMMA NextJobs == ASSUME IInv, Next PROVE JobsHaveTask'
<1> TypeOK /\ JobsHaveTask /\ ClaimsInOrder
  BY DEF IInv
<1> job \in Jobs
  BY TypeParts DEF TasksOK
<1> DEFINE Idle(g) == \A p \in Patches : job[g][p].at = "none"
           Bare(g) == \/ run[g] \in {"none", "starting", "concluding"}
                      \/ ~TasksPanic /\ run[g] # "reviewing"
<1> SUFFICES ASSUME NEW g \in Runs, Bare(g)' PROVE Idle(g)'
  BY DEF JobsHaveTask
<1>0. Bare(g) => Idle(g)
  BY DEF JobsHaveTask
<1>1. CASE UNCHANGED <<run[g], job>>
  BY <1>0, <1>1
<1>2. CASE People \/ Delivery
  BY <1>1, <1>2 DEF People, Ingest, Supersede, Rerun, Refetch, Cancel, Delivery,
     SendComment, SendMail, tasks
<1>3. CASE Restart
  BY <1>3 DEF Restart, Interrupt, JobAt
<1>4. CASE Claim
  <2>1. lastGen + 1 \in Runs /\ lastGen \in Int
    <3>1. lastGen \in 0..MaxRuns
      BY DEF TypeOK
    <3>2. lastGen < MaxRuns
      BY <1>4 DEF Claim
    <3>3. QED BY <3>1, <3>2
  <2>2. UNCHANGED job /\ \A h \in Runs : h # lastGen + 1 => run'[h] = run[h]
    BY <1>4, <2>1, RunToEffect DEF Claim, NextGen
  <2>3. CASE g = lastGen + 1
    <3>1. ~(g <= lastGen)
      BY <2>1, <2>3
    <3>2. run[g] = "none"
      BY <3>1 DEF ClaimsInOrder
    <3>3. QED BY <1>0, <2>2, <3>2
  <2>4. QED BY <1>1, <2>2, <2>3
<1>5. ASSUME NEW h \in Runs, Task(h) \/ Panic(h) \/ RunError(h) PROVE Idle(g)'
  <2>1. CASE g # h
    <3>1. \A s : RunTo(h, s) => run'[g] = run[g]
      BY <2>1, RunToEffect
    <3>2. run'[g] = run[g]
      BY <1>5, <3>1
      DEF Task, Start, NoBaseline, AllEnded, FailOrphans, Conclude, Post, Release,
          Panic, RunError
    <3>3. job'[g] = job[g]
      BY <1>5, <2>1
      DEF Task, Start, NoBaseline, AllEnded, FailOrphans, Conclude, Post, Release,
          Panic, RunError, Jobs
    <3>4. QED BY <1>0, <3>2, <3>3
  <2>2. CASE g = h
    <3>1. CASE Start(g)
      <4>1. Idle(g)
        BY <1>0, <3>1 DEF Start
      <4>2. CASE UNCHANGED job
        BY <4>1, <4>2
      <4>3. CASE RunTo(g, "reviewing")
        BY <4>3, RunToEffect
      <4>4. QED BY <3>1, <4>2, <4>3 DEF Start
    <3>2. CASE AllEnded(g)
      BY <3>2 DEF AllEnded, Jobs, JobAt
    <3>3. CASE Panic(g)
      <4>1. TasksPanic /\ run'[g] = "crashing"
        BY <3>3, RunToEffect DEF Panic
      <4>2. QED BY <4>1
    <3>4. CASE NoBaseline(g) \/ FailOrphans(g) \/ Conclude(g) \/ Post(g)
               \/ Release(g) \/ RunError(g)
      <4>1. UNCHANGED job /\ run[g] \notin {"none"} \cup {"reviewing"}
        BY <3>4 DEF NoBaseline, FailOrphans, Conclude, Post, Release, RunError
      <4>2. \E s \in {"releasing", "failing", "crashed", "posting", "gone"} :
              RunTo(g, s)
        BY <3>4 DEF NoBaseline, FailOrphans, Conclude, Post, Release, RunError
      <4>3. run'[g] \in {"releasing", "failing", "crashed", "posting", "gone"}
        BY <4>2, RunToEffect
      <4>4. QED BY <1>0, <4>1, <4>3
    <3>5. QED BY <1>5, <2>2, <3>1, <3>2, <3>3, <3>4 DEF Task
  <2>3. QED BY <2>1, <2>2
<1>6. ASSUME NEW h \in Runs, NEW q \in Patches,
             JobOnly(h, q) \/ JobAndPatch(h, q) \/ JobAndRows(h, q)
      PROVE  Idle(g)'
  <2>1. run'[g] = run[g]
    BY <1>6, JobFrame
  <2>2. Idle(g)
    BY <1>0, <2>1
  <2>3. job[h][q].at # "none" /\ OthersKept(h, q)
    BY <1>6, JobOnlyEffect, JobAndPatchEffect, JobAndRowsEffect
  <2>4. QED BY <2>2, <2>3 DEF OthersKept
<1>7. QED BY <1>2, <1>3, <1>4, <1>5, <1>6, NextGroups

-----------------------------------------------------------------------------
(* Who fills a row after a step: a job that filled it before, or one whose *)
(* own step it was.                                                        *)

OwnStep(g, p) == JobOnly(g, p) \/ JobAndPatch(g, p) \/ JobAndRows(g, p)

(* Other steps than a job's give nobody a row: they leave a job where it   *)
(* is, end it, or start it.                                                *)
LEMMA OtherJobs ==
  ASSUME TypeOK, NEW h \in Runs, NEW q \in Patches,
         \/ People \/ Restart \/ Delivery \/ Claim
         \/ \E g \in Runs : Task(g) \/ Panic(g) \/ RunError(g)
  PROVE  \/ job'[h][q] = job[h][q] /\ ~Restart
         \/ job'[h][q].at = "none"
         \/ Start(h) /\ job'[h][q].at \in {"filtered", "queued"}
<1> job \in Jobs
  BY TypeParts DEF TasksOK
<1>n. JobAt("none").at = "none" /\ JobAt("filtered").at = "filtered"
      /\ JobAt("queued").at = "queued"
  BY DEF JobAt
<1>1. CASE Restart
  BY <1>1, <1>n DEF Restart, Interrupt
<1>2. CASE (People \/ Delivery \/ Claim) /\ ~Restart
  BY <1>2 DEF People, Ingest, Supersede, Rerun, Refetch, Cancel, Delivery,
     SendComment, SendMail, Claim, tasks
<1>3. ASSUME NEW g \in Runs, Task(g) \/ Panic(g) \/ RunError(g), ~Restart
      PROVE  \/ job'[h][q] = job[h][q]
             \/ job'[h][q].at = "none"
             \/ Start(h) /\ job'[h][q].at \in {"filtered", "queued"}
  <2>1. CASE UNCHANGED job
    BY <2>1
  <2>2. CASE Start(g)
    <3>1. ASSUME NEW out \in SUBSET Patches,
                 job' = [job EXCEPT ![g] =
                           [p \in Patches |->
                              JobAt(IF p \in out THEN "filtered" ELSE "queued")]]
          PROVE  \/ job'[h][q] = job[h][q]
                 \/ Start(h) /\ job'[h][q].at \in {"filtered", "queued"}
      BY <2>2, <3>1, <1>n DEF Jobs
    <3>2. QED BY <2>1, <2>2, <3>1 DEF Start
  <2>3. CASE AllEnded(g)
    BY <2>3, <1>n DEF AllEnded, Jobs
  <2>4. CASE Panic(g)
    BY <2>4, <1>n DEF Panic, Jobs
  <2>5. CASE NoBaseline(g) \/ FailOrphans(g) \/ Conclude(g) \/ Post(g)
             \/ Release(g) \/ RunError(g)
    BY <2>1, <2>5 DEF NoBaseline, FailOrphans, Conclude, Post, Release, RunError
  <2>6. QED BY <1>3, <2>2, <2>3, <2>4, <2>5 DEF Task
<1>4. QED BY <1>1, <1>2, <1>3

(* Who fills a row or has finished one was there before, unless the step
   was its own; and after a restart nobody does.                            *)
LEMMA FillerBefore ==
  ASSUME TypeOK, Next, NEW h \in Runs, NEW q \in Patches,
         job'[h][q].at \in Filling \cup {"notifying", "closing", "ok"}
  PROVE  \/ OwnStep(h, q)
         \/ job'[h][q] = job[h][q] /\ ~Restart
<1>0. job'[h][q].at \notin {"none", "filtered", "queued", "dropped", "failed"}
  BY DEF Filling
<1>1. CASE \/ People \/ Restart \/ Delivery \/ Claim
           \/ \E g \in Runs : Task(g) \/ Panic(g) \/ RunError(g)
  BY <1>0, <1>1, OtherJobs
<1>2. ASSUME NEW g \in Runs, NEW p \in Patches, OwnStep(g, p)
      PROVE  OwnStep(h, q) \/ job'[h][q] = job[h][q]
  <2>1. OthersKept(g, p)
    BY <1>2, JobOnlyEffect, JobAndPatchEffect, JobAndRowsEffect DEF OwnStep
  <2>2. QED BY <1>0, <1>2, <2>1 DEF OthersKept
<1>3. ASSUME NEW g \in Runs, NEW p \in Patches, OwnStep(g, p), Restart
      PROVE  FALSE
  <2>1. OthersKept(g, p) /\ job'[g][p].at # "none"
    BY <1>3, JobOnlyEffect, JobAndPatchEffect, JobAndRowsEffect DEF OwnStep
  <2>2. job'[g][p] = JobAt("none")
    BY <1>3 DEF Restart, Interrupt
  <2>3. QED BY <2>1, <2>2 DEF JobAt
<1>4. QED BY <1>1, <1>2, <1>3, NextGroups DEF OwnStep

(* A job that fills a row claimed it just now, or filled it before.        *)
LEMMA FillerOrClaimer ==
  ASSUME TypeOK, Next, NEW h \in Runs, NEW q \in Patches, job'[h][q].at \in Filling
  PROVE  \/ ClaimReview(h, q)
         \/ job[h][q].at \in Filling /\ job'[h][q].id = job[h][q].id
<1>1. CASE OwnStep(h, q)
  <2>1. {"found", "skipped", "errored", "running"} \subseteq Filling
    BY DEF Filling
  <2>2. QED BY <1>1, <2>1, JobOnlyEffect, JobAndPatchEffect, JobAndRowsEffect DEF OwnStep
<1>2. QED BY <1>1, FillerBefore

(* A row that is claimed in this step was in nobody's hands.               *)
LEMMA ClaimedWasFree ==
  ASSUME IInv, NEW g \in Runs, NEW p \in Patches, ClaimReview(g, p),
         NEW h \in Runs, NEW q \in Patches, job[h][q].at \in Filling
  PROVE  job[h][q].id # job'[g][p].id
<1> TypeOK /\ DeletedBelow /\ FillingOwnRow
  BY DEF IInv
<1>1. Claims(g, p, job'[g][p].id) /\ job'[g][p].id \in Ids
  BY ClaimReviewEffect DEF Claims
<1>2. review[job'[g][p].id].status \in {"Pending", "unused"}
  BY <1>1, ClaimedRow
<1>3. review[job[h][q].id].status \in {"In Review", "Failed", "Cancelled", "deleted"}
  BY DEF FillingOwnRow, OwnRow
<1>4. QED BY <1>2, <1>3

(* No two jobs come to fill the same row.                                   *)
LEMMA NextShared == ASSUME IInv, Next PROVE NeverShared'
<1> TypeOK /\ NeverShared
  BY DEF IInv
<1> SUFFICES ASSUME NEW g \in Runs, NEW h \in Runs,
                    NEW p \in Patches, NEW q \in Patches,
                    job'[g][p].at \in Filling, job'[h][q].at \in Filling,
                    job'[g][p].id = job'[h][q].id
             PROVE  g = h /\ p = q
  BY DEF NeverShared
<1>g. \/ ClaimReview(g, p)
      \/ job[g][p].at \in Filling /\ job'[g][p].id = job[g][p].id
  BY FillerOrClaimer
<1>h. \/ ClaimReview(h, q)
      \/ job[h][q].at \in Filling /\ job'[h][q].id = job[h][q].id
  BY FillerOrClaimer
<1>1. CASE ClaimReview(g, p) /\ ClaimReview(h, q)
  <2>1. OthersKept(g, p) /\ job[h][q].at = "claiming" /\ job'[h][q].at = "running"
    BY <1>1, ClaimReviewEffect
  <2>2. QED BY <2>1 DEF OthersKept
<1>2. CASE ClaimReview(g, p) /\ ~ClaimReview(h, q)
  BY <1>2, <1>h, ClaimedWasFree
<1>3. CASE ~ClaimReview(g, p) /\ ClaimReview(h, q)
  BY <1>3, <1>g, ClaimedWasFree
<1>4. CASE ~ClaimReview(g, p) /\ ~ClaimReview(h, q)
  BY <1>4, <1>g, <1>h DEF NeverShared
<1>5. QED BY <1>1, <1>2, <1>3, <1>4

(* A job that writes its row moves on.                                      *)
LEMMA JobMoves ==
  ASSUME TypeOK, NEW g \in Runs, NEW p \in Patches,
         Retry(g, p) \/ SaveFindings(g, p) \/ Complete(g, p)
  PROVE  job'[g][p] # job[g][p]
<1> job \in Jobs
  BY TypeParts DEF TasksOK
<1>1. job[g][p].at \in {"retrying", "saving", "completing", "skipping", "failing"}
  BY DEF Retry, SaveFindings, Complete
<1>2. CASE Retry(g, p) \/ SaveFindings(g, p)
  <2>1. \/ job[g][p].at = "retrying" /\ JobTo(g, p, "running")
        \/ job[g][p].at = "saving" /\ JobTo(g, p, "completing")
    BY <1>2 DEF Retry, SaveFindings
  <2>2. \A s : JobTo(g, p, s) => job'[g][p].at = s
    BY JobToAt
  <2>3. job'[g][p].at # job[g][p].at
    BY <2>1, <2>2
  <2>4. QED BY <2>3
<1>3. CASE Complete(g, p)
  <2>1. \/ JobTo(g, p, "notifying") \/ JobTo(g, p, "closeSkipped")
        \/ JobTo(g, p, "closeFailed")
    BY <1>3 DEF Complete
  <2>2. job'[g][p].at \in {"notifying", "closeSkipped", "closeFailed"}
    BY <2>1, JobToAt
  <2>3. QED BY <1>1, <2>2
<1>4. QED BY <1>2, <1>3

(* The row of a job that does not move in this step is only ever taken     *)
(* away, and while the run keeps its claim only after a panic.             *)
LEMMA Bystander ==
  ASSUME IInv, Next, ~Restart, NEW h \in Runs, NEW q \in Patches,
         job[h][q].at \in Filling, job'[h][q] = job[h][q]
  PROVE  LET i == job[h][q].id
         IN /\ Taken(i)
            /\ review'[i] # review[i] => TasksPanic \/ ~ClaimActive(h)'
<1> TypeOK /\ DeletedBelow /\ FillingOwnRow /\ NeverShared /\ JobsHaveTask
    /\ ClaimsInOrder
  BY DEF IInv
<1> DEFINE i == job[h][q].id
           Result == /\ Taken(i)
                     /\ review'[i] # review[i] => TasksPanic \/ ~ClaimActive(h)'
<1>i. i \in Ids
  BY DEF FillingOwnRow, OwnRow
<1>r. /\ run[h] # "none"
      /\ TasksPanic \/ run[h] = "reviewing"
  <2>1. job[h][q].at # "none"
    BY DEF Filling
  <2>2. QED BY <2>1 DEF JobsHaveTask
<1>h. h # 0
  OBVIOUS
<1>1. CASE \/ People \/ Delivery \/ Claim
           \/ \E g \in Runs : Task(g) \/ Panic(g) \/ RunError(g)
  <2>1. /\ Taken(i)
        /\ review'[i] # review[i] =>
              \/ active' = 0
              \/ \E g \in Runs : FailOrphans(g) /\ ClaimActive(g)
    BY <1>1, <1>i, OtherRows
  <2>2. CASE active' = 0
    BY <2>1, <2>2, <1>h DEF ClaimActive
  <2>3. ASSUME NEW g \in Runs, FailOrphans(g), ClaimActive(g)
        PROVE  TasksPanic \/ ~ClaimActive(h)'
    <3>1. CASE ~ClaimActive(h)
      BY <3>1, <1>r, LostStaysLost
    <3>2. CASE ClaimActive(h)
      <4>1. g = h
        BY <2>3, <3>2 DEF ClaimActive
      <4>2. run[h] # "reviewing"
        BY <2>3, <4>1 DEF FailOrphans
      <4>3. QED BY <4>2, <1>r
    <3>3. QED BY <3>1, <3>2
  <2>4. QED BY <2>1, <2>2, <2>3
<1>2. ASSUME NEW g \in Runs, NEW p \in Patches, JobAndRows(g, p) PROVE Result
  <2>1. CASE EndedByOther(i) /\ (TasksPanic \/ status = "Cancelled")
    <3>1. status' = status
      BY <1>2, JobFrame
    <3>2. QED BY <2>1, <3>1 DEF Taken, ClaimActive
  <2>2. ASSUME Retry(g, p) \/ SaveFindings(g, p) \/ Complete(g, p),
               i = job[g][p].id
        PROVE  FALSE
    <3>1. job[g][p].at \in Filling
      BY <2>2, OwnRowWrite
    <3>2. g = h /\ p = q
      BY <2>2, <3>1 DEF NeverShared
    <3>3. QED BY <2>2, <3>2, JobMoves
  <2>3. ASSUME ClaimReview(g, p), i = job'[g][p].id PROVE FALSE
    BY <2>3, ClaimedWasFree
  <2>4. QED BY <1>2, <1>i, <2>1, <2>2, <2>3, JobRows DEF Taken
<1>3. ASSUME NEW g \in Runs, NEW p \in Patches,
             JobOnly(g, p) \/ JobAndPatch(g, p), ~JobAndRows(g, p)
      PROVE  Result
  BY <1>3, JobFrame DEF Taken
<1>4. QED BY <1>1, <1>2, <1>3, NextGroups

(* The row of a job that does not move stays the job's own.                *)
LEMMA BystanderKeeps ==
  ASSUME IInv, Next, ~Restart, NEW h \in Runs, NEW q \in Patches,
         job[h][q].at \in Filling, job'[h][q] = job[h][q]
  PROVE  OwnRow(h, q)'
<1> TypeOK /\ FillingOwnRow /\ JobsHaveTask /\ ClaimsInOrder
  BY DEF IInv
<1> DEFINE i == job[h][q].id
<1>1. i \in Ids /\ OwnRow(h, q) /\ review[i] \in Review
  BY DEF FillingOwnRow, OwnRow, TypeOK
<1>2. /\ Taken(i)
      /\ review'[i] # review[i] => TasksPanic \/ ~ClaimActive(h)'
  BY Bystander
<1>3. ClaimActive(h)' => ClaimActive(h)
  <2>1. run[h] # "none"
    BY DEF JobsHaveTask, Filling
  <2>2. QED BY <2>1, LostStaysLost
<1>4. CASE review'[i] = review[i]
  BY <1>1, <1>3, <1>4 DEF OwnRow
<1>5. CASE review'[i] # review[i]
  <2>1. /\ review'[i].findings = 0
        /\ \/ /\ review'[i].status \in {"In Review", "Failed", "Cancelled"}
              /\ review'[i].of = q
           \/ review'[i].status = "deleted"
    <3>1. CASE EndedByOther(i)
      <4>1. review[i].of = q
        BY <1>1, <3>1 DEF EndedByOther, OwnRow, Unended
      <4>2. PICK s \in {"Failed", "Cancelled"} : review'[i] = EndedAs(review[i], s)
        BY <3>1 DEF EndedByOther
      <4>3. QED BY <1>1, <4>1, <4>2 DEF EndedAs, Review
    <3>2. CASE DeletedByRerun(i)
      BY <3>2 DEF DeletedByRerun, Deleted, Unused
    <3>3. QED BY <1>2, <1>5, <3>1, <3>2 DEF Taken
  <2>2. TasksPanic \/ ~ClaimActive(h)'
    BY <1>2, <1>5
  <2>3. 0 \in 0..1
    OBVIOUS
  <2>4. QED BY <1>1, <2>1, <2>2, <2>3 DEF OwnRow
<1>6. QED BY <1>4, <1>5

(* The row that a job claims, clears or completes with findings is its own. *)
LEMMA ClaimedIsOwn ==
  ASSUME TypeOK, DeletedBelow, NEW g \in Runs, NEW p \in Patches, ClaimReview(g, p)
  PROVE  OwnRow(g, p)'
<1> HIDE PatchsetReviewAssumption DEF Runs, Ids
<1>1. job'[g][p].at = "running"
  BY ClaimReviewEffect
<1>2. PICK k \in Ids : k = job'[g][p].id /\ Claims(g, p, k)
  BY ClaimReviewEffect DEF Claims
<1>3. Claims(g, p, k)
  BY <1>2
<1>4. BegunFor(k, p)
  BY <1>3, ClaimedRow
<1>5. 0 \in 0..1
  OBVIOUS
<1>6. QED BY <1>1, <1>2, <1>4, <1>5 DEF OwnRow, BegunFor

(* And the row that it clears or saves findings to.                         *)
LEMMA WrittenIsOwn ==
  ASSUME TypeOK, FillingOwnRow, NEW g \in Runs, NEW p \in Patches,
         Retry(g, p) \/ SaveFindings(g, p)
  PROVE  OwnRow(g, p)'
<1> HIDE PatchsetReviewAssumption DEF Runs, Ids
<1> job \in Jobs
  BY TypeParts DEF TasksOK
<1> DEFINE k == job[g][p].id
<1>1. job[g][p].at \in Filling /\ Writable(g, k)
  BY DEF Retry, SaveFindings, Filling
<1>2. k \in Ids /\ OwnRow(g, p)
  BY <1>1 DEF FillingOwnRow, OwnRow
<1>3. review[k] \in Review /\ review \in [Ids -> Review]
  BY <1>2 DEF TypeOK
<1>4. review[k].of = p /\ review[k].status \in {"In Review", "Failed"}
  BY <1>1, <1>2 DEF Writable, Exists, OwnRow
<1>5. 0 \in 0..1 /\ 1 \in 0..1
  OBVIOUS
<1>6. CASE Retry(g, p)
  <2>1. job'[g][p].at = "running" /\ job'[g][p].id = k
    BY <1>6, JobToAt, JobToKeeps DEF Retry
  <2>2. review'[k] = Cleared(review[k])
    BY <1>2, <1>3, <1>6 DEF Retry
  <2>3. BegunFor(k, p)
    BY <1>3, <1>4, <2>2 DEF BegunFor, Cleared, Review
  <2>4. QED BY <1>2, <1>5, <2>1, <2>3 DEF OwnRow, BegunFor
<1>7. CASE SaveFindings(g, p)
  <2>1. job'[g][p].at = "completing" /\ job'[g][p].id = k
    BY <1>7, JobToAt, JobToKeeps DEF SaveFindings
  <2>2. review[k].findings = 0
    BY <1>2, <1>7 DEF SaveFindings, OwnRow
  <2>3. review'[k] = [review[k] EXCEPT !.findings = 1]
    BY <1>2, <1>3, <1>7, <2>2 DEF SaveFindings
  <2>4. /\ review'[k].findings = 1 /\ review'[k].of = p
        /\ review'[k].status \in {"In Review", "Failed"}
    BY <1>3, <1>4, <2>3 DEF Review
  <2>5. QED BY <1>2, <1>5, <2>1, <2>4 DEF OwnRow
<1>8. QED BY <1>6, <1>7

(* The rows that jobs fill stay their own.                                  *)
LEMMA NextFilling == ASSUME IInv, Next PROVE FillingOwnRow'
<1> TypeOK /\ FillingOwnRow /\ DeletedBelow
  BY DEF IInv
<1> SUFFICES ASSUME NEW g \in Runs, NEW p \in Patches, job'[g][p].at \in Filling
             PROVE  OwnRow(g, p)'
  BY DEF FillingOwnRow
<1>1. CASE JobAndRows(g, p)
  BY <1>1, JobAndRowsEffect, ClaimedIsOwn, WrittenIsOwn
<1>2. CASE ~JobAndRows(g, p) /\ (JobOnly(g, p) \/ JobAndPatch(g, p))
  <2>1. UNCHANGED review
    BY <1>2, JobFrame
  <2>2. /\ job'[g][p].id = job[g][p].id /\ job'[g][p].at # "completing"
        /\ job[g][p].at \in {"running", "found", "skipped", "errored"}
    BY <1>2, JobOnlyEffect, JobAndPatchEffect
  <2>3. job[g][p].at \in Filling /\ job[g][p].at # "completing"
    BY <2>2 DEF Filling
  <2>4. OwnRow(g, p)
    BY <2>3 DEF FillingOwnRow
  <2>5. QED BY <2>1, <2>2, <2>3, <2>4 DEF OwnRow
<1>3. CASE job'[g][p] = job[g][p] /\ ~Restart
  BY <1>3, BystanderKeeps
<1>4. QED BY <1>1, <1>2, <1>3, FillerBefore DEF OwnStep

-----------------------------------------------------------------------------
(* Reviews: a row is completed by the job that fills it, and mails are of   *)
(* completed reviews.                                                      *)

Completes(g, p) == Complete(g, p) /\ job[g][p].at = "completing"

(* A row is Reviewed because it was, or because its job completes it now.   *)
LEMMA ReviewedFrom ==
  ASSUME IInv, Next, NEW i \in Ids, review'[i].status = "Reviewed"
  PROVE  \/ review'[i] = review[i]
         \/ \E g \in Runs, p \in Patches : Completes(g, p) /\ i = job[g][p].id
<1> TypeOK /\ DeletedBelow /\ FillingOwnRow
  BY DEF IInv
<1> review[i] \in Review
  BY DEF TypeOK
<1>e. \A s \in {"Failed", "Cancelled"} : EndedAs(review[i], s).status = s
  BY DEF EndedAs, Review
<1>1. CASE review'[i] = review[i]
  BY <1>1
<1>2. ~EndedByOther(i)
  BY <1>e DEF EndedByOther
<1>3. ~DeletedByRerun(i)
  BY DEF DeletedByRerun, Deleted, Unused
<1>4. CASE Restart
  BY <1>4 DEF Restart, Interrupt, Review
<1>5. ASSUME NEW g \in Runs, NEW p \in Patches, JobAndRows(g, p)
      PROVE  review'[i] = review[i] \/ (Completes(g, p) /\ i = job[g][p].id)
  <2>1. CASE ClaimReview(g, p) /\ i = job'[g][p].id
    <3>1. Claims(g, p, i)
      BY <2>1, ClaimReviewEffect
    <3>2. review'[i].status = "In Review"
      BY <3>1, ClaimedRow DEF BegunFor
    <3>3. QED BY <3>2
  <2>2. CASE /\ Retry(g, p) \/ SaveFindings(g, p) \/ Complete(g, p)
             /\ i = job[g][p].id
    <3>1. CASE Retry(g, p)
      <4>1. review'[i].status = "In Review"
        BY <2>2, <3>1, OwnRowWrite
      <4>2. QED BY <4>1
    <3>2. CASE SaveFindings(g, p)
      <4>1. /\ review'[i].status = review[i].status
            /\ review[i].status \in {"In Review", "Failed"}
        BY <2>2, <3>2, OwnRowWrite
      <4>2. QED BY <4>1
    <3>3. CASE Complete(g, p)
      <4>1. review'[i].status =
              CASE job[g][p].at = "completing" -> "Reviewed"
                [] job[g][p].at = "skipping" -> "Skipped"
                [] OTHER -> "Failed"
        BY <2>2, <3>3, OwnRowWrite
      <4>2. job[g][p].at = "completing"
        BY <4>1
      <4>3. QED BY <2>2, <3>3, <4>2 DEF Completes
    <3>4. QED BY <2>2, <3>1, <3>2, <3>3
  <2>3. \/ review'[i] = review[i]
        \/ EndedByOther(i)
        \/ /\ Retry(g, p) \/ SaveFindings(g, p) \/ Complete(g, p)
           /\ i = job[g][p].id
        \/ ClaimReview(g, p) /\ i = job'[g][p].id
    BY <1>5, JobRows
  <2>4. QED BY <1>2, <2>1, <2>2, <2>3
<1>6. ASSUME NEW g \in Runs, NEW p \in Patches,
             JobOnly(g, p) \/ JobAndPatch(g, p), ~JobAndRows(g, p)
      PROVE  review'[i] = review[i]
  BY <1>6, JobFrame
<1>7. CASE \/ People \/ Delivery \/ Claim
           \/ \E g \in Runs : Task(g) \/ Panic(g) \/ RunError(g)
  BY <1>1, <1>2, <1>3, <1>7, OtherRows DEF Taken
<1>8. QED BY <1>1, <1>4, <1>5, <1>6, <1>7, NextGroups

(* Completed reviews keep having the findings of one attempt.               *)
LEMMA NextFindings == ASSUME IInv, Next PROVE FindingsOfOneAttempt'
<1> TypeOK /\ FillingOwnRow /\ FindingsOfOneAttempt
  BY DEF IInv
<1> SUFFICES ASSUME NEW i \in Ids, review'[i].status = "Reviewed"
             PROVE  \/ review'[i].findings = 1
                    \/ TasksPanic /\ review'[i].findings = 0
  BY DEF FindingsOfOneAttempt
<1>1. CASE review'[i] = review[i]
  BY <1>1 DEF FindingsOfOneAttempt
<1>2. ASSUME NEW g \in Runs, NEW p \in Patches,
             Completes(g, p), i = job[g][p].id
      PROVE  \/ review'[i].findings = 1
             \/ TasksPanic /\ review'[i].findings = 0
  <2>1. review'[i].findings = review[i].findings
    BY <1>2, OwnRowWrite DEF Completes
  <2>2. ClaimActive(g)
    BY <1>2, OwnRowWrite DEF Completes
  <2>3. OwnRow(g, p) /\ job[g][p].at = "completing"
    BY <1>2 DEF Completes, FillingOwnRow, Filling
  <2>4. review[i].findings \in 0..1 /\ (review[i].findings = 1 \/ TasksPanic)
    BY <1>2, <2>2, <2>3 DEF OwnRow
  <2>5. review[i].findings = 0 \/ review[i].findings = 1
    BY <2>4
  <2>6. QED BY <2>1, <2>4, <2>5
<1>3. QED BY <1>1, <1>2, ReviewedFrom

(* A completed review of a patch stays one.                                *)
LEMMA SuccessesStay ==
  ASSUME IInv, Next, NEW p \in Patches
  PROVE  Successes(p) \subseteq Successes(p)'
BY DeletedStays DEF Successes

(* Who notifies has a completed review.                                     *)
LEMMA NextNotifies == ASSUME IInv, Next PROVE NotifiesReview'
<1> TypeOK /\ FillingOwnRow /\ NotifiesReview
  BY DEF IInv
<1> job \in Jobs
  BY TypeParts DEF TasksOK
<1> SUFFICES ASSUME NEW g \in Runs, NEW p \in Patches,
                    job'[g][p].at \in {"notifying", "closing"}
             PROVE  job'[g][p].id \in Successes(p)'
  BY DEF NotifiesReview
<1>1. CASE job'[g][p] = job[g][p]
  BY <1>1, SuccessesStay DEF NotifiesReview
<1>2. CASE Inspect(g, p)
  <2>1. AtLeast(Successes(p), target) /\ UNCHANGED review
        /\ job' = [job EXCEPT ![g][p] =
                     [JobAt("notifying") EXCEPT !.id = Newest(Successes(p))]]
    <3>1. \A s : JobTo(g, p, s) => job'[g][p].at = s
      BY JobToAt
    <3>2. ~JobTo(g, p, "closeFailed") /\ ~JobTo(g, p, "claiming")
      BY <3>1
    <3>3. QED BY <1>2, <3>2 DEF Inspect, rows
  <2>2. job'[g][p].id = Newest(Successes(p))
    BY <2>1 DEF Jobs, JobAt
  <2>3. 1 \in 1..target
    BY DEF TypeOK
  <2>4. Successes(p) # {} /\ Successes(p) \in SUBSET Ids
    BY <2>1, <2>3 DEF AtLeast, Successes
  <2>5. Newest(Successes(p)) \in Successes(p)
    BY <2>4, NewestIn
  <2>6. QED BY <2>1, <2>2, <2>5 DEF Successes
<1>3. CASE Complete(g, p)
  <2>1. JobTo(g, p, "notifying") /\ job[g][p].at = "completing"
    <3>1. \A s : JobTo(g, p, s) => job'[g][p].at = s
      BY JobToAt
    <3>2. ~JobTo(g, p, "closeFailed") /\ ~JobTo(g, p, "closeSkipped")
      BY <3>1
    <3>3. QED BY <1>3, <3>2 DEF Complete
  <2>2. PICK k \in Ids : k = job[g][p].id
    BY <1>3, OwnRowWrite
  <2>3. job'[g][p].id = k
    BY <2>1, <2>2, JobToKeeps
  <2>4. review'[k].of = p
    BY <1>3, <2>2, OwnRowWrite
  <2>5. review'[k].status =
          CASE job[g][p].at = "completing" -> "Reviewed"
            [] job[g][p].at = "skipping" -> "Skipped"
            [] OTHER -> "Failed"
    BY <1>3, <2>2, OwnRowWrite
  <2>6. review'[k].status = "Reviewed"
    BY <2>1, <2>5
  <2>7. QED BY <2>3, <2>4, <2>6 DEF Successes
<1>4. CASE Notify(g, p)
  <2>1. job[g][p].at = "notifying" /\ UNCHANGED review
    BY <1>4 DEF Notify, rows
  <2>2. job'[g][p].id = job[g][p].id
    BY <1>4, JobToKeeps DEF Notify
  <2>3. QED BY <2>1, <2>2, SuccessesStay DEF NotifiesReview
<1>5. ASSUME \/ ClaimReview(g, p) \/ Retry(g, p) \/ SaveFindings(g, p)
             \/ Abort(g, p) \/ JobPanic(g, p)
      PROVE  FALSE
  <2>1. CASE ClaimReview(g, p)
    BY <2>1, ClaimReviewEffect
  <2>2. CASE Retry(g, p) \/ SaveFindings(g, p) \/ Abort(g, p)
    <3>1. \/ JobTo(g, p, "running") \/ JobTo(g, p, "completing")
          \/ JobTo(g, p, "abortingPatch")
      BY <2>2 DEF Retry, SaveFindings, Abort
    <3>2. \A s : JobTo(g, p, s) => job'[g][p].at = s
      BY JobToAt
    <3>3. QED BY <3>1, <3>2
  <2>3. CASE JobPanic(g, p)
    <3>1. Drop(g, p, "dropped") \/ JobEnds(g, p, "failed")
      BY <2>3 DEF JobPanic
    <3>2. job'[g][p].at \in {"dropped", "failed"}
      BY <3>1, JobEffects
    <3>3. QED BY <3>2
  <2>4. QED BY <1>5, <2>1, <2>2, <2>3
<1>6. CASE OwnStep(g, p)
  BY <1>2, <1>3, <1>4, <1>5, <1>6, JobOnlyEffect, JobAndPatchEffect
  DEF OwnStep, JobAndRows
<1>7. QED BY <1>1, <1>6, FillerBefore

(* A mail changes its text only when a job notifies of a review.           *)
MailKept(p) ==
    \/ mail'[p].status = "none"
    \/ mail[p].status # "none" /\ mail'[p].review = mail[p].review

(* Deleting mails changes no text.                                          *)
LEMMA MailWithoutKeeps ==
  ASSUME TypeOK, NEW S, NEW p \in Patches, mail'[p] = MailWithout(S)[p]
  PROVE  MailKept(p)
<1>1. mail'[p] \in {mail[p], NoMail}
  BY MailWithoutAdds
<1>2. QED BY <1>1 DEF MailKept, NoMail

(* Nor does cancelling them.                                                *)
LEMMA CancelOutboxKeeps ==
  ASSUME TypeOK, CancelOutbox, NEW p \in Patches
  PROVE  MailKept(p)
<1>1. mail[p] \in Mail
  BY DEF TypeOK
<1>2. \/ mail'[p] = mail[p]
      \/ /\ mail[p].status \in Unsent
         /\ mail'[p] = [mail[p] EXCEPT !.status = "Cancelled"]
  BY DEF CancelOutbox
<1>3. QED BY <1>1, <1>2 DEF MailKept, Mail, Unsent

(* Nor does any step but the notification.                                  *)
LEMMA StepMail ==
  ASSUME TypeOK, Next, NEW p \in Patches
  PROVE  \/ MailKept(p)
         \/ \E g \in Runs : /\ job[g][p].at = "notifying"
                           /\ mail'[p].review = job[g][p].id
                           /\ UNCHANGED review
<1>0. mail[p] \in Mail /\ mail \in [Patches -> Mail]
  BY DEF TypeOK
<1>1. mail'[p] = mail[p] => MailKept(p)
  BY DEF MailKept
<1>2. CASE People
  <2>1. CASE Ingest
    BY <1>1, <2>1 DEF Ingest, outbox
  <2>2. CASE Supersede \/ \E force \in BOOLEAN : Cancel(force)
    BY <2>2, CancelOutboxKeeps DEF Supersede, Cancel
  <2>3. CASE Rerun \/ Refetch
    <3>1. \E S : mail' = MailWithout(S)
      BY <2>3 DEF Rerun, Refetch, ResetReviewState
    <3>2. QED BY <3>1, MailWithoutKeeps
  <2>4. QED BY <1>2, <2>1, <2>2, <2>3 DEF People
<1>3. CASE Restart \/ Claim
  BY <1>1, <1>3 DEF Restart, Claim, outbox
<1>4. CASE Delivery
  <2>1. CASE SendComment
    BY <1>1, <2>1 DEF SendComment
  <2>2. ASSUME NEW q \in Patches, SendMail(q) PROVE MailKept(p)
    <3>1. CASE p # q
      BY <1>0, <1>1, <2>2, <3>1 DEF SendMail
    <3>2. CASE p = q
      BY <1>0, <2>2, <3>2 DEF SendMail, MailKept, Mail, Unsent
    <3>3. QED BY <3>1, <3>2
  <2>3. QED BY <1>4, <2>1, <2>2 DEF Delivery
<1>5. ASSUME NEW g \in Runs, Task(g) \/ Panic(g) \/ RunError(g) PROVE MailKept(p)
  <2>1. CASE FailOrphans(g)
    <3>1. \E S : mail' = MailWithout(S)
      BY <2>1 DEF FailOrphans
    <3>2. QED BY <3>1, MailWithoutKeeps
  <2>2. CASE ~FailOrphans(g)
    BY <1>1, <1>5, <2>2 DEF Task, Start, NoBaseline, AllEnded, Conclude, Post,
       Release, Panic, RunError, outbox
  <2>3. QED BY <2>1, <2>2
<1>6. ASSUME NEW g \in Runs, NEW q \in Patches, JobAndRows(g, q)
      PROVE  \/ MailKept(p)
             \/ /\ job[g][p].at = "notifying" /\ UNCHANGED review
                /\ mail'[p].review = job[g][p].id
  <2>1. CASE Notify(g, q)
    <3>1. CASE UNCHANGED mail
      BY <1>1, <3>1
    <3>2. CASE mail' = [mail EXCEPT ![q] = [status |-> "Pending",
                                            review |-> job[g][q].id]]
      <4>1. CASE p = q
        BY <1>0, <2>1, <3>2, <4>1 DEF Notify, rows
      <4>2. CASE p # q
        BY <1>0, <1>1, <3>2, <4>2
      <4>3. QED BY <4>1, <4>2
    <3>3. QED BY <2>1, <3>1, <3>2 DEF Notify
  <2>2. CASE SaveFindings(g, q) \/ Complete(g, q)
    BY <1>1, <2>2 DEF SaveFindings, Complete, outbox
  <2>3. CASE ClaimReview(g, q) \/ Retry(g, q) \/ Abort(g, q) \/ JobPanic(g, q)
    <3>1. UNCHANGED mail \/ \E S : mail' = MailWithout(S)
      BY <2>3 DEF ClaimReview, Retry, Abort, JobPanic
    <3>2. QED BY <1>1, <3>1, MailWithoutKeeps
  <2>4. QED BY <1>6, <2>1, <2>2, <2>3 DEF JobAndRows
<1>7. ASSUME NEW g \in Runs, NEW q \in Patches,
             JobOnly(g, q) \/ JobAndPatch(g, q), ~JobAndRows(g, q)
      PROVE  MailKept(p)
  BY <1>1, <1>7, JobFrame
<1>8. QED BY <1>2, <1>3, <1>4, <1>5, <1>6, <1>7, NextGroups DEF MailKept

(* MailRows keep having the text of completed reviews.                         *)
LEMMA NextMail == ASSUME IInv, Next PROVE MailReportsReview'
<1> TypeOK /\ MailReportsReview /\ NotifiesReview
  BY DEF IInv
<1> SUFFICES ASSUME NEW p \in Patches, mail'[p].status # "none"
             PROVE  mail'[p].review \in Successes(p)'
  BY DEF MailReportsReview
<1>1. CASE MailKept(p)
  <2>1. mail[p].status # "none" /\ mail'[p].review = mail[p].review
    BY <1>1 DEF MailKept
  <2>2. mail[p].review \in Successes(p)
    BY <2>1 DEF MailReportsReview
  <2>3. QED BY <2>1, <2>2, SuccessesStay
<1>2. ASSUME NEW g \in Runs, job[g][p].at = "notifying",
             mail'[p].review = job[g][p].id
      PROVE  mail'[p].review \in Successes(p)'
  <2>1. job[g][p].id \in Successes(p)
    BY <1>2 DEF NotifiesReview
  <2>2. QED BY <1>2, <2>1, SuccessesStay
<1>3. QED BY <1>1, <1>2, StepMail

-----------------------------------------------------------------------------
(* Patches: who writes them, and what a run has marked when it concludes.   *)

(* A patch is written by its job while the run has its claim, or put to     *)
(* Cancelled with the patchset.                                            *)
JobPatches(g, p) ==
    \A q \in Patches :
      \/ patch'[q] = patch[q]
      \/ /\ q = p /\ ClaimActive(g)
         /\ patch'[q] \in {"Reviewed", "Skipped", "Failed", "Pending", "applied",
                           "error"}
      \/ q = p /\ status = "Cancelled" /\ patch'[q] = "Cancelled"

(* Every step of a job is such.                                             *)
LEMMA JobWritesPatch ==
  ASSUME TypeOK, NEW g \in Runs, NEW p \in Patches,
         JobOnly(g, p) \/ JobAndPatch(g, p) \/ JobAndRows(g, p)
  PROVE  JobPatches(g, p)
<1> patch \in [Patches -> PatchStatus]
  BY DEF TypeOK
<1>0. UNCHANGED patch => JobPatches(g, p)
  BY DEF JobPatches
<1>1. ASSUME NEW s \in {"Reviewed", "Skipped", "Failed"}, SetPatch(g, p, s)
      PROVE  JobPatches(g, p)
  BY <1>1 DEF SetPatch, JobPatches
<1>2. CASE JobOnly(g, p)
  BY <1>0, <1>2 DEF JobOnly, Look, Inspect, Judge, FindOut, JobError, rows
<1>3. CASE Filter(g, p) \/ Close(g, p)
  BY <1>1, <1>3 DEF Filter, Close
<1>4. CASE ToolEnds(g, p)
  <2>1. \/ UNCHANGED patch
        \/ /\ ClaimActive(g)
           /\ \E s \in {"Pending", "applied", "error"} :
                patch' = [patch EXCEPT ![p] = s]
    BY <1>4 DEF ToolEnds
  <2>2. QED BY <1>0, <2>1 DEF JobPatches
<1>5. CASE AbortPatch(g, p)
  <2>1. \/ UNCHANGED patch
        \/ status = "Cancelled" /\ patch' = [patch EXCEPT ![p] = "Cancelled"]
    BY <1>5 DEF AbortPatch
  <2>2. QED BY <1>0, <2>1 DEF JobPatches
<1>6. CASE JobPanic(g, p)
  <2>1. UNCHANGED patch \/ SetPatch(g, p, "Reviewed") \/ SetPatch(g, p, "Failed")
    BY <1>6 DEF JobPanic
  <2>2. QED BY <1>0, <1>1, <2>1
<1>7. CASE \/ ClaimReview(g, p) \/ Retry(g, p) \/ SaveFindings(g, p)
           \/ Complete(g, p) \/ Notify(g, p) \/ Abort(g, p)
  BY <1>0, <1>7
  DEF ClaimReview, Retry, SaveFindings, Complete, Notify, Abort, rows
<1>8. QED BY <1>2, <1>3, <1>4, <1>5, <1>6, <1>7 DEF JobAndPatch, JobAndRows

(* The other steps leave patches alone, but for the people's.              *)
LEMMA OtherPatches ==
  ASSUME \/ Restart \/ Delivery \/ Claim \/ Ingest \/ Supersede
         \/ \E g \in Runs : Task(g) \/ Panic(g) \/ RunError(g)
  PROVE  UNCHANGED patch
<1>1. CASE Restart \/ Delivery \/ Claim \/ Ingest \/ Supersede
  BY <1>1 DEF Restart, Delivery, SendMail, SendComment, Claim, Ingest, Supersede, rows
<1>2. ASSUME NEW g \in Runs, Task(g) \/ Panic(g) \/ RunError(g)
      PROVE  UNCHANGED patch
  BY <1>2 DEF Task, Start, NoBaseline, AllEnded, FailOrphans, Conclude, Post,
     Release, Panic, RunError, rows
<1>3. QED BY <1>1, <1>2

(* cancel_patchset puts patches to Cancelled or leaves them.                *)
LEMMA CancelPatches ==
  ASSUME TypeOK, NEW force \in BOOLEAN, Cancel(force), NEW p \in Patches
  PROVE  /\ status' = "Cancelled" /\ active' = 0
         /\ patch'[p] = patch[p] \/ patch'[p] = "Cancelled"
BY DEF Cancel

(* A rerun and another fetch leave no patch Cancelled.                      *)
LEMMA ResetPatches ==
  ASSUME TypeOK, Rerun \/ Refetch, NEW p \in Patches
  PROVE  /\ status' \in {"Pending", "Fetching"} /\ active' = 0
         /\ patch'[p] # "Cancelled"
         /\ patch'[p] = patch[p] \/ patch'[p] = "Pending"
<1>1. ResetReviewState /\ status' \in {"Pending", "Fetching"}
  BY DEF Rerun, Refetch
<1>2. active' = 0
  BY <1>1 DEF ResetReviewState
<1>3. patch'[p] = IF \/ patch[p] \in {"Failed", "Cancelled", "error"}
                     \/ patch[p] = "applied" /\ Successes(p) = {}
                  THEN "Pending" ELSE patch[p]
  BY <1>1 DEF ResetReviewState
<1>4. QED BY <1>1, <1>2, <1>3

(* Only a rerun or another fetch takes a patchset out of Cancelled.        *)
LEMMA CancelledStays ==
  ASSUME Next, status = "Cancelled"
  PROVE  status' = "Cancelled" \/ Rerun \/ Refetch
<1>1. CASE People \/ Restart \/ Delivery \/ Claim
  BY <1>1 DEF People, Ingest, Supersede, Cancel, Restart, Delivery, SendMail,
     SendComment, Claim, set
<1>2. ASSUME NEW g \in Runs, Task(g) \/ Panic(g) \/ RunError(g)
      PROVE  status' = status
  BY <1>2 DEF Task, Start, NoBaseline, AllEnded, FailOrphans, Conclude, Post,
     Release, Panic, RunError, CompletePatchset, ClaimActive, set
<1>3. QED BY <1>1, <1>2, JobFrame, NextGroups

(* A run concludes when all its jobs went well.                            *)
LEMMA ConcludesWhenOk ==
  ASSUME TypeOK, Next, NEW g \in Runs, run'[g] = "concluding"
  PROVE  run[g] = "concluding" \/ (AllEnded(g) /\ AllOk(g))
<1>1. CASE run'[g] = run[g]
  BY <1>1
<1>2. CASE People \/ Delivery
  BY <1>1, <1>2 DEF People, Ingest, Supersede, Rerun, Refetch, Cancel, Delivery,
     SendMail, SendComment, tasks
<1>3. CASE Restart
  BY <1>3 DEF Restart, Interrupt
<1>r. \A h \in Runs : \A s : RunTo(h, s) => run'[g] = run[g] \/ (h = g /\ run'[g] = s)
  BY DEF RunTo, TypeOK
<1>4. CASE Claim
  <2>1. run'[g] = run[g] \/ run'[g] = "starting"
    BY <1>4 DEF Claim, RunTo, TypeOK
  <2>2. QED BY <1>1, <2>1
<1>5. ASSUME NEW h \in Runs, Task(h) \/ Panic(h) \/ RunError(h)
      PROVE  run[g] = "concluding" \/ (AllEnded(g) /\ AllOk(g))
  <2>1. CASE AllEnded(h)
    <3>1. \/ AllOk(h) /\ RunTo(h, "concluding")
          \/ RunTo(h, "releasing") \/ RunTo(h, "settling")
      BY <2>1 DEF AllEnded
    <3>2. QED BY <1>1, <1>r, <2>1, <3>1
  <2>2. CASE ~AllEnded(h)
    <3>1. \E s \in RunStage \ {"concluding"} : RunTo(h, s)
      BY <1>5, <2>2, RunNames
      DEF Task, Start, NoBaseline, FailOrphans, Conclude, Post, Release, Panic,
          RunError
    <3>2. QED BY <1>1, <1>r, <3>1
  <2>3. QED BY <2>1, <2>2
<1>6. QED BY <1>1, <1>2, <1>3, <1>4, <1>5, JobFrame, NextGroups

(* The patches of jobs that went well stay marked while their run has its
   claim.                                                                   *)
LEMMA NextMarked == ASSUME IInv, Next PROVE OkIsMarked'
<1> TypeOK /\ OkIsMarked /\ JobsHaveTask /\ ClaimsInOrder
  BY DEF IInv
<1> job \in Jobs
  BY TypeParts DEF TasksOK
<1>1. ASSUME NEW p \in Patches, patch'[p] = "Cancelled" PROVE status' = "Cancelled"
  <2>0. ~Rerun /\ ~Refetch
    BY <1>1, ResetPatches
  <2>1. CASE patch'[p] = patch[p]
    BY <1>1, <2>0, <2>1, CancelledStays DEF OkIsMarked
  <2>2. CASE status = "Cancelled"
    BY <2>0, <2>2, CancelledStays
  <2>3. ASSUME NEW force \in BOOLEAN, Cancel(force) PROVE status' = "Cancelled"
    BY <2>3 DEF Cancel
  <2>4. ASSUME NEW g \in Runs, NEW q \in Patches,
               JobOnly(g, q) \/ JobAndPatch(g, q) \/ JobAndRows(g, q)
        PROVE  patch'[p] = patch[p] \/ status = "Cancelled"
    BY <1>1, <2>4, JobWritesPatch DEF JobPatches
  <2>5. QED
    BY <2>0, <2>1, <2>2, <2>3, <2>4, OtherPatches, NextGroups DEF People
<1>2. ASSUME NEW g \in Runs, NEW p \in Patches, ClaimActive(g)',
             job'[g][p].at = "ok" \/ run'[g] = "concluding", ~WritesFail
      PROVE  patch'[p] \in {"Reviewed", "Skipped"}
  <2>0. g # 0
    OBVIOUS
  <2>1. CASE Claim
    <3>1. active' = lastGen + 1 /\ UNCHANGED job /\ RunTo(lastGen + 1, "starting")
      BY <2>1 DEF Claim, NextGen
    <3>2. g = lastGen + 1 /\ lastGen \in Int
      <4>1. g = lastGen + 1
        BY <1>2, <3>1 DEF ClaimActive
      <4>2. lastGen \in 0..MaxRuns
        BY DEF TypeOK
      <4>3. QED BY <4>1, <4>2
    <3>3. ~(g <= lastGen)
      BY <3>2
    <3>4. run[g] = "none"
      BY <3>3 DEF ClaimsInOrder
    <3>5. run'[g] = "starting" /\ job'[g][p].at = "none"
      BY <3>1, <3>2, <3>4, RunToEffect DEF JobsHaveTask
    <3>6. QED BY <1>2, <3>5
  <2>2. CASE ~Claim
    <3>1. /\ ClaimActive(g) /\ active' # 0 /\ status = "In Review"
          /\ status' # "Cancelled"
      BY <1>2, <2>0, <2>2, StepClaims DEF NothingClaimed, ClaimActive
    <3>2. ~Rerun /\ ~Refetch /\ ~Restart /\ \A force \in BOOLEAN : ~Cancel(force)
      BY <3>1 DEF Rerun, Refetch, ResetReviewState, Restart, Cancel
    <3>3. ASSUME job[g][p].at = "ok" \/ run[g] = "concluding", patch'[p] = patch[p]
          PROVE  patch'[p] \in {"Reviewed", "Skipped"}
      BY <1>2, <3>1, <3>3 DEF OkIsMarked
    <3>4. CASE \/ People \/ Delivery
               \/ \E h \in Runs : Task(h) \/ Panic(h) \/ RunError(h)
      <4>1. UNCHANGED patch
        BY <3>2, <3>4, OtherPatches DEF People
      <4>2. job'[g][p].at = "ok" => job[g][p].at = "ok"
        BY <3>4, OtherJobs
      <4>3. CASE AllEnded(g) /\ AllOk(g)
        BY <3>3, <4>1, <4>3 DEF AllOk
      <4>4. QED BY <1>2, <3>3, <4>1, <4>2, <4>3, ConcludesWhenOk
    <3>5. ASSUME NEW h \in Runs, NEW q \in Patches,
                 JobOnly(h, q) \/ JobAndPatch(h, q) \/ JobAndRows(h, q)
          PROVE  patch'[p] \in {"Reviewed", "Skipped"}
      <4>1. JobPatches(h, q) /\ run' = run /\ OthersKept(h, q)
            /\ job[h][q].at # "none"
        BY <3>5, JobWritesPatch, JobFrame, JobOnlyEffect, JobAndPatchEffect,
           JobAndRowsEffect
      <4>2. CASE h = g /\ q = p
        <5>1. job'[g][p].at = "ok"
          BY <1>2, <4>1, <4>2 DEF JobsHaveTask
        <5>2. Filter(g, p) \/ Close(g, p)
          BY <1>2, <3>5, <4>2, <5>1, JobOnlyEffect, JobAndPatchEffect,
             JobAndRowsEffect
        <5>3. SetPatch(g, p, "Skipped") \/ SetPatch(g, p, "Reviewed")
          <6>1. JobEnds(g, p, "failed") => job'[g][p].at = "failed"
            BY JobEffects
          <6>2. QED BY <5>1, <5>2, <6>1 DEF Filter, Close
        <5>4. patch[p] # "Cancelled" /\ patch \in [Patches -> PatchStatus]
          BY <3>1 DEF OkIsMarked, TypeOK
        <5>5. QED BY <3>1, <5>3, <5>4 DEF SetPatch
      <4>3. CASE h = g /\ q # p
        <5>1. job'[g][p].at = "ok" /\ patch'[p] = patch[p]
          BY <1>2, <4>1, <4>3 DEF JobsHaveTask, JobPatches
        <5>2. job[g][p].at = "ok"
          BY <4>1, <4>3, <5>1 DEF OthersKept
        <5>3. QED BY <3>3, <5>1, <5>2
      <4>4. CASE h # g
        <5>1. patch'[p] = patch[p]
          BY <3>1, <4>1, <4>4 DEF JobPatches, ClaimActive
        <5>2. job'[g][p].at = "ok" => job[g][p].at = "ok"
          BY <4>1, <4>4 DEF OthersKept
        <5>3. QED BY <1>2, <3>3, <4>1, <5>1, <5>2
      <4>5. QED BY <4>2, <4>3, <4>4
    <3>6. QED BY <2>2, <3>2, <3>4, <3>5, NextGroups
  <2>3. QED BY <2>1, <2>2
<1>3. QED BY <1>1, <1>2 DEF OkIsMarked

(* A patch that becomes Reviewed has a completed review.                   *)
LEMMA ReviewedFromSuccess ==
  ASSUME IInv, NEW g \in Runs, NEW p \in Patches,
         JobOnly(g, p) \/ JobAndPatch(g, p) \/ JobAndRows(g, p),
         NEW q \in Patches, patch'[q] = "Reviewed"
  PROVE  patch[q] = "Reviewed" \/ (q = p /\ Successes(p) # {})
<1> TypeOK /\ NotifiesReview
  BY DEF IInv
<1> patch \in [Patches -> PatchStatus]
  BY DEF TypeOK
<1>1. CASE patch'[q] = patch[q]
  BY <1>1
<1>2. CASE Close(g, p)
  <2>1. CASE job[g][p].at = "closing"
    <3>1. Successes(p) # {}
      BY <2>1 DEF NotifiesReview
    <3>2. q = p \/ patch'[q] = patch[q]
      BY <1>2, JobWritesPatch DEF JobAndPatch, JobPatches
    <3>3. QED BY <1>1, <3>1, <3>2
  <2>2. CASE job[g][p].at # "closing"
    <3>1. SetPatch(g, p, "Skipped") \/ SetPatch(g, p, "Failed")
      BY <1>2, <2>2 DEF Close
    <3>2. QED BY <1>1, <3>1 DEF SetPatch
  <2>3. QED BY <2>1, <2>2
<1>3. CASE Filter(g, p)
  BY <1>1, <1>3 DEF Filter, SetPatch
<1>4. CASE ToolEnds(g, p)
  <2>1. \/ UNCHANGED patch
        \/ \E s \in {"Pending", "applied", "error"} :
             patch' = [patch EXCEPT ![p] = s]
    BY <1>4 DEF ToolEnds
  <2>2. QED BY <1>1, <2>1
<1>5. CASE AbortPatch(g, p)
  BY <1>1, <1>5 DEF AbortPatch
<1>6. CASE JobPanic(g, p)
  <2>1. CASE UNCHANGED patch
    BY <1>1, <2>1
  <2>2. CASE SetPatch(g, p, "Failed")
    BY <1>1, <2>2 DEF SetPatch
  <2>3. CASE ~UNCHANGED patch /\ ~SetPatch(g, p, "Failed")
    <3>1. RowsOf(p) # {} /\ review[Newest(RowsOf(p))].status = "Reviewed"
      BY <1>6, <2>3 DEF JobPanic
    <3>2. Newest(RowsOf(p)) \in RowsOf(p)
      <4>1. RowsOf(p) \in SUBSET Ids
        BY DEF RowsOf
      <4>2. QED BY <3>1, <4>1, NewestIn
    <3>3. Successes(p) # {}
      BY <3>1, <3>2 DEF RowsOf, Successes
    <3>4. q = p \/ patch'[q] = patch[q]
      BY <1>6, JobWritesPatch DEF JobAndRows, JobPatches
    <3>5. QED BY <1>1, <3>3, <3>4
  <2>4. QED BY <2>1, <2>2, <2>3
<1>7. CASE JobOnly(g, p)
  BY <1>1, <1>7 DEF JobOnly, Look, Inspect, Judge, FindOut, JobError, rows
<1>8. CASE \/ ClaimReview(g, p) \/ Retry(g, p) \/ SaveFindings(g, p)
           \/ Complete(g, p) \/ Notify(g, p) \/ Abort(g, p)
  BY <1>1, <1>8
  DEF ClaimReview, Retry, SaveFindings, Complete, Notify, Abort, rows
<1>9. QED
  BY <1>2, <1>3, <1>4, <1>5, <1>6, <1>7, <1>8 DEF JobAndPatch, JobAndRows

(* A patchset becomes Reviewed when a run concludes.                       *)
LEMMA ReviewedByConclude ==
  ASSUME Next, status' = "Reviewed"
  PROVE  \/ status = "Reviewed" /\ ~Rerun /\ ~Refetch
            /\ \A force \in BOOLEAN : ~Cancel(force)
         \/ \E g \in Runs : /\ Conclude(g) /\ run[g] = "concluding"
                           /\ ClaimActive(g)
<1>1. CASE People \/ Restart \/ Delivery \/ Claim
  BY <1>1 DEF People, Ingest, Supersede, Rerun, Refetch, Cancel, Restart,
     Delivery, SendMail, SendComment, Claim, set
<1>0. ~Rerun /\ ~Refetch /\ \A force \in BOOLEAN : ~Cancel(force)
  BY DEF Rerun, Refetch, Cancel
<1>2. ASSUME NEW g \in Runs, Task(g) \/ Panic(g) \/ RunError(g)
      PROVE  \/ status = "Reviewed"
             \/ Conclude(g) /\ run[g] = "concluding" /\ ClaimActive(g)
  <2>1. CASE Conclude(g)
    BY <2>1 DEF Conclude, CompletePatchset
  <2>2. CASE NoBaseline(g)
    BY <2>2 DEF NoBaseline, CompletePatchset
  <2>3. CASE ~Conclude(g) /\ ~NoBaseline(g)
    BY <1>2, <2>3 DEF Task, Start, AllEnded, FailOrphans, Post,
       Release, Panic, RunError, set
  <2>4. QED BY <2>1, <2>2, <2>3
<1>3. QED BY <1>0, <1>1, <1>2, JobFrame, NextGroups

(* What counts as reviewed keeps having completed reviews.                  *)
LEMMA NextReviewed == ASSUME IInv, Next PROVE ReviewedMeansReviewed'
<1> TypeOK /\ ReviewedMeansReviewed /\ OkIsMarked
  BY DEF IInv
<1>1. ASSUME NEW p \in Patches, patch'[p] = "Reviewed" PROVE Successes(p)' # {}
  <2>1. patch[p] = "Reviewed" \/ Successes(p) # {}
    <3>1. CASE patch'[p] = patch[p]
      BY <1>1, <3>1
    <3>2. ASSUME NEW force \in BOOLEAN, Cancel(force) PROVE patch'[p] = patch[p]
      BY <1>1, <3>2, CancelPatches
    <3>3. CASE Rerun \/ Refetch
      BY <1>1, <3>3, ResetPatches
    <3>4. ASSUME NEW g \in Runs, NEW q \in Patches,
                 JobOnly(g, q) \/ JobAndPatch(g, q) \/ JobAndRows(g, q)
          PROVE  patch[p] = "Reviewed" \/ Successes(p) # {}
      BY <1>1, <3>4, ReviewedFromSuccess
    <3>5. QED BY <3>1, <3>2, <3>3, <3>4, OtherPatches, NextGroups DEF People
  <2>2. Successes(p) # {}
    BY <2>1 DEF ReviewedMeansReviewed
  <2>3. QED BY <2>2, SuccessesStay
<1>2. ASSUME status' = "Reviewed", ~WritesFail, NEW p \in Patches
      PROVE  patch'[p] \in {"Reviewed", "Skipped"}
  <2>1. CASE /\ status = "Reviewed" /\ ~Rerun /\ ~Refetch
             /\ \A force \in BOOLEAN : ~Cancel(force)
    <3>1. patch[p] \in {"Reviewed", "Skipped"}
      BY <1>2, <2>1 DEF ReviewedMeansReviewed
    <3>2. ASSUME NEW g \in Runs, NEW q \in Patches,
                 JobOnly(g, q) \/ JobAndPatch(g, q) \/ JobAndRows(g, q)
          PROVE  patch'[p] = patch[p]
      BY <2>1, <3>2, JobWritesPatch DEF JobPatches, ClaimActive
    <3>3. patch'[p] = patch[p]
      BY <2>1, <3>2, OtherPatches, NextGroups DEF People
    <3>4. QED BY <3>1, <3>3
  <2>2. ASSUME NEW g \in Runs, Conclude(g), run[g] = "concluding", ClaimActive(g)
        PROVE  patch'[p] \in {"Reviewed", "Skipped"}
    <3>1. patch[p] \in {"Reviewed", "Skipped"}
      BY <1>2, <2>2 DEF OkIsMarked
    <3>2. UNCHANGED patch
      BY <2>2 DEF Conclude, rows
    <3>3. QED BY <3>1, <3>2
  <2>3. QED BY <1>2, <2>1, <2>2, ReviewedByConclude
<1>3. QED BY <1>1, <1>2 DEF ReviewedMeansReviewed

-----------------------------------------------------------------------------
(* The invariant holds in the beginning.                                   *)
LEMMA InitIInv == Init => IInv
<1> SUFFICES ASSUME Init PROVE IInv
  OBVIOUS
<1>n. /\ "Incomplete" \in PatchsetStatus /\ "Pending" \in PatchStatus
      /\ "unused" \in ReviewStatus /\ "none" \in OutboxStatus
      /\ "none" \in RunStage /\ "none" \in JobStage
  BY DEF PatchsetStatus, PatchStatus, ReviewStatus, OutboxStatus, RunStage, JobStage
<1>0. 0 \in 0..MaxRuns /\ 0 \in 0..MaxReviews /\ 1 \in 1..(MaxRuns + 1)
      /\ 0 \in 0..MaxRetries /\ 0 \in 0..2
  OBVIOUS
<1>j. \A g \in Runs, p \in Patches : job[g][p] = JobAt("none") /\ job[g][p].at = "none"
  BY DEF Init, JobAt
<1>r. \A i \in Ids : review[i] = Unused /\ review[i].status = "unused"
  BY DEF Init, Unused
<1>1. TypeOK
  <2>1. Unused \in Review
    BY <1>n, <1>0 DEF Unused, Review
  <2>2. NoMail \in Mail /\ NoComment \in Comment
    BY <1>n DEF NoMail, Mail, NoComment, Comment
  <2>3. JobAt("none") \in Job
    BY <1>n, <1>0 DEF JobAt, Job
  <2>4. review \in [Ids -> Review] /\ mail \in [Patches -> Mail]
        /\ comment \in Comment
    BY <2>1, <2>2 DEF Init
  <2>5. run \in [Runs -> RunStage] /\ job \in [Runs -> [Patches -> Job]]
    BY <1>n, <2>3 DEF Init
  <2>6. target \in 1..(MaxRuns + 1) /\ active \in 0..MaxRuns
        /\ lastGen \in 0..MaxRuns /\ maxId \in 0..MaxReviews
    BY <1>0 DEF Init
  <2>7. status \in PatchsetStatus /\ patch \in [Patches -> PatchStatus]
    BY <1>n DEF Init
  <2>8. QED BY <2>4, <2>5, <2>6, <2>7 DEF TypeOK
<1>2. ClaimsInOrder
  BY DEF Init, ClaimsInOrder
<1>3. PostsWhenDecided /\ JobsHaveTask
  BY <1>j DEF Init, PostsWhenDecided, JobsHaveTask
<1>4. CommentIsCurrent /\ CancelledIsQuiet
  BY DEF Init, CommentIsCurrent, CancelledIsQuiet, NoComment
<1>5. DeletedBelow /\ FindingsOfOneAttempt
  BY <1>r DEF DeletedBelow, FindingsOfOneAttempt
<1>6. NeverShared /\ FillingOwnRow /\ NotifiesReview
  BY <1>j DEF NeverShared, FillingOwnRow, NotifiesReview, Filling
<1>7. MailReportsReview
  BY DEF Init, MailReportsReview, NoMail
<1>8. OkIsMarked /\ ReviewedMeansReviewed
  BY <1>j DEF Init, OkIsMarked, ReviewedMeansReviewed
<1>9. QED
  BY <1>1, <1>2, <1>3, <1>4, <1>5, <1>6, <1>7, <1>8 DEF IInv

(* And is kept by a step in which nothing happens.                         *)
LEMMA StutterIInv == IInv /\ UNCHANGED vars => IInv'
<1> SUFFICES ASSUME IInv, UNCHANGED vars PROVE IInv'
  OBVIOUS
<1> UNCHANGED <<status, target, active, lastGen, maxId, patch, review, mail,
                comment, run, job>>
  BY DEF vars, set, rows, outbox, tasks
<1>1. TypeOK'
  BY DEF IInv, TypeOK
<1>2. /\ ClaimsInOrder' /\ PostsWhenDecided' /\ CommentIsCurrent'
      /\ CancelledIsQuiet' /\ DeletedBelow' /\ JobsHaveTask'
  BY DEF IInv, ClaimsInOrder, PostsWhenDecided, CommentIsCurrent, CancelledIsQuiet,
     DeletedBelow, JobsHaveTask, ClaimActive
<1>3. NeverShared' /\ FillingOwnRow' /\ FindingsOfOneAttempt'
  <2>1. NeverShared' /\ FindingsOfOneAttempt'
    BY DEF IInv, NeverShared, FindingsOfOneAttempt
  <2>2. \A g, p : OwnRow(g, p)' = OwnRow(g, p)
    BY DEF OwnRow, ClaimActive
  <2>3. FillingOwnRow'
    BY <2>2 DEF IInv, FillingOwnRow
  <2>4. QED BY <2>1, <2>3
<1>4. NotifiesReview' /\ MailReportsReview'
  BY DEF IInv, NotifiesReview, MailReportsReview, Successes
<1>5. OkIsMarked' /\ ReviewedMeansReviewed'
  BY DEF IInv, OkIsMarked, ReviewedMeansReviewed, Successes, ClaimActive
<1>6. QED BY <1>1, <1>2, <1>3, <1>4, <1>5 DEF IInv

(* Every step keeps the invariant.                                          *)
LEMMA NextIInv == IInv /\ Next => IInv'
BY NextType, NextClaims, NextPosts, NextComment, NextQuiet, NextDeleted, NextJobs,
   NextShared, NextFilling, NextFindings, NextNotifies, NextMail, NextMarked,
   NextReviewed DEF IInv

-----------------------------------------------------------------------------
(* The theorems.                                                           *)

(* The invariant holds in every reachable state, for every number of        *)
(* patches, runs, reviews and retries, with and without faults.            *)
THEOREM Invariance == Spec => []IInv
<1>1. Init => IInv
  BY InitIInv
<1>2. IInv /\ [Next]_vars => IInv'
  BY NextIInv, StutterIInv
<1>3. QED BY <1>1, <1>2, PTL DEF Spec

(* Every variable keeps its type.                                          *)
THEOREM TypeCorrect == Spec => []TypeOK
<1>1. IInv => TypeOK
  BY DEF IInv
<1>2. QED BY <1>1, Invariance, PTL

(* No two workers ever fill the same review row, superseded ones included. *)
THEOREM NeverSharedAlways == Spec => []NeverShared
<1>1. IInv => NeverShared
  BY DEF IInv
<1>2. QED BY <1>1, Invariance, PTL

(* A completed review has the findings of one attempt.                     *)
THEOREM FindingsOfOneAttemptAlways == Spec => []FindingsOfOneAttempt
<1>1. IInv => FindingsOfOneAttempt
  BY DEF IInv
<1>2. QED BY <1>1, Invariance, PTL

(* A mail has the text of a completed review of its patch.                 *)
THEOREM MailReportsReviewAlways == Spec => []MailReportsReview
<1>1. IInv => MailReportsReview
  BY DEF IInv
<1>2. QED BY <1>1, Invariance, PTL

(* Nothing of a cancelled patchset is under review or about to be sent.    *)
THEOREM CancelledIsQuietAlways == Spec => []CancelledIsQuiet
<1>1. IInv => CancelledIsQuiet
  BY DEF IInv
<1>2. QED BY <1>1, Invariance, PTL

(* A comment that waits to be posted tells the outcome there is.           *)
THEOREM CommentIsCurrentAlways == Spec => []CommentIsCurrent
<1>1. IInv => CommentIsCurrent
  BY DEF IInv
<1>2. QED BY <1>1, Invariance, PTL

(* What counts as reviewed has completed reviews.                          *)
THEOREM ReviewedMeansReviewedAlways == Spec => []ReviewedMeansReviewed
<1>1. IInv => ReviewedMeansReviewed
  BY DEF IInv
<1>2. QED BY <1>1, Invariance, PTL

(* A run that lost its claim never has it again.                           *)
THEOREM LostForGoodAlways == Spec => LostForGood
<1> DEFINE Stays == \A g \in Runs : run[g] # "none" /\ ~ClaimActive(g)
                                      => ~ClaimActive(g)'
<1>1. IInv /\ Next => Stays
  BY LostStaysLost DEF IInv
<1>3. IInv /\ [Next]_vars => [Stays]_vars
  BY <1>1
<1>4. QED BY <1>3, Invariance, PTL DEF Spec, LostForGood

(* The id of a deleted review is never given to another row.               *)
THEOREM IdsAreNeverReusedAlways == Spec => IdsAreNeverReused
<1> DEFINE Stays == \A i \in Ids : review[i].status = "deleted" =>
                                     review'[i].status = "deleted"
<1>1. IInv /\ Next => Stays
  BY DeletedStays
<1>2. IInv /\ [Next]_vars => [Stays]_vars
  BY <1>1
<1>3. QED BY <1>2, Invariance, PTL DEF Spec, IdsAreNeverReused

-----------------------------------------------------------------------------
(* The status, between the review and the rest of the daemon.              *)

(* The runs, the workers of the outboxes and a restart decide what is      *)
(* handed over, and move no patchset otherwise.                            *)
LEMMA RunsDecide ==
  ASSUME TypeOK, Next, ~People
  PROVE  Life!Decide("this") \/ Life!Rest("this")
<1>1. CASE status' = status
  BY <1>1 DEF Life!Rest, StatusOutside
<1>2. CASE Restart
  BY <1>2 DEF Restart, Life!Rest, StatusOutside
<1>3. CASE Claim
  BY <1>3 DEF Claim, Life!Rest, StatusOutside
<1>4. CASE Delivery
  BY <1>1, <1>4 DEF Delivery, SendComment, SendMail, set
<1>5. ASSUME NEW g \in Runs, Task(g)
      PROVE  Life!Decide("this") \/ Life!Rest("this")
  <2>1. CASE Start(g) \/ AllEnded(g) \/ FailOrphans(g) \/ Release(g) \/ Post(g)
    BY <1>1, <2>1 DEF Start, AllEnded, FailOrphans, Release, Post, set
  <2>2. CASE NoBaseline(g) \/ Conclude(g)
    <3>1. \/ status' = status
          \/ /\ status = "In Review"
             /\ status' \in {"Reviewed", "Failed", "Failed To Apply"}
      BY <2>2 DEF NoBaseline, Conclude, CompletePatchset, ClaimActive
    <3>2. CASE /\ status = "In Review"
               /\ status' \in {"Reviewed", "Failed", "Failed To Apply"}
      BY <3>2 DEF Life!Decide, Life!From, StatusOutside
    <3>3. QED BY <1>1, <3>1, <3>2
  <2>3. QED BY <1>5, <2>1, <2>2 DEF Task
<1>6. ASSUME NEW g \in Runs, Panic(g) \/ RunError(g)
      PROVE  status' = status
  BY <1>6 DEF Panic, RunError, set
<1>7. QED
  BY <1>1, <1>2, <1>3, <1>4, <1>5, <1>6, JobFrame, NextGroups

(* And people and ingestion move it as agreed.                             *)
LEMMA PeopleMove ==
  ASSUME TypeOK, People
  PROVE  Life!Move("this")
<1>1. CASE Ingest
  BY <1>1 DEF Ingest, Life!Move, Life!Collect, Life!From, StatusOutside
<1>2. CASE Supersede
  BY <1>2 DEF Supersede, set, Life!Move, Life!Rest, StatusOutside
<1>3. CASE Rerun
  <2>1. StatusOutside # "none" /\ StatusOutside' = "Pending"
    BY <1>3 DEF Rerun, TypeOK, PatchsetStatus, StatusOutside
  <2>2. QED BY <2>1 DEF Life!Move, Life!Rerun
<1>4. CASE Refetch
  BY <1>4 DEF Refetch, Life!Move, Life!Submit, Life!From, StatusOutside
<1>5. ASSUME NEW force \in BOOLEAN, Cancel(force) PROVE Life!Move("this")
  BY <1>5 DEF Cancel, Life!Move, Life!Cancel, Life!From, StatusOutside
<1>6. QED BY <1>1, <1>2, <1>3, <1>4, <1>5 DEF People

-----------------------------------------------------------------------------
(* The rows of the outboxes, between the review and the workers.           *)

SameCancelled == (status' = "Cancelled") = (status = "Cancelled")

(* What the workers see of a mail and of the comment.                      *)
LEMMA RowSeen ==
  ASSUME NEW r
  PROVE  /\ r.status \in Unsent => RowOutside(r) = "Pending"
         /\ r.status = "Sent" => RowOutside(r) = "Over"
         /\ r.status \in {"none", "Cancelled", "Sending", "Failed"} =>
               RowOutside(r) = r.status
BY DEF RowOutside, Unsent

LEMMA MailSeen ==
  ASSUME NEW p \in Patches
  PROVE  /\ [q \in Patches |-> RowOutside(mail[q])][p] = RowOutside(mail[p])
         /\ [q \in Patches |-> RowOutside(mail[q])]'[p] = RowOutside(mail'[p])
         /\ [q \in Patches |-> status = "Cancelled"][p] = (status = "Cancelled")
         /\ [q \in Patches |-> status = "Cancelled"]'[p] = (status' = "Cancelled")
         /\ [q \in Patches |-> FALSE][p] = FALSE
         /\ [q \in Patches |-> FALSE]'[p] = FALSE
BY DEF RowOutside

LEMMA CommentSeen ==
  /\ [q \in {"this"} |-> RowOutside(comment)]["this"] = RowOutside(comment)
  /\ [q \in {"this"} |-> RowOutside(comment)]'["this"] = RowOutside(comment')
  /\ [q \in {"this"} |-> status = "Cancelled"]["this"] = (status = "Cancelled")
  /\ [q \in {"this"} |-> status = "Cancelled"]'["this"] = (status' = "Cancelled")
  /\ [q \in {"this"} |-> FALSE]["this"] = FALSE
  /\ [q \in {"this"} |-> FALSE]'["this"] = FALSE
BY DEF RowOutside

(* What a mail may go through that nobody delivers.                        *)
MailTended(p) ==
    \/ Mails!Queue(p) \/ Mails!Withdraw(p) \/ Mails!Discard(p)
    \/ Mails!Cancel(p) \/ Mails!Rerun(p) \/ Mails!Rest(p)

LEMMA MailRests ==
  ASSUME NEW p \in Patches, SameCancelled, mail'[p] = mail[p]
  PROVE  MailTended(p)
BY MailSeen
   DEF MailTended, SameCancelled, Mails!Rest, Mails!Stays, Mails!SamePatchset,
       Mails!SameNewer

(* Mails go with the artifacts of reviews, unless they are under way.      *)
LEMMA MailGoes ==
  ASSUME NEW p \in Patches, NEW S, mail'[p] = MailWithout(S)[p]
  PROVE  mail'[p] = mail[p] \/ Mails!Discarded(p)
<1>1. \/ mail'[p] = mail[p]
      \/ /\ mail[p].status \in Unsent \cup {"Cancelled"}
         /\ mail'[p] = NoMail
  BY DEF MailWithout
<1>2. ASSUME mail[p].status \in Unsent \cup {"Cancelled"}, mail'[p] = NoMail
      PROVE  Mails!Discarded(p)
  <2>1. RowOutside(mail[p]) \in {"Pending", "Cancelled"}
    BY <1>2, RowSeen
  <2>2. RowOutside(mail'[p]) = "none"
    BY <1>2, RowSeen DEF NoMail
  <2>3. QED BY <2>1, <2>2, MailSeen DEF Mails!Discarded, Mails!Goes, Mails!Open
<1>3. QED BY <1>1, <1>2

LEMMA MailDiscarded ==
  ASSUME NEW p \in Patches, SameCancelled, NEW S, mail'[p] = MailWithout(S)[p]
  PROVE  MailTended(p)
<1>1. CASE mail'[p] = mail[p]
  BY <1>1, MailRests
<1>2. CASE Mails!Discarded(p)
  BY <1>2, MailSeen
  DEF MailTended, SameCancelled, Mails!Discard, Mails!SamePatchset, Mails!SameNewer
<1>3. QED BY <1>1, <1>2, MailGoes

(* What waits is taken back, for a patchset that is cancelled or overtaken.*)
LEMMA MailTakenBack ==
  ASSUME TypeOK, NEW p \in Patches, CancelOutbox,
         SameCancelled \/ status' = "Cancelled"
  PROVE  MailTended(p)
<1>1. CASE mail[p].status \in Unsent
  <2>1. mail'[p].status = "Cancelled"
    BY <1>1 DEF CancelOutbox, TypeOK, Mail
  <2>2. RowOutside(mail[p]) = "Pending" /\ RowOutside(mail'[p]) = "Cancelled"
    BY <1>1, <2>1, RowSeen
  <2>3. QED
    BY <2>2, MailSeen
    DEF MailTended, SameCancelled, Mails!Withdraw, Mails!Cancel, Mails!Goes,
        Mails!Open, Mails!SamePatchset, Mails!SameNewer
<1>2. CASE mail[p].status \notin Unsent
  <2>1. mail'[p] = mail[p]
    BY <1>2 DEF CancelOutbox
  <2>2. RowOutside(mail[p]) # "Pending"
    BY <1>2 DEF RowOutside, Unsent
  <2>3. QED
    BY <2>1, <2>2, MailRests, MailSeen
    DEF MailTended, Mails!Cancel, Mails!Stays, Mails!SameNewer
<1>3. QED BY <1>1, <1>2

(* Runs, people and restarts tend the mails, and deliver none.             *)
LEMMA MailsTended ==
  ASSUME TypeOK, Next, ~Delivery, NEW p \in Patches
  PROVE  MailTended(p)
<1>0. mail \in [Patches -> Mail]
  BY DEF TypeOK
<1>1. CASE People
  <2>1. CASE Ingest
    BY <2>1, MailRests DEF Ingest, outbox, SameCancelled
  <2>2. CASE Supersede
    BY <2>2, MailTakenBack DEF Supersede, set, SameCancelled
  <2>3. ASSUME NEW force \in BOOLEAN, Cancel(force) PROVE MailTended(p)
    BY <2>3, MailTakenBack DEF Cancel
  <2>4. CASE Rerun \/ Refetch
    <3>1. /\ status' # "Cancelled"
          /\ \E S : mail' = MailWithout(S)
      BY <2>4 DEF Rerun, Refetch, ResetReviewState
    <3>2. mail'[p] = mail[p] \/ Mails!Discarded(p)
      BY <3>1, MailGoes
    <3>3. QED
      BY <3>1, <3>2, MailSeen
      DEF MailTended, Mails!Rerun, Mails!Stays, Mails!SameNewer
  <2>5. QED BY <1>1, <2>1, <2>2, <2>3, <2>4 DEF People
<1>2. CASE Restart \/ Claim
  BY <1>2, MailRests DEF Restart, Claim, outbox, SameCancelled
<1>3. ASSUME NEW g \in Runs, Task(g) \/ Panic(g) \/ RunError(g)
      PROVE  MailTended(p)
  <2>1. SameCancelled
    BY <1>3
    DEF Task, Start, NoBaseline, AllEnded, FailOrphans, Conclude, Post, Release,
        Panic, RunError, CompletePatchset, ClaimActive, set, SameCancelled
  <2>2. CASE FailOrphans(g)
    <3>1. \E S : mail' = MailWithout(S)
      BY <2>2 DEF FailOrphans
    <3>2. QED BY <2>1, <3>1, MailDiscarded
  <2>3. CASE ~FailOrphans(g)
    BY <1>3, <2>1, <2>3, MailRests
    DEF Task, Start, NoBaseline, AllEnded, Conclude, Post, Release, Panic,
        RunError, outbox
  <2>4. QED BY <2>2, <2>3
<1>4. ASSUME NEW g \in Runs, NEW q \in Patches, JobAndRows(g, q)
      PROVE  MailTended(p)
  <2>1. status' = status /\ SameCancelled
    BY <1>4, JobFrame DEF SameCancelled
  <2>2. CASE Notify(g, q) /\ mail' # mail
    <3>1. /\ status # "Cancelled"
          /\ mail[q].status \in Unsent \cup {"none", "Cancelled"}
          /\ mail' = [mail EXCEPT ![q] = [status |-> "Pending",
                                          review |-> job[g][q].id]]
      BY <2>2 DEF Notify, ClaimActiveForOutbox
    <3>2. CASE p = q
      <4>1. mail'[p].status = "Pending"
        BY <1>0, <3>1, <3>2
      <4>2. RowOutside(mail'[p]) = "Pending"
        BY <4>1, RowSeen DEF Unsent
      <4>3. RowOutside(mail[p]) \in {"Pending", "none", "Cancelled"}
        BY <3>1, <3>2, RowSeen
      <4>4. QED
        BY <2>1, <3>1, <4>2, <4>3, MailSeen
        DEF MailTended, SameCancelled, Mails!Queue, Mails!Wanted, Mails!Goes,
            Mails!Open, Mails!SamePatchset, Mails!SameNewer
    <3>3. CASE p # q
      BY <1>0, <2>1, <3>1, <3>3, MailRests
    <3>4. QED BY <3>2, <3>3
  <2>3. CASE SaveFindings(g, q) \/ Complete(g, q) \/ mail' = mail
    BY <2>1, <2>3, MailRests DEF SaveFindings, Complete, outbox
  <2>4. CASE ClaimReview(g, q) \/ Retry(g, q) \/ Abort(g, q) \/ JobPanic(g, q)
    <3>1. UNCHANGED mail \/ \E S : mail' = MailWithout(S)
      BY <2>4 DEF ClaimReview, Retry, Abort, JobPanic
    <3>2. QED BY <2>1, <3>1, MailRests, MailDiscarded
  <2>5. QED BY <1>4, <2>2, <2>3, <2>4 DEF JobAndRows
<1>5. ASSUME NEW g \in Runs, NEW q \in Patches,
             JobOnly(g, q) \/ JobAndPatch(g, q), ~JobAndRows(g, q)
      PROVE  MailTended(p)
  BY <1>5, JobFrame, MailRests DEF SameCancelled
<1>6. QED BY <1>1, <1>2, <1>3, <1>4, <1>5, NextGroups

(* The mail worker takes, brings back and ends, or drops what is cancelled.*)
LEMMA MailsDelivered ==
  ASSUME TypeOK, Delivery, NEW p \in Patches
  PROVE  Mails!Deliver(p) \/ Mails!Withdraw(p) \/ Mails!Rest(p)
<1>0. mail \in [Patches -> Mail]
  BY DEF TypeOK
<1>1. SameCancelled
  BY DEF Delivery, SendComment, SendMail, set, SameCancelled
<1>2. CASE mail'[p] = mail[p]
  BY <1>1, <1>2, MailSeen
  DEF SameCancelled, Mails!Rest, Mails!Stays, Mails!SamePatchset, Mails!SameNewer
<1>3. CASE SendMail(p) /\ mail[p].status \in Unsent
  <2>1. mail'[p].status = IF status = "Cancelled" THEN "Cancelled" ELSE "Sending"
    BY <1>0, <1>3 DEF SendMail, Mail, Unsent
  <2>2. /\ RowOutside(mail[p]) = "Pending"
        /\ RowOutside(mail'[p]) =
             IF status = "Cancelled" THEN "Cancelled" ELSE "Sending"
    BY <1>3, <2>1, RowSeen
  <2>3. CASE status = "Cancelled"
    BY <1>1, <2>2, <2>3, MailSeen
    DEF SameCancelled, Mails!Withdraw, Mails!Goes, Mails!Open,
        Mails!SamePatchset, Mails!SameNewer
  <2>4. CASE status # "Cancelled"
    BY <1>1, <2>2, <2>4, MailSeen
    DEF SameCancelled, Mails!Deliver, Mails!Take, Mails!Wanted, Mails!Goes,
        Mails!SamePatchset, Mails!SameNewer
  <2>5. QED BY <2>3, <2>4
<1>4. CASE SendMail(p) /\ mail[p].status = "Sending"
  <2>1. mail'[p].status \in {"Sent", "Retrying"}
    BY <1>0, <1>4 DEF SendMail, Mail, Unsent
  <2>2. /\ RowOutside(mail[p]) = "Sending"
        /\ RowOutside(mail'[p]) \in {"Over", "Pending"}
    BY <1>4, <2>1, RowSeen DEF Unsent
  <2>3. QED
    BY <1>1, <2>2, MailSeen
    DEF SameCancelled, Mails!Deliver, Mails!ComeBack, Mails!Finish, Mails!Goes,
        Mails!SamePatchset, Mails!SameNewer
<1>5. ASSUME NEW q \in Patches, q # p, SendMail(q) PROVE mail'[p] = mail[p]
  BY <1>0, <1>5 DEF SendMail
<1>6. CASE SendComment
  BY <1>2, <1>6 DEF SendComment
<1>7. QED BY <1>2, <1>3, <1>4, <1>5, <1>6 DEF Delivery, SendMail

(* The same for the comment.                                               *)
CommentTended ==
    \/ Comments!Queue("this") \/ Comments!Withdraw("this")
    \/ Comments!Cancel("this") \/ Comments!Rerun("this") \/ Comments!Rest("this")

LEMMA CommentRests ==
  ASSUME SameCancelled, comment' = comment
  PROVE  CommentTended
BY CommentSeen
   DEF CommentTended, SameCancelled, Comments!Rest, Comments!Stays,
       Comments!SamePatchset, Comments!SameNewer

LEMMA CommentTakenBack ==
  ASSUME TypeOK, CancelOutbox, SameCancelled \/ status' = "Cancelled"
  PROVE  CommentTended
<1>1. CASE comment.status \in Unsent
  <2>1. comment'.status = "Cancelled"
    BY <1>1 DEF CancelOutbox, TypeOK, Comment
  <2>2. RowOutside(comment) = "Pending" /\ RowOutside(comment') = "Cancelled"
    BY <1>1, <2>1, RowSeen
  <2>3. QED
    BY <2>2, CommentSeen
    DEF CommentTended, SameCancelled, Comments!Withdraw, Comments!Cancel,
        Comments!Goes, Comments!Open, Comments!SamePatchset, Comments!SameNewer
<1>2. CASE comment.status \notin Unsent
  <2>1. comment' = comment
    BY <1>2 DEF CancelOutbox
  <2>2. RowOutside(comment) # "Pending"
    BY <1>2 DEF RowOutside, Unsent
  <2>3. QED
    BY <2>1, <2>2, CommentRests, CommentSeen
    DEF CommentTended, Comments!Cancel, Comments!Stays, Comments!SameNewer
<1>3. QED BY <1>1, <1>2

(* What a rerun leaves of the comment is in flight or sent.                *)
LEMMA CommentReset ==
  ASSUME TypeOK, ResetReviewState, status' # "Cancelled"
  PROVE  CommentTended
<1>0. comment.status \in OutboxStatus
  BY DEF TypeOK, Comment
<1>1. CASE comment.status \in Unsent \cup {"Failed", "Cancelled"}
  <2>1. comment' = NoComment
    BY <1>1 DEF ResetReviewState
  <2>2. /\ RowOutside(comment) \in {"Pending", "Failed", "Cancelled"}
        /\ RowOutside(comment') = "none"
    BY <1>1, <2>1, RowSeen DEF NoComment
  <2>3. QED
    BY <2>2, CommentSeen
    DEF CommentTended, Comments!Rerun, Comments!Discarded, Comments!Goes,
        Comments!Open, Comments!OfForge, Comments!SameNewer
<1>2. CASE comment.status \notin Unsent \cup {"Failed", "Cancelled"}
  <2>1. comment' = comment
    BY <1>2 DEF ResetReviewState
  <2>2. comment.status \in {"none", "Sending", "Sent"}
    BY <1>0, <1>2 DEF OutboxStatus, Unsent
  <2>3. RowOutside(comment') \in {"none", "Sending", "Over"}
    BY <2>1, <2>2, RowSeen
  <2>4. QED
    BY <2>1, <2>3, CommentSeen
    DEF CommentTended, Comments!Rerun, Comments!Stays, Comments!SameNewer
<1>3. QED BY <1>1, <1>2

LEMMA CommentsTended ==
  ASSUME TypeOK, Next, ~Delivery
  PROVE  CommentTended
<1>1. CASE People
  <2>1. CASE Ingest
    BY <2>1, CommentRests DEF Ingest, outbox, SameCancelled
  <2>2. CASE Supersede
    BY <2>2, CommentTakenBack DEF Supersede, set, SameCancelled
  <2>3. ASSUME NEW force \in BOOLEAN, Cancel(force) PROVE CommentTended
    BY <2>3, CommentTakenBack DEF Cancel
  <2>4. CASE Rerun \/ Refetch
    BY <2>4, CommentReset DEF Rerun, Refetch
  <2>5. QED BY <1>1, <2>1, <2>2, <2>3, <2>4 DEF People
<1>2. CASE Restart \/ Claim
  BY <1>2, CommentRests DEF Restart, Claim, outbox, SameCancelled
<1>3. ASSUME NEW g \in Runs, Task(g) \/ Panic(g) \/ RunError(g)
      PROVE  CommentTended
  <2>1. SameCancelled
    BY <1>3
    DEF Task, Start, NoBaseline, AllEnded, FailOrphans, Conclude, Post, Release,
        Panic, RunError, CompletePatchset, ClaimActive, set, SameCancelled
  <2>2. CASE comment' = comment
    BY <2>1, <2>2, CommentRests
  <2>3. CASE Post(g) /\ comment' # comment
    <3>1. /\ status # "Cancelled" /\ status' = status
          /\ comment' = [status |-> "Pending", incomplete |-> status = "Failed"]
      BY <2>3 DEF Post, ClaimActiveForOutbox, set
    <3>2. RowOutside(comment') = "Pending"
      BY <3>1, RowSeen DEF Unsent
    <3>3. RowOutside(comment) \in {"Pending", "none", "Cancelled", "Sending",
                                   "Over", "Failed"}
      BY RowSeen DEF TypeOK, Comment, OutboxStatus, Unsent
    <3>4. QED
      BY <3>1, <3>2, <3>3, CommentSeen
      DEF CommentTended, Comments!Queue, Comments!Wanted, Comments!Goes,
          Comments!Open, Comments!OfForge, Comments!SamePatchset,
          Comments!SameNewer
  <2>4. QED
    BY <1>3, <2>2, <2>3
    DEF Task, Start, NoBaseline, AllEnded, FailOrphans, Conclude, Release, Panic,
        RunError, outbox
<1>4. ASSUME NEW g \in Runs, NEW p \in Patches,
             JobOnly(g, p) \/ JobAndPatch(g, p) \/ JobAndRows(g, p)
      PROVE  CommentTended
  BY <1>4, JobFrame, CommentRests DEF SameCancelled
<1>5. QED BY <1>1, <1>2, <1>3, <1>4, NextGroups

LEMMA CommentsDelivered ==
  ASSUME TypeOK, Delivery
  PROVE  Comments!Deliver("this") \/ Comments!Withdraw("this")
           \/ Comments!Rest("this")
<1>1. SameCancelled
  BY DEF Delivery, SendComment, SendMail, set, SameCancelled
<1>2. CASE comment' = comment
  BY <1>1, <1>2, CommentSeen
  DEF SameCancelled, Comments!Rest, Comments!Stays, Comments!SamePatchset,
      Comments!SameNewer
<1>3. CASE SendComment /\ comment.status \in Unsent
  <2>1. \/ comment'.status = "Cancelled"
        \/ comment'.status = "Sending" /\ status # "Cancelled"
    BY <1>3 DEF SendComment, TypeOK, Comment, Unsent
  <2>2. RowOutside(comment) = "Pending"
    BY <1>3, RowSeen
  <2>3. CASE comment'.status = "Cancelled"
    <3>1. RowOutside(comment') = "Cancelled"
      BY <2>3, RowSeen
    <3>2. QED
      BY <1>1, <2>2, <3>1, CommentSeen
      DEF SameCancelled, Comments!Withdraw, Comments!Goes, Comments!Open,
          Comments!SamePatchset, Comments!SameNewer
  <2>4. CASE comment'.status = "Sending" /\ status # "Cancelled"
    <3>1. RowOutside(comment') = "Sending"
      BY <2>4, RowSeen
    <3>2. QED
      BY <1>1, <2>2, <2>4, <3>1, CommentSeen
      DEF SameCancelled, Comments!Deliver, Comments!Take, Comments!Wanted,
          Comments!Goes, Comments!SamePatchset, Comments!SameNewer
  <2>5. QED BY <2>1, <2>3, <2>4
<1>4. CASE SendComment /\ comment.status = "Sending"
  <2>1. comment'.status \in {"Sent", "Failed", "Retrying"}
    BY <1>4 DEF SendComment, TypeOK, Comment, Unsent
  <2>2. /\ RowOutside(comment) = "Sending"
        /\ RowOutside(comment') \in {"Over", "Failed", "Pending"}
    BY <1>4, <2>1, RowSeen DEF Unsent
  <2>3. QED
    BY <1>1, <2>2, CommentSeen
    DEF SameCancelled, Comments!Deliver, Comments!ComeBack, Comments!Finish,
        Comments!Goes, Comments!OfForge, Comments!SamePatchset,
        Comments!SameNewer
<1>5. QED BY <1>2, <1>3, <1>4 DEF Delivery, SendComment, SendMail

(* What a step does to the rows is agreed.                                 *)
LEMMA RowsMove ==
  ASSUME TypeOK, Next
  PROVE  Mails!Next /\ Comments!Next
<1>1. ASSUME NEW p \in Patches PROVE Mails!Move(p)
  <2>1. CASE Delivery
    BY <2>1, MailsDelivered DEF Mails!Move
  <2>2. CASE ~Delivery
    BY <2>2, MailsTended DEF MailTended, Mails!Move
  <2>3. QED BY <2>1, <2>2
<1>2. Comments!Move("this")
  <2>1. CASE Delivery
    BY <2>1, CommentsDelivered DEF Comments!Move
  <2>2. CASE ~Delivery
    BY <2>2, CommentsTended DEF CommentTended, Comments!Move
  <2>3. QED BY <2>1, <2>2
<1>3. QED BY <1>1, <1>2 DEF Mails!Next, Comments!Next

(* The review moves the status as fetching expects it to, and the rows of  *)
(* the outboxes as their workers do.                                       *)
THEOREM ReviewMovesAsAgreed == Spec => MovesAsAgreed
<1>1. Init => Life!Init
  BY DEF Init, Life!Init, StatusOutside
<1>2. Init => Mails!Init /\ Comments!Init
  <2> SUFFICES ASSUME Init PROVE Mails!Init /\ Comments!Init
    OBVIOUS
  <2>1. \A p \in Patches : RowOutside(mail[p]) = "none"
    BY DEF Init, NoMail, RowOutside
  <2>2. RowOutside(comment) = "none" /\ (status = "Cancelled") = FALSE
    BY DEF Init, NoComment, RowOutside
  <2>3. QED BY <2>1, <2>2 DEF Mails!Init, Comments!Init
<1>3. TypeOK /\ [Next]_vars => [Life!Next]_([p \in {"this"} |-> StatusOutside])
  <2>1. ASSUME TypeOK, Next PROVE Life!Next
    BY <2>1, RunsDecide, PeopleMove DEF Life!Next, Life!Move
  <2>2. CASE UNCHANGED vars
    BY <2>2 DEF vars, set, StatusOutside
  <2>3. QED BY <2>1, <2>2
<1>4. TypeOK /\ [Next]_vars =>
        [Mails!Next]_(Mails!lifeVars) /\ [Comments!Next]_(Comments!lifeVars)
  <2>1. CASE UNCHANGED vars
    BY <2>1
    DEF vars, set, outbox, Mails!lifeVars, Comments!lifeVars, RowOutside
  <2>2. QED BY <2>1, RowsMove
<1>5. QED
  BY <1>1, <1>2, <1>3, <1>4, TypeCorrect, PTL
  DEF Spec, MovesAsAgreed, Life!Spec, Mails!Spec, Comments!Spec

(* Runs, people and restarts queue, withdraw and delete rows and do        *)
(* nothing else to them: a mail that the worker holds or has delivered     *)
(* they leave alone, a comment gives way only to the next one.             *)
THEOREM OnlyTheWorkerDelivers ==
  Spec => [][Delivery \/ (CommentTended /\ \A p \in Patches : MailTended(p))]_vars
<1>1. TypeOK /\ [Next]_vars =>
        [Delivery \/ (CommentTended /\ \A p \in Patches : MailTended(p))]_vars
  BY MailsTended, CommentsTended
<1>2. QED BY <1>1, TypeCorrect, PTL DEF Spec

(* Conversely, whatever a worker does to a mail or to the comment, by the  *)
(* moves that are agreed, is a step that PatchsetReview reckons with, if   *)
(* what comes back is marked as tried: lock_pending_email and              *)
(* lock_pending_forge_outbox, mark_*_sent, mark_*_failed, the retries and  *)
(* the sweeps of rows that were left behind.                               *)
THEOREM EveryDeliveryIsExpected ==
  ASSUME TypeOK, UNCHANGED <<set, rows, tasks>>,
         NEW p \in Patches, NEW s \in OutboxStatus \ {"Pending"}
  PROVE  /\ /\ mail' = [mail EXCEPT ![p].status = s] /\ UNCHANGED comment
            /\ \/ Mails!Deliver(p)
               \/ Mails!Withdraw(p) /\ status = "Cancelled"
            => SendMail(p)
         /\ /\ comment' = [comment EXCEPT !.status = s] /\ UNCHANGED mail
            /\ Comments!Deliver("this") \/ Comments!Withdraw("this")
            => SendComment
<1>0. /\ mail \in [Patches -> Mail] /\ mail[p].status \in OutboxStatus
      /\ comment \in Comment /\ comment.status \in OutboxStatus
  BY DEF TypeOK, Mail, Comment
<1>1. ASSUME NEW r
      PROVE  /\ RowOutside(r) = "Pending" => r.status \in Unsent
             /\ RowOutside(r) \in {"none", "Cancelled", "Sending", "Failed"} =>
                  r.status = RowOutside(r)
             /\ RowOutside(r) = "Over" => r.status \in {"Sent", "Over"}
             /\ RowOutside(r) # "Held" \/ r.status = "Held"
  BY DEF RowOutside, Unsent
<1>2. "Over" \notin OutboxStatus /\ "Held" \notin OutboxStatus
  BY DEF OutboxStatus
<1>3. ASSUME mail' = [mail EXCEPT ![p].status = s], UNCHANGED comment,
             \/ Mails!Deliver(p)
             \/ Mails!Withdraw(p) /\ status = "Cancelled"
      PROVE  SendMail(p)
  <2>1. mail'[p].status = s
    BY <1>0, <1>3 DEF Mail
  <2>2. CASE Mails!Take(p)
    <3>1. RowOutside(mail[p]) = "Pending" /\ RowOutside(mail'[p]) = "Sending"
          /\ status # "Cancelled"
      BY <2>2, MailSeen DEF Mails!Take, Mails!Goes, Mails!Wanted
    <3>2. mail[p].status \in Unsent /\ s = "Sending"
      BY <1>1, <2>1, <3>1
    <3>3. QED BY <1>3, <3>1, <3>2 DEF SendMail
  <2>3. CASE Mails!ComeBack(p) \/ Mails!Finish(p)
    <3>1. RowOutside(mail[p]) = "Sending"
          /\ RowOutside(mail'[p]) \in {"Pending", "Over"}
      BY <2>3, MailSeen DEF Mails!ComeBack, Mails!Finish, Mails!Goes, Mails!OfForge
    <3>2. mail[p].status = "Sending" /\ s \in {"Sent", "Retrying"}
      BY <1>1, <1>2, <2>1, <3>1 DEF Unsent
    <3>3. QED BY <1>3, <3>2 DEF SendMail
  <2>4. CASE Mails!Withdraw(p) /\ status = "Cancelled"
    <3>1. RowOutside(mail[p]) \in {"Pending", "Held"}
          /\ RowOutside(mail'[p]) = "Cancelled"
      BY <2>4, MailSeen DEF Mails!Withdraw, Mails!Goes, Mails!Open
    <3>2. mail[p].status \in Unsent /\ s = "Cancelled"
      BY <1>0, <1>1, <1>2, <2>1, <3>1
    <3>3. QED BY <1>3, <2>4, <3>2 DEF SendMail
  <2>5. QED BY <1>3, <2>2, <2>3, <2>4 DEF Mails!Deliver
<1>4. ASSUME comment' = [comment EXCEPT !.status = s], UNCHANGED mail,
             Comments!Deliver("this") \/ Comments!Withdraw("this")
      PROVE  SendComment
  <2>1. comment'.status = s
    BY <1>0, <1>4 DEF Comment
  <2>2. CASE Comments!Take("this")
    <3>1. RowOutside(comment) = "Pending" /\ RowOutside(comment') = "Sending"
          /\ status # "Cancelled"
      BY <2>2, CommentSeen DEF Comments!Take, Comments!Goes, Comments!Wanted
    <3>2. comment.status \in Unsent /\ s = "Sending"
      BY <1>1, <2>1, <3>1
    <3>3. QED BY <1>4, <3>1, <3>2 DEF SendComment
  <2>3. CASE Comments!ComeBack("this") \/ Comments!Finish("this")
    <3>1. RowOutside(comment) = "Sending"
          /\ RowOutside(comment') \in {"Pending", "Over", "Failed"}
      BY <2>3, CommentSeen
      DEF Comments!ComeBack, Comments!Finish, Comments!Goes, Comments!OfForge
    <3>2. comment.status = "Sending" /\ s \in {"Sent", "Failed", "Retrying"}
      BY <1>1, <1>2, <2>1, <3>1 DEF Unsent
    <3>3. QED BY <1>4, <3>2 DEF SendComment
  <2>4. CASE Comments!Withdraw("this")
    <3>1. RowOutside(comment) \in {"Pending", "Held"}
          /\ RowOutside(comment') = "Cancelled"
      BY <2>4, CommentSeen DEF Comments!Withdraw, Comments!Goes, Comments!Open
    <3>2. comment.status \in Unsent /\ s = "Cancelled"
      BY <1>0, <1>1, <1>2, <2>1, <3>1
    <3>3. QED BY <1>4, <3>2 DEF SendComment
  <2>5. QED BY <1>4, <2>2, <2>3, <2>4 DEF Comments!Deliver
<1>5. QED BY <1>3, <1>4

(* While nobody cancels, reruns or fetches again, only the end of a review *)
(* that has the claim moves what others see of the status: a superseded    *)
(* run, a crash or a restart does not.                                     *)
THEOREM RunsOnlyDecide ==
  Spec => [][People \/ Life!Decide("this") \/ Life!Rest("this")]_vars
<1>1. TypeOK /\ [Next]_vars =>
        [People \/ Life!Decide("this") \/ Life!Rest("this")]_vars
  BY RunsDecide
<1>2. QED BY <1>1, TypeCorrect, PTL DEF Spec

(* Conversely, whatever the rest of the daemon does to the status, by the  *)
(* moves that are agreed, is a step that PatchsetReview reckons with in    *)
(* every state: create_fetching_patchset, the ingestion of parts, their    *)
(* failures, cancel_patchset and rerun_patchset, each with what it does to *)
(* the review.  (Parts do not open a series again that failed to apply.)   *)
THEOREM EveryMoveIsExpected ==
  ASSUME TypeOK, status' \in PatchsetStatus \ {"In Review", "Failed To Apply"}
  PROVE  /\ Life!Submit("this") /\ ResetReviewState
              /\ UNCHANGED <<target, lastGen, tasks>> => Refetch
         /\ Life!Collect("this") /\ status # "Failed To Apply"
              /\ UNCHANGED <<target, active, lastGen, rows, outbox, tasks>> => Ingest
         /\ Life!Cancel("this") =>
              /\ status' = "Cancelled"
              /\ status \in {"Fetching", "Pending", "Awaiting Review",
                             "Incomplete", "In Review"}
<1>1. ASSUME Life!Submit("this") 
      PROVE  /\ status \in {"Failed", "Fetching", "Cancelled", "Failed To Apply"}
             /\ status' = "Fetching"
  BY <1>1 DEF Life!Submit, Life!From, StatusOutside, TypeOK, PatchsetStatus
<1>2. ASSUME Life!Collect("this"), status # "Failed To Apply"
      PROVE  /\ status \in {"Fetching", "Incomplete", "Failed"}
             /\ status' \in {"Incomplete", "Pending", "Awaiting Review", "Failed"}
  BY <1>2 DEF Life!Collect, Life!From, StatusOutside, TypeOK, PatchsetStatus
<1>3. ASSUME Life!Cancel("this")
      PROVE  /\ status' = "Cancelled"
             /\ status \in {"Fetching", "Pending", "Awaiting Review",
                            "Incomplete", "In Review"}
  BY <1>3 DEF Life!Cancel, Life!From, StatusOutside, TypeOK, PatchsetStatus
<1>4. QED BY <1>1, <1>2, <1>3 DEF Refetch, Ingest
=============================================================================
