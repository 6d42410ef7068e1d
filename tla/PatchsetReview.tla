--------------------------- MODULE PatchsetReview ---------------------------
(***************************************************************************)
(* The review of one patchset: its row and the rows of its patches,        *)
(* reviews and outboxes (src/src/db.rs), the runs that the Reviewer spawns *)
(* on it (src/src/reviewer.rs), and the people and the ingestion that      *)
(* cancel it, rerun it, supersede it or fetch it again meanwhile.          *)
(*                                                                         *)
(* A run is known by its claim generation.  Every write of a run carries   *)
(* the generation and lands only while the patchset is In Review and the   *)
(* patchset_active_gen row of `meta' still has it, so that a run that was  *)
(* superseded, and does not know it yet, changes nothing.  A run reviews   *)
(* its patches concurrently, one job per patch; between two database       *)
(* operations of a job or a run anything else may happen.                  *)
(*                                                                         *)
(* The AI, git and the wording of reviews are abstracted: a job's tool     *)
(* returns findings, fails, or skips.  A review carries the number of      *)
(* times the findings of an attempt were attached to it.  Embargoes show   *)
(* only as a notification that is not queued.                              *)
(*                                                                         *)
(* An operator whose comment begins with "Fault:" is a plausible mistake   *)
(* in the operator that follows it.  No action uses it; the project checks *)
(* that substituting it breaks a property.                                 *)
(***************************************************************************)
EXTENDS Integers

CONSTANTS
    Patches,      \* the patches of the series
    MaxRuns,      \* bound: the number of runs
    MaxReviews,   \* bound: the number of review rows ever inserted
    MaxRetries,   \* ReviewSettings.max_retries
    WritesFail,   \* whether a database operation may fail, retries included
    TasksPanic    \* whether a task may panic

ASSUME PatchsetReviewAssumption ==
    /\ MaxRuns \in Nat \ {0}
    /\ MaxReviews \in Nat \ {0}
    /\ MaxRetries \in Nat
    /\ WritesFail \in BOOLEAN /\ TasksPanic \in BOOLEAN

VARIABLES
    status,    \* patchsets.status
    target,    \* patchsets.target_review_count
    active,    \* meta: patchset_active_gen, 0 for no row
    lastGen,   \* meta: patchset_gen_seq
    maxId,     \* meta: reviews_max_id
    patch,     \* patches.status
    review,    \* the reviews table
    mail,      \* email_outbox: one row per patch
    comment,   \* forge_outbox: one row for the patchset
    run,       \* run[g]: where the task of generation g stands
    job        \* job[g][p]: where its review of patch p stands

set == <<status, target, active, lastGen>>
rows == <<patch, review, maxId>>
outbox == <<mail, comment>>
tasks == <<run, job>>
vars == <<set, rows, outbox, tasks>>

-----------------------------------------------------------------------------

Runs == 1..MaxRuns
Ids  == 1..MaxReviews

PatchsetStatus ==
    {"Fetching", "Incomplete", "Awaiting Review", "Pending", "In Review",
     "Reviewed", "Failed", "Failed To Apply", "Cancelled"}

(* "applied" and "error" say how the patch applied to the worktree.         *)
PatchStatus == {"Pending", "applied", "error",
                "Reviewed", "Skipped", "Failed", "Cancelled"}

(* "unused" and "deleted" are ids without a row.                           *)
ReviewStatus == {"unused", "deleted", "Pending", "In Review", "Reviewed",
                 "Skipped", "Failed", "Cancelled"}

(* infra: interaction_id IS NULL.  findings: how many attempts' findings   *)
(* the review has.                                                         *)
Review == [status : ReviewStatus, of : Patches \cup {"none"},
           infra : BOOLEAN, findings : 0..2]

Unused == [status |-> "unused", of |-> "none", infra |-> FALSE, findings |-> 0]

(* A row that is never to be sent ('Muted', 'Disabled'...) counts as none, *)
(* "Retrying" is 'Pending' after an attempt to send it.  review: whose     *)
(* text the mail has.  incomplete: the comment tells of a failed review.   *)
(* A mail that was given up is as final as one that was "Sent".            *)
OutboxStatus == {"none", "Pending", "Retrying", "Cancelled", "Sending",
                 "Sent", "Failed"}
Unsent == {"Pending", "Retrying"}

Mail == [status : OutboxStatus, review : {0} \cup Ids]

NoMail == [status |-> "none", review |-> 0]

Comment == [status : OutboxStatus, incomplete : BOOLEAN]

NoComment == [status |-> "none", incomplete |-> FALSE]

RunStage == {"none", "starting", "reviewing", "settling", "failing",
             "concluding", "posting", "crashing", "crashed", "releasing",
             "gone"}

JobStage == {"none", "filtered", "queued", "looking", "claiming", "running",
             "found", "skipped", "errored", "retrying", "saving",
             "completing", "failing", "skipping", "notifying",
             "closing", "closeFailed", "closeSkipped",
             "aborting", "abortingPatch", "ok", "failed", "dropped"}

Ended == {"none", "ok", "failed", "dropped"}

Job == [at : JobStage, id : {0} \cup Ids, retries : 0..MaxRetries]

JobAt(stage) == [at |-> stage, id |-> 0, retries |-> 0]

TypeOK ==
    /\ status \in PatchsetStatus
    /\ target \in 1..(MaxRuns + 1)
    /\ active \in 0..MaxRuns /\ lastGen \in 0..MaxRuns
    /\ maxId \in 0..MaxReviews
    /\ patch \in [Patches -> PatchStatus]
    /\ review \in [Ids -> Review]
    /\ mail \in [Patches -> Mail]
    /\ comment \in Comment
    /\ run \in [Runs -> RunStage]
    /\ job \in [Runs -> [Patches -> Job]]

Init ==
    /\ status = "Incomplete" /\ target = 1
    /\ active = 0 /\ lastGen = 0 /\ maxId = 0
    /\ patch = [p \in Patches |-> "Pending"]
    /\ review = [i \in Ids |-> Unused]
    /\ mail = [p \in Patches |-> NoMail]
    /\ comment = NoComment
    /\ run = [g \in Runs |-> "none"]
    /\ job = [g \in Runs |-> [p \in Patches |-> JobAt("none")]]

-----------------------------------------------------------------------------
(* Fences.                                                                 *)

(* is_patchset_claim_active, and the same test inside every claimed write. *)
ClaimActive(g) == status = "In Review" /\ active = g

(* is_patchset_claim_active_for_outbox, and the patchset is not Cancelled. *)
ClaimActiveForOutbox(g) ==
    active = g /\ status \in {"In Review", "Reviewed", "Failed"}

Exists(i) == review[i].status \notin {"unused", "deleted"}

(* The row can still be written by run g.                                  *)
Writable(g, i) ==
    ClaimActive(g) /\ i # 0 /\ Exists(i) /\ review[i].status # "Cancelled"

Successes(p) == {i \in Ids : review[i].of = p /\ review[i].status = "Reviewed"}
InfraFailed(p) ==
    {i \in Ids : /\ review[i].of = p /\ review[i].status = "Failed"
                 /\ review[i].infra}

(* count_successful_reviews >= n, without counting.                        *)
AtLeast(S, n) ==
    \E f \in [1..n -> S] : \A i, j \in 1..n : f[i] = f[j] => i = j

Newest(S) == CHOOSE i \in S : \A j \in S : j <= i

(* The id of the next review row: past every row, and past every row that  *)
(* a rerun deleted (reviews_max_id).                                       *)
(* Fault: deleted rows are forgotten.                                      *)
HighestRow ==
    CHOOSE n \in 0..MaxReviews :
      /\ \A i \in Ids : Exists(i) => i <= n
      /\ n = 0 \/ (n \in Ids /\ Exists(n))

HighestId ==
    CHOOSE n \in 0..MaxReviews :
      /\ n >= maxId /\ \A i \in Ids : Exists(i) => i <= n
      /\ n = maxId \/ (n \in Ids /\ Exists(n))

FreshId == HighestId + 1

-----------------------------------------------------------------------------
(* Building blocks of the transactions.                                    *)

(* update_patch_status by run g.                                           *)
SetPatch(g, p, s) ==
    patch' = IF ClaimActive(g) /\ patch[p] # "Cancelled"
             THEN [patch EXCEPT ![p] = s] ELSE patch

(* Row r, put (back) In Review with nothing of an earlier attempt.         *)
Cleared(r) == [r EXCEPT !.status = "In Review", !.infra = TRUE,
                        !.findings = 0]

(* Row r, ended by somebody else than the attempt that filled it.          *)
EndedAs(r, s) == [r EXCEPT !.status = s, !.infra = TRUE, !.findings = 0]

Deleted == [Unused EXCEPT !.status = "deleted"]

(* The mails left when the artifacts of reviews of the patches in S are    *)
(* deleted: an unsent mail goes unless its patch has a completed review.   *)
MailWithout(S) ==
    [p \in Patches |->
       IF /\ p \in S /\ Successes(p) = {}
          /\ mail[p].status \in Unsent \cup {"Cancelled"}
       THEN NoMail ELSE mail[p]]

(* cancel_outbox_for_patchset                                              *)
CancelOutbox ==
    /\ mail' = [p \in Patches |->
                  IF mail[p].status \in Unsent
                  THEN [mail[p] EXCEPT !.status = "Cancelled"] ELSE mail[p]]
    /\ comment' = IF comment.status \in Unsent
                  THEN [comment EXCEPT !.status = "Cancelled"] ELSE comment

(* Fault: a rerun begins from nothing.                                     *)
AnyRow(i) == Exists(i)

(* reset_patchset_review_state: the claim and every trace of attempts that *)
(* failed, were interrupted or were cancelled.                             *)
Spoiled(i) == \/ review[i].status = "Failed" /\ review[i].infra
              \/ review[i].status \in {"In Review", "Cancelled"}

ResetReviewState ==
    /\ active' = 0
    /\ patch' = [p \in Patches |->
                   IF \/ patch[p] \in {"Failed", "Cancelled", "error"}
                      \/ patch[p] = "applied" /\ Successes(p) = {}
                   THEN "Pending" ELSE patch[p]]
    /\ mail' = MailWithout({p \in Patches :
                   \/ mail[p].status = "Cancelled"
                   \/ \E i \in Ids : review[i].of = p /\ Spoiled(i)})
    /\ comment' = IF comment.status \in Unsent \cup {"Failed", "Cancelled"}
                  THEN NoComment ELSE comment
    /\ maxId' = HighestId
    /\ review' = [i \in Ids |->
                    IF Spoiled(i) THEN Deleted ELSE review[i]]

Settled == status \in {"Reviewed", "Failed", "Failed To Apply", "Cancelled"}

RunTo(g, stage) == run' = [run EXCEPT ![g] = stage]
JobTo(g, p, stage) == job' = [job EXCEPT ![g][p].at = stage]
JobEnds(g, p, stage) == job' = [job EXCEPT ![g][p] = JobAt(stage)]

(* The worker stops and empties the queue; who has a job at hand goes on.  *)
Drop(g, p, stage) ==
    job' = [job EXCEPT ![g] =
              [q \in Patches |->
                 IF q = p \/ job[g][q].at = "queued"
                 THEN JobAt(stage) ELSE job[g][q]]]

-----------------------------------------------------------------------------
(* Ingestion, maintainers, and the daemon's restart.                       *)

(* A part arrives, perhaps the last one, or the fetch of the commits fails *)
(* (FetchQueue).  A series that failed before all of it was there is open  *)
(* again; which one that is is not kept, and any failed one may be.        *)
Ingest ==
    /\ status \in {"Fetching", "Incomplete", "Failed"}
    /\ status' \in {"Incomplete", "Pending", "Awaiting Review", "Failed"}
    /\ UNCHANGED <<target, active, lastGen, rows, outbox, tasks>>

(* Fault: the rows that a restart made Pending are forgotten.              *)
InReview == {"In Review"}

Unended == {"Pending", "In Review"}

(* cancel_patchset: by a maintainer, or forced by one, or because a newer  *)
(* version of the series or of the pull request came in.                   *)
Cancel(force) ==
    /\ \/ status \in {"Fetching", "Pending", "Awaiting Review", "Incomplete"}
       \/ force /\ status = "In Review"
    /\ status' = "Cancelled" /\ active' = 0
    /\ review' = [i \in Ids |->
                    IF review[i].status \in Unended
                    THEN EndedAs(review[i], "Cancelled") ELSE review[i]]
    /\ patch' = [p \in Patches |->
                   IF \/ patch[p] = "Pending"
                      \/ patch[p] = "applied" /\ Successes(p) = {}
                   THEN "Cancelled" ELSE patch[p]]
    /\ CancelOutbox
    /\ UNCHANGED <<target, lastGen, maxId, tasks>>

(* A newer version of the pull request also takes back what a review that  *)
(* is over has not sent yet.                                               *)
Supersede ==
    /\ Settled
    /\ CancelOutbox
    /\ UNCHANGED <<set, rows, tasks>>

(* rerun_patchset, whatever the status.                                    *)
Rerun ==
    /\ status' = "Pending"
    /\ target' = IF status = "Reviewed" THEN target + 1 ELSE target
    /\ ResetReviewState
    /\ UNCHANGED <<lastGen, tasks>>

(* create_fetching_patchset finds a patchset of that name.                 *)
Refetch ==
    /\ status \in {"Failed", "Fetching", "Cancelled", "Failed To Apply"}
    /\ status' = "Fetching"
    /\ ResetReviewState
    /\ UNCHANGED <<target, lastGen, tasks>>

(* Interrupted rows go back to Pending, and the tasks are gone.            *)
Interrupt ==
    /\ review' = [i \in Ids |->
                    IF review[i].status = "In Review"
                    THEN [review[i] EXCEPT !.status = "Pending"]
                    ELSE review[i]]
    /\ run' = [g \in Runs |-> IF run[g] = "none" THEN "none" ELSE "gone"]
    /\ job' = [g \in Runs |-> [p \in Patches |-> JobAt("none")]]

(* Fault: the patchset is left In Review.                                  *)
RestartReviewsOnly ==
    /\ Interrupt
    /\ active' = 0
    /\ UNCHANGED <<status, target, lastGen, patch, maxId, outbox>>

(* The daemon dies and starts again: reset_reviewing_status.               *)
Restart ==
    /\ Interrupt
    /\ status' = IF status = "In Review" THEN "Pending" ELSE status
    /\ active' = 0
    /\ UNCHANGED <<target, lastGen, patch, maxId, outbox>>

(* The mail worker locks the mail of p, or cancels it instead; it is sent  *)
(* or given up, or swept back when that was never recorded.                *)
SendMail(p) ==
    /\ \/ /\ mail[p].status \in Unsent
          /\ mail' = [mail EXCEPT ![p].status =
                        IF status = "Cancelled" THEN "Cancelled" ELSE "Sending"]
       \/ /\ mail[p].status = "Sending"
          /\ \E s \in {"Sent", "Retrying"} :
               mail' = [mail EXCEPT ![p].status = s]
    /\ UNCHANGED <<set, rows, comment, tasks>>

(* The forge worker does the same with the comment, and retries it.  It    *)
(* also cancels the comment of a pull request that has a newer revision,   *)
(* which may be at any time.                                               *)
SendComment ==
    /\ \/ /\ comment.status \in Unsent
          /\ \E s \in {"Cancelled", "Sending"} :
               /\ s = "Sending" => status # "Cancelled"
               /\ comment' = [comment EXCEPT !.status = s]
       \/ /\ comment.status = "Sending"
          /\ \E s \in {"Sent", "Failed", "Retrying"} :
               comment' = [comment EXCEPT !.status = s]
    /\ UNCHANGED <<set, rows, mail, tasks>>

-----------------------------------------------------------------------------
(* The task of a run.                                                      *)

(* Fault: a patchset keeps its generation.                                 *)
SameGen == 1

NextGen == lastGen + 1

(* process_pending_patchsets: the claim and the task.                      *)
Claim ==
    /\ status = "Pending" /\ lastGen < MaxRuns
    /\ status' = "In Review"
    /\ lastGen' = NextGen /\ active' = NextGen
    /\ RunTo(NextGen, "starting")
    /\ UNCHANGED <<target, rows, outbox, job>>

(* review_patchset_task until its patches are queued.  The patches that a  *)
(* filter or a limit leaves out are marked and not queued.                 *)
Start(g) ==
    /\ run[g] = "starting"
    /\ \/ /\ ClaimActive(g)
          /\ RunTo(g, "reviewing")
          /\ \E out \in SUBSET Patches :
               job' = [job EXCEPT ![g] =
                         [p \in Patches |->
                            JobAt(IF p \in out THEN "filtered" ELSE "queued")]]
       \/ /\ ~ClaimActive(g)
          /\ RunTo(g, "releasing") /\ UNCHANGED job
       \/ /\ WritesFail
          /\ RunTo(g, "crashing") /\ UNCHANGED job
    /\ UNCHANGED <<set, rows, outbox>>

Filtering(g) == \E p \in Patches : job[g][p].at = "filtered"

Filter(g, p) ==
    /\ job[g][p].at = "filtered"
    /\ SetPatch(g, p, "Skipped")
    /\ JobEnds(g, p, "ok")
    /\ UNCHANGED <<set, review, maxId, outbox, run>>

(* Fault: the run writes what it came to, whoever has the claim by now.    *)
CompleteAnyway(g, final) == status' = final

(* complete_patchset_review under the claim of g.                          *)
CompletePatchset(g, final) ==
    status' = IF ClaimActive(g) THEN final ELSE status

(* The series applies to no baseline.                                      *)
NoBaseline(g) ==
    /\ run[g] = "starting"
    /\ CompletePatchset(g, "Failed To Apply")
    /\ RunTo(g, "releasing")
    /\ UNCHANGED <<target, active, lastGen, rows, outbox, job>>

AllOk(g) == \A p \in Patches : job[g][p].at = "ok"

(* Every worker of the run has come back.                                  *)
AllEnded(g) ==
    /\ run[g] = "reviewing"
    /\ \A p \in Patches : job[g][p].at \in Ended
    /\ RunTo(g, CASE \E p \in Patches : job[g][p].at = "dropped" -> "releasing"
                  [] AllOk(g) -> "concluding"
                  [] OTHER -> "settling")
    /\ job' = [job EXCEPT ![g] = [p \in Patches |-> JobAt("none")]]
    /\ UNCHANGED <<set, rows, outbox>>

(* fail_orphaned_in_review_rows                                            *)
FailOrphans(g) ==
    /\ \/ run[g] = "settling" /\ RunTo(g, "failing")
       \/ run[g] = "crashing" /\ RunTo(g, "crashed")
    /\ LET Orphans == {i \in Ids : /\ ClaimActive(g)
                                   /\ review[i].status = "In Review"}
       IN /\ review' = [i \in Ids |-> IF i \in Orphans
                                      THEN EndedAs(review[i], "Failed")
                                      ELSE review[i]]
          /\ mail' = MailWithout({review[i].of : i \in Orphans})
    /\ UNCHANGED <<set, patch, maxId, comment, job>>

(* The last status of the patchset, and what follows it.  After a crash    *)
(* the supervisor writes it and nothing is posted.                         *)
Conclude(g) ==
    /\ \/ run[g] = "concluding" /\ CompletePatchset(g, "Reviewed")
       \/ run[g] \in {"failing", "crashed"} /\ CompletePatchset(g, "Failed")
    /\ RunTo(g, IF ClaimActive(g) /\ run[g] # "crashed"
                THEN "posting" ELSE "releasing")
    /\ UNCHANGED <<target, active, lastGen, rows, outbox, job>>

(* queue_forge_pr_comment and insert_forge_outbox, for a pull request.  A  *)
(* comment that is already there is replaced if it was cancelled, or if it *)
(* reports an incomplete review and this one does not.                     *)
Post(g) ==
    /\ run[g] = "posting"
    /\ RunTo(g, "releasing")
    /\ LET new == [status |-> "Pending", incomplete |-> status = "Failed"]
       IN \/ UNCHANGED comment
          \/ /\ ClaimActiveForOutbox(g)
             /\ \/ comment.status \in {"none", "Cancelled"}
                \/ /\ comment.incomplete
                   /\ ~new.incomplete \/ comment.status \in Unsent \cup {"Failed"}
             /\ comment' = new
    /\ UNCHANGED <<set, rows, mail, job>>

(* Fault: only a run that queued its results releases its claim.           *)
WasConcluded(g) == active = g /\ status \in {"Reviewed", "Failed"}

(* release_patchset_claim                                                  *)
Releasable(g) == active = g /\ status # "In Review"

Release(g) ==
    /\ run[g] = "releasing"
    /\ active' = IF Releasable(g) THEN 0 ELSE active
    /\ RunTo(g, "gone")
    /\ UNCHANGED <<status, target, lastGen, rows, outbox, job>>

(* The task panics.  Its supervisor fails the review; the workers that it  *)
(* spawned, if the series has several patches, are detached and carry on.  *)
(* (An instance with one patch shows one patch of such a series.)          *)
Panic(g) ==
    /\ TasksPanic
    /\ run[g] \in {"starting", "reviewing"}
    /\ RunTo(g, "crashing")
    /\ job' \in {[job EXCEPT ![g] =
                    [p \in Patches |-> IF p \in detached THEN job[g][p]
                                       ELSE JobAt("none")]] :
                   detached \in SUBSET (IF Filtering(g) THEN {} ELSE Patches)}
    /\ UNCHANGED <<set, rows, outbox>>

(* The writes of the task that may fail, and what it does then.            *)
RunError(g) ==
    /\ WritesFail
    /\ \/ run[g] = "settling" /\ RunTo(g, "failing")
       \/ run[g] = "crashing" /\ RunTo(g, "crashed")
       \/ /\ run[g] \in {"starting", "failing", "concluding", "posting"}
          /\ RunTo(g, "releasing")
       \/ run[g] \in {"crashed", "releasing"} /\ RunTo(g, "gone")
    /\ UNCHANGED <<set, rows, outbox, job>>

-----------------------------------------------------------------------------
(* The review of patch p in run g: drain_review_queue and                  *)
(* process_patch_review.  A claim that is lost stays lost (LostForGood),   *)
(* so a check of the claim and the fenced write after it are one step:     *)
(* when the claim is gone, it was seen by the one or by the other.         *)

(* A worker takes the job and checks the claim.                            *)
Look(g, p) ==
    /\ job[g][p].at = "queued" /\ ~Filtering(g)
    /\ \/ ClaimActive(g) /\ JobTo(g, p, "looking")
       \/ ~ClaimActive(g) /\ Drop(g, p, "dropped")
       \/ WritesFail /\ Drop(g, p, "failed")
    /\ UNCHANGED <<set, rows, outbox, run>>

(* What earlier runs left.  A patch that is reviewed often enough is       *)
(* notified of again, in case that was interrupted.                        *)
Inspect(g, p) ==
    /\ job[g][p].at = "looking"
    /\ \/ /\ AtLeast(Successes(p), target)
          /\ job' = [job EXCEPT ![g][p] =
                       [JobAt("notifying") EXCEPT !.id = Newest(Successes(p))]]
       \/ /\ ~AtLeast(Successes(p), target)
          /\ JobTo(g, p, IF InfraFailed(p) # {} THEN "closeFailed"
                                                ELSE "claiming")
    /\ UNCHANGED <<set, rows, outbox, run>>

(* claim_or_create_in_review: the oldest Pending row of the patch, with    *)
(* nothing left in it, or a new row.                                       *)
PendingOf(p) == {i \in Ids : review[i].of = p /\ review[i].status = "Pending"}

Oldest(S) == CHOOSE i \in S : \A j \in S : i <= j

Begin(g, p, i) ==
    job' = [job EXCEPT ![g][p].at = "running", ![g][p].id = i]

ClaimReview(g, p) ==
    /\ job[g][p].at = "claiming" /\ ClaimActive(g)
    /\ \/ /\ PendingOf(p) # {}
          /\ LET i == Oldest(PendingOf(p))
             IN /\ review' = [review EXCEPT ![i] = Cleared(review[i])]
                /\ Begin(g, p, i)
          /\ mail' = MailWithout({p})
       \/ /\ PendingOf(p) = {} /\ FreshId \in Ids
          /\ review' = [review EXCEPT ![FreshId] =
                          Cleared([Unused EXCEPT !.of = p])]
          /\ Begin(g, p, FreshId)
          /\ UNCHANGED mail
    /\ UNCHANGED <<set, patch, maxId, comment, run>>

(* clear_aborted_review_artifacts, before the same row is tried again.     *)
Retry(g, p) ==
    /\ job[g][p].at = "retrying" /\ Writable(g, job[g][p].id)
    /\ review' = [review EXCEPT ![job[g][p].id] = Cleared(@)]
    /\ mail' = MailWithout({p})
    /\ JobTo(g, p, "running")
    /\ UNCHANGED <<set, patch, maxId, comment, run>>

(* The tool ends: it has a review, or skips on request, or has none; and   *)
(* the patch applied or did not.  run_review_tool stores the latter.       *)
ToolEnds(g, p) ==
    /\ job[g][p].at = "running"
    /\ \E to \in {"found", "skipped", "errored"},
          applied \in {"applied", "error", patch[p]} :
         /\ to = "errored" \/ applied = "applied" \/ WritesFail
         /\ JobTo(g, p, to)
         /\ patch' = IF /\ ClaimActive(g)
                        /\ patch[p] \in {"Pending", "applied", "error"}
                     THEN [patch EXCEPT ![p] = applied] ELSE patch
    /\ UNCHANGED <<set, review, maxId, outbox, run>>

(* Fault: the limit itself is retried.                                     *)
RetryAtLimit(g, p) == job[g][p].retries <= MaxRetries

RetryLeft(g, p) == job[g][p].retries < MaxRetries

(* The claim is checked and the result looked at.  A check that fails is   *)
(* passed over: the writes that follow are fenced.                         *)
Judge(g, p) ==
    /\ job[g][p].at \in {"found", "skipped", "errored"}
    /\ \/ ~ClaimActive(g) /\ JobTo(g, p, "aborting")
       \/ /\ ClaimActive(g) \/ WritesFail
          /\ \/ job[g][p].at = "found" /\ JobTo(g, p, "saving")
             \/ job[g][p].at = "skipped" /\ JobTo(g, p, "skipping")
             \/ /\ job[g][p].at = "errored" /\ RetryLeft(g, p)
                /\ job' = [job EXCEPT ![g][p].at = "retrying",
                                      ![g][p].retries = @ + 1]
             \/ /\ job[g][p].at = "errored"   \* no retries left, or no budget
                /\ JobTo(g, p, "failing")
    /\ UNCHANGED <<set, rows, outbox, run>>

(* create_finding, for the findings of the review.                         *)
SaveFindings(g, p) ==
    /\ job[g][p].at = "saving" /\ Writable(g, job[g][p].id)
    /\ review' = [review EXCEPT ![job[g][p].id].findings = @ + 1]
    /\ JobTo(g, p, "completing")
    /\ UNCHANGED <<set, patch, maxId, outbox, run>>

(* complete_review                                                         *)
Complete(g, p) ==
    /\ Writable(g, job[g][p].id)
    /\ \/ /\ job[g][p].at = "completing" /\ JobTo(g, p, "notifying")
          /\ review' = [review EXCEPT ![job[g][p].id].status = "Reviewed",
                                      ![job[g][p].id].infra = FALSE]
       \/ /\ job[g][p].at = "skipping" /\ JobTo(g, p, "closeSkipped")
          /\ review' = [review EXCEPT ![job[g][p].id].status = "Skipped"]
       \/ /\ job[g][p].at = "failing" /\ JobTo(g, p, "closeFailed")
          /\ \E infra \in BOOLEAN :
               review' = [review EXCEPT ![job[g][p].id].status = "Failed",
                                        ![job[g][p].id].infra = infra]
    /\ UNCHANGED <<set, patch, maxId, outbox, run>>

(* queue_notifications and insert_review_email_outbox: nothing while the   *)
(* patchset is embargoed or the policy has nobody to write to; else a mail *)
(* of this review, in the place of one that was not sent.                  *)
Notify(g, p) ==
    /\ job[g][p].at = "notifying"
    /\ JobTo(g, p, "closing")
    /\ \/ UNCHANGED mail
       \/ /\ ClaimActiveForOutbox(g)
          /\ mail[p].status \in Unsent \cup {"none", "Cancelled"}
          /\ mail' = [mail EXCEPT ![p] = [status |-> "Pending",
                                          review |-> job[g][p].id]]
    /\ UNCHANGED <<set, rows, comment, run>>

(* update_patch_status; the result goes back to the worker.                *)
Close(g, p) ==
    /\ \/ job[g][p].at = "closing" /\ SetPatch(g, p, "Reviewed")
          /\ JobEnds(g, p, "ok")
       \/ job[g][p].at = "closeSkipped" /\ SetPatch(g, p, "Skipped")
          /\ JobEnds(g, p, "ok")
       \/ job[g][p].at = "closeFailed" /\ SetPatch(g, p, "Failed")
          /\ JobEnds(g, p, "failed")
    /\ UNCHANGED <<set, review, maxId, outbox, run>>

(* The claim is gone: a write was refused, and the worker stops; or a      *)
(* check said so, and the row is cancelled first.                          *)
FindOut(g, p) ==
    /\ \/ job[g][p].at = "claiming" /\ ~ClaimActive(g)
       \/ /\ job[g][p].at \in {"retrying", "saving", "completing", "skipping",
                               "failing"}
          /\ ~Writable(g, job[g][p].id)
    /\ \/ Drop(g, p, "dropped")
       \/ /\ job[g][p].at \in {"claiming", "retrying"} /\ ~ClaimActive(g)
          /\ JobTo(g, p, "aborting")
    /\ UNCHANGED <<set, rows, outbox, run>>

(* cancel_aborted_review, or cancel_pending_review_for_patch without a row *)
Leftover(g, p) ==
    IF job[g][p].id # 0
    THEN {i \in {job[g][p].id} :
            review[i].status \in Unended \cup {"Cancelled"}}
    ELSE LET S == {i \in Ids : /\ review[i].of = p
                               /\ review[i].status \in Unended}
         IN IF S = {} THEN {} ELSE {Oldest(S)}

Abort(g, p) ==
    /\ job[g][p].at = "aborting" /\ JobTo(g, p, "abortingPatch")
    /\ LET S == IF status = "Cancelled" THEN Leftover(g, p) ELSE {}
       IN /\ review' = [i \in Ids |-> IF i \in S
                                      THEN EndedAs(review[i], "Cancelled")
                                      ELSE review[i]]
          /\ mail' = MailWithout({review[i].of : i \in S})
    /\ UNCHANGED <<set, patch, maxId, comment, run>>

AbortPatch(g, p) ==
    /\ job[g][p].at = "abortingPatch" /\ Drop(g, p, "dropped")
    /\ patch' = IF /\ status = "Cancelled"
                   /\ patch[p] \notin {"Reviewed", "Skipped", "Failed"}
                THEN [patch EXCEPT ![p] = "Cancelled"] ELSE patch
    /\ UNCHANGED <<set, review, maxId, outbox, run>>

(* A read or a write of the job fails.                                     *)
JobError(g, p) ==
    /\ WritesFail
    /\ \/ /\ job[g][p].at \in {"looking", "claiming", "retrying", "saving",
                               "completing", "skipping", "failing",
                               "notifying", "closing", "closeSkipped",
                               "closeFailed"}
          /\ JobEnds(g, p, "failed")
       \/ job[g][p].at = "aborting" /\ JobTo(g, p, "abortingPatch")
       \/ job[g][p].at = "abortingPatch" /\ Drop(g, p, "dropped")
       \/ job[g][p].at = "filtered" /\ JobEnds(g, p, "ok")
    /\ UNCHANGED <<set, rows, outbox, run>>

(* The review panics and the worker contains it:                           *)
(* settle_panicked_patch_review looks at the newest row of the patch.      *)
RowsOf(p) == {i \in Ids : review[i].of = p /\ Exists(i)}

JobPanic(g, p) ==
    /\ TasksPanic
    /\ job[g][p].at \notin Ended \cup {"queued", "filtered"}
    /\ \/ /\ ~ClaimActive(g) /\ Drop(g, p, "dropped")
          /\ UNCHANGED <<patch, review, mail>>
       \/ /\ ClaimActive(g) /\ JobEnds(g, p, "failed")
          /\ LET S == IF RowsOf(p) = {} THEN {} ELSE {Newest(RowsOf(p))}
                 InFlight == {i \in S : review[i].status = "In Review"}
                 Kept == \E i \in S : review[i].status = "Reviewed"
             IN /\ review' = [i \in Ids |-> IF i \in InFlight
                                            THEN EndedAs(review[i], "Failed")
                                            ELSE review[i]]
                /\ mail' = MailWithout({review[i].of : i \in InFlight})
                /\ SetPatch(g, p, IF Kept THEN "Reviewed" ELSE "Failed")
    /\ UNCHANGED <<set, maxId, comment, run>>

-----------------------------------------------------------------------------

People ==
    \/ Ingest \/ Supersede \/ Rerun \/ Refetch
    \/ \E force \in BOOLEAN : Cancel(force)

Delivery == SendComment \/ \E p \in Patches : SendMail(p)

Task(g) ==
    \/ Start(g) \/ NoBaseline(g) \/ AllEnded(g) \/ FailOrphans(g)
    \/ Conclude(g) \/ Post(g) \/ Release(g)

Work(g, p) ==
    \/ Filter(g, p) \/ Look(g, p) \/ Inspect(g, p) \/ ClaimReview(g, p)
    \/ Retry(g, p) \/ ToolEnds(g, p) \/ Judge(g, p) \/ SaveFindings(g, p)
    \/ Complete(g, p) \/ Notify(g, p) \/ Close(g, p) \/ FindOut(g, p)
    \/ Abort(g, p) \/ AbortPatch(g, p)

Faults(g) ==
    \/ Panic(g) \/ RunError(g)
    \/ \E p \in Patches : JobError(g, p) \/ JobPanic(g, p)

Next ==
    \/ People \/ Restart \/ Delivery \/ Claim
    \/ \E g \in Runs : \/ Task(g) \/ Faults(g)
                       \/ \E p \in Patches : Work(g, p)

Spec == Init /\ [][Next]_vars

(* The daemon polls for pending patchsets, and a task or a worker that can *)
(* go on does: tools and database operations are bounded by timeouts.      *)
Fairness ==
    /\ WF_vars(Claim)
    /\ \A g \in Runs : /\ WF_vars(Task(g))
                       /\ \A p \in Patches : WF_vars(Work(g, p))

FairSpec == Spec /\ Fairness

-----------------------------------------------------------------------------
(* Properties.                                                             *)

(* A run that lost its claim never has it again: cancelling, rerunning or  *)
(* restarting drops the marker and the next run has a new generation, so a *)
(* superseded worker can check the claim first and write later.            *)
LostForGood ==
    [][\A g \in Runs : run[g] # "none" /\ ~ClaimActive(g) =>
                         ~ClaimActive(g)']_vars

(* The id of a review that a rerun deleted is never given to another row   *)
(* (reviews_max_id), so that a worker of the deleted review, which still   *)
(* has the id, cannot write to somebody else's.                            *)
IdsAreNeverReused ==
    [][\A i \in Ids : review[i].status = "deleted" =>
                        review'[i].status = "deleted"]_vars

(* No two workers fill the same review row, not even when one of them was  *)
(* superseded and is not aware of it.                                      *)
Filling == {"running", "found", "skipped", "errored", "retrying", "saving",
            "completing", "failing", "skipping"}

NeverShared ==
    \A g, h \in Runs : \A p, q \in Patches :
      /\ job[g][p].at \in Filling /\ job[h][q].at \in Filling
      /\ job[g][p].id = job[h][q].id
      => g = h /\ p = q

(* A completed review has the findings of one attempt, whatever attempts   *)
(* were retried, interrupted by a restart or failed before.  Only where    *)
(* the task of a run panics may it have none: the supervisor clears rows   *)
(* that detached workers complete afterwards.                              *)
FindingsOfOneAttempt ==
    \A i \in Ids : review[i].status = "Reviewed" =>
       \/ review[i].findings = 1
       \/ TasksPanic /\ review[i].findings = 0

(* A mail has the text of a completed review of its patch, through every   *)
(* rerun, whether it waits or is being sent.                               *)
MailReportsReview ==
    \A p \in Patches : mail[p].status # "none" =>
       /\ mail[p].review \in Successes(p)

(* When a cancellation has committed, nothing of the patchset is under     *)
(* review or about to be sent, although workers that are not aware of it   *)
(* are still running.                                                      *)
CancelledIsQuiet ==
    status = "Cancelled" =>
       /\ \A i \in Ids : review[i].status \notin {"Pending", "In Review"}
       /\ \A p \in Patches : mail[p].status # "Pending"
       /\ comment.status # "Pending"

(* A comment that waits to be posted tells the outcome that the patchset   *)
(* still has: a rerun takes it back, and a superseded run queues none.     *)
(* Only where parts arrive after a review has failed may the comment that  *)
(* the review is incomplete wait on; a later outcome replaces it.          *)
CommentIsCurrent ==
    comment.status = "Pending" =>
       IF comment.incomplete THEN status \notin {"Fetching", "Cancelled"}
                             ELSE status = "Reviewed"

(* A patch counts as reviewed when a completed review of it exists, and a  *)
(* patchset when all its patches do or were skipped.  (A failed write may  *)
(* leave a patch that a filter leaves out as it was.)                      *)
ReviewedMeansReviewed ==
    /\ \A p \in Patches : patch[p] = "Reviewed" => Successes(p) # {}
    /\ status = "Reviewed" =>
         WritesFail \/ \A p \in Patches : patch[p] \in {"Reviewed", "Skipped"}

(* The inductive invariant: what keeps the properties above.               *)

(* Generations are handed out in order, and only a status that some run    *)
(* reached raises the number of reviews that is asked for.                 *)
ClaimsInOrder ==
    /\ active <= lastGen
    /\ \A g \in Runs : run[g] # "none" => g <= lastGen
    /\ target <= lastGen + 1
    /\ status \in {"In Review", "Reviewed"} => target <= lastGen

(* A run posts its comment when its outcome is recorded, or it was too late. *)
PostsWhenDecided == \A g \in Runs : run[g] = "posting" => ~ClaimActive(g)

(* reviews_max_id is past every deleted row.                               *)
DeletedBelow == \A i \in Ids : review[i].status = "deleted" => i <= maxId

(* Jobs exist while their task supervises them, or detached after a panic. *)
JobsHaveTask ==
    \A g \in Runs :
      \/ run[g] \in {"none", "starting", "concluding"}
      \/ ~TasksPanic /\ run[g] # "reviewing"
      => \A p \in Patches : job[g][p].at = "none"

(* A row that a job fills is still that job's own, or was ended by someone *)
(* else; nothing is in it until the job's findings are saved, and then     *)
(* they are, unless the supervisor of a task that panicked removed them.   *)
OwnRow(g, p) ==
    LET i == job[g][p].id
    IN /\ i \in Ids
       /\ \/ /\ review[i].status \in {"In Review", "Failed", "Cancelled"}
             /\ review[i].of = p
          \/ review[i].status = "deleted"
       /\ job[g][p].at # "completing" => review[i].findings = 0
       /\ review[i].findings \in 0..1
       /\ job[g][p].at = "completing" /\ ClaimActive(g) =>
            review[i].findings = 1 \/ TasksPanic

FillingOwnRow ==
    \A g \in Runs, p \in Patches : job[g][p].at \in Filling => OwnRow(g, p)

(* A job notifies of, and closes a patch with, a completed review of it.   *)
NotifiesReview ==
    \A g \in Runs, p \in Patches :
      job[g][p].at \in {"notifying", "closing"} => job[g][p].id \in Successes(p)

(* While a run has its claim, the patches of the jobs that went well are   *)
(* marked, and all of them when it concludes.                              *)
OkIsMarked ==
    /\ \A p \in Patches : patch[p] = "Cancelled" => status = "Cancelled"
    /\ \A g \in Runs, p \in Patches :
         /\ ClaimActive(g)
         /\ job[g][p].at = "ok" \/ run[g] = "concluding"
         => WritesFail \/ patch[p] \in {"Reviewed", "Skipped"}

(* The invariant: superseded workers and the claims, rows, ids and mails   *)
(* that they know of stay apart from those of the current run.  Each part  *)
(* needs others to be kept by every step; together they need nothing else. *)
IInv ==
    /\ TypeOK
    /\ ClaimsInOrder /\ PostsWhenDecided /\ CommentIsCurrent
    /\ CancelledIsQuiet /\ DeletedBelow /\ JobsHaveTask
    /\ NeverShared /\ FillingOwnRow /\ FindingsOfOneAttempt
    /\ NotifiesReview /\ MailReportsReview
    /\ OkIsMarked /\ ReviewedMeansReviewed

(* A pending patchset gets an outcome.  (The number of runs is bounded     *)
(* here: it may also be left pending after the last.)                      *)
EventuallyDecided ==
    status = "Pending" ~>
        Settled \/ (status = "Pending" /\ lastGen = MaxRuns)

(* The marker of a claim is removed in the end, whatever its run came to.  *)
ClaimsEnd == \A g \in Runs : active = g ~> active # g

-----------------------------------------------------------------------------
(* What the patchset looks like to the rest of the daemon.                 *)

StatusOutside ==
    CASE status \in {"Awaiting Review", "Pending", "In Review"} -> "Pending"
      [] status \in {"Failed", "Failed To Apply"} -> "Failed"
      [] OTHER -> status

Life == INSTANCE PatchsetLife
        WITH Patchsets <- {"this"}, status <- [p \in {"this"} |-> StatusOutside]

(* "Retrying" is Pending, and a mail that is "Sent" may have been given up. *)
RowOutside(r) ==
    CASE r.status = "Retrying" -> "Pending"
      [] r.status = "Sent" -> "Over"
      [] OTHER -> r.status

(* Whether a newer revision is there is not kept.                          *)
Mails == INSTANCE OutboxLife
         WITH Items <- Patches, kind <- "mail",
              row <- [p \in Patches |-> RowOutside(mail[p])],
              cancelled <- [p \in Patches |-> status = "Cancelled"],
              newer <- [p \in Patches |-> FALSE]

Comments == INSTANCE OutboxLife
            WITH Items <- {"this"}, kind <- "forge",
                 row <- [p \in {"this"} |-> RowOutside(comment)],
                 cancelled <- [p \in {"this"} |-> status = "Cancelled"],
                 newer <- [p \in {"this"} |-> FALSE]

(* Runs that are superseded, that crash or end late, and restarts, move    *)
(* the status of the patchset only as fetching expects them to: a review   *)
(* decides what is handed over and touches nothing else, and a restart     *)
(* takes nothing back from it.  And whatever they queue, clean up or take  *)
(* back they leave the rows alone that the workers of the outboxes hold,   *)
(* or have delivered.                                                      *)
MovesAsAgreed == Life!Spec /\ Mails!Spec /\ Comments!Spec

=============================================================================
