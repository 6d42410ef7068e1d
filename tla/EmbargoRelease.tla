--------------------------- MODULE EmbargoRelease ---------------------------
(***************************************************************************)
(* The embargo on the results of a patchset (src/src/db.rs,                *)
(* src/src/reviewer.rs): messages of the series place it, a maintainer     *)
(* lifts it, the runs that review the patchset hold their mail back and    *)
(* queue the comment of the pull request as Embargoed, and a release       *)
(* queues what was held back and clears the embargo.                       *)
(*                                                                         *)
(* Two kinds of process release: the loop of the Reviewer, which polls the *)
(* database, and the end of a run.  A release is a claim that is good for  *)
(* ClaimAge, a mail per completed review, the comment, and the clearing:   *)
(* each is a write of its own, and other processes come in between.  Both  *)
(* work on a row of the patchset they read earlier.                        *)
(*                                                                         *)
(* A run is reduced to what its embargo needs (PatchsetReview has the      *)
(* rest): a completed review per patch, the mail, the final status.        *)
(*                                                                         *)
(* An operator whose comment begins with "Fault:" is a plausible mistake   *)
(* in the operator that follows it.  No action uses it; the project checks *)
(* that substituting it breaks a property.                                 *)
(***************************************************************************)
EXTENDS Integers, FiniteSets

CONSTANTS
    Patches,     \* the patches of the series
    MaxRuns,     \* bound: the number of runs
    MaxTime,     \* bound: the last instant
    MaxFaults,   \* bound: failed database operations and restarts
    ClaimAge,    \* 600 s: how long a release keeps its claim
    IsPR         \* whether the series is a pull request (mr_url)

ASSUME EmbargoAssumption ==
    /\ MaxRuns \in Nat \ {0}
    /\ MaxTime \in Nat /\ MaxFaults \in Nat /\ ClaimAge \in Nat \ {0}
    /\ IsPR \in BOOLEAN

VARIABLES
    now,       \* the clock
    faults,    \* failures so far
    status,    \* patchsets.status
    target,    \* patchsets.target_review_count
    embargo,   \* patchsets.embargo_until
    claimedAt, \* patchsets.embargo_release_started_at
    active,    \* meta: patchset_active_gen, 0 for no row
    lastGen,   \* meta: patchset_gen_seq
    review,    \* review[g][p]: what run g's completed review of p says
    mail,      \* email_outbox: one row per patch
    comment,   \* forge_outbox: one row for the patchset
    run,       \* run[g]: the task of generation g
    rel,       \* rel[0]: the loop's release; rel[g]: that of run g
    poll       \* the row of the pending patchset the loop is to claim

row == <<status, target, embargo, claimedAt, active, lastGen>>
outbox == <<mail, comment>>
vars == <<now, faults, row, review, outbox, run, rel, poll>>

-----------------------------------------------------------------------------

None == -1
Time == 0..MaxTime
Runs == 1..MaxRuns
Loop == 0
Releasers == {Loop} \cup Runs

PatchsetStatus == {"Pending", "InReview", "Reviewed", "Failed", "Cancelled"}

Verdict == {"none", "clean", "findings"}

(* "Sent" stands for every end of a delivery; of: the run whose review the *)
(* mail has.                                                               *)
Mail == [status : {"none", "Pending", "Cancelled", "Sent"},
         of : {0} \cup Runs]

NoMail == [status |-> "none", of |-> 0]

Comment == [status : {"none", "Embargoed", "Pending", "Cancelled", "Sent"},
            incomplete : BOOLEAN]

NoComment == [status |-> "none", incomplete |-> FALSE]

JobStage == {"none", "todo", "completed", "ok", "failed"}

(* embargo: the embargo_until of the row the run was given.                *)
Run == [at : {"none", "reviewing", "posting", "ending", "gone"},
        embargo : {None} \cup Time, success : BOOLEAN,
        job : [Patches -> JobStage]]

NoRun == [at |-> "none", embargo |-> None, success |-> FALSE,
          job |-> [p \in Patches |-> "none"]]

Gone == [NoRun EXCEPT !.at = "gone"]

(* status: that of the row the release was given; todo: the reviews still  *)
(* to be queued; gen: the newest run when it claimed.                      *)
Release == [at : {"idle", "claiming", "reading", "queueing", "comment",
                  "clearing", "failing"},
            status : PatchsetStatus, todo : SUBSET (Patches \X Runs),
            gen : {0} \cup Runs]

Idle == [at |-> "idle", status |-> "Pending", todo |-> {}, gen |-> 0]

TypeOK ==
    /\ now \in Time /\ faults \in 0..MaxFaults
    /\ status \in PatchsetStatus
    /\ target \in Nat \ {0}
    /\ embargo \in {None} \cup Time
    /\ claimedAt \in {None} \cup Time
    /\ active \in {0} \cup Runs /\ lastGen \in {0} \cup Runs
    /\ review \in [Runs -> [Patches -> Verdict]]
    /\ mail \in [Patches -> Mail]
    /\ comment \in Comment
    /\ run \in [Runs -> Run]
    /\ rel \in [Releasers -> Release]
    /\ poll \in [due : BOOLEAN, embargo : {None} \cup Time]

NoPoll == [due |-> FALSE, embargo |-> None]

(* The parts of the series have arrived, with or without an embargo.       *)
Init ==
    /\ now = 0 /\ faults = 0
    /\ status = "Pending" /\ target = 1
    /\ embargo \in {None} \cup Time /\ claimedAt = None
    /\ active = 0 /\ lastGen = 0
    /\ review = [g \in Runs |-> [p \in Patches |-> "none"]]
    /\ mail = [p \in Patches |-> NoMail]
    /\ comment = NoComment
    /\ run = [g \in Runs |-> NoRun]
    /\ rel = [r \in Releasers |-> Idle]
    /\ poll = NoPoll

-----------------------------------------------------------------------------
(* What the code asks of a row.                                            *)

(* embargo_until > now                                                     *)
InForce(until) == until > now

ClaimActive(g) == status = "InReview" /\ active = g

(* is_patchset_claim_active_for_outbox, and the patchset is not Cancelled; *)
(* the loop holds no claim.                                                *)
MayQueue(r) ==
    IF r = Loop THEN status # "Cancelled"
    ELSE active = r /\ status \in {"InReview", "Reviewed", "Failed"}

Completed(p) == {g \in Runs : review[g][p] # "none"}
IsLatest(p, g) == g \in Completed(p) /\ \A h \in Completed(p) : h <= g

(* CLEAN_PATCHSET_PREDICATE                                                *)
Clean ==
    /\ \A p \in Patches : Cardinality(Completed(p)) >= target
    /\ \A p \in Patches, g \in Runs : review[g][p] # "findings"

(* Fault: a claim is kept until it is given back.                          *)
ReleasableUnclaimed ==
    /\ status = "Reviewed" \/ (status = "Failed" /\ IsPR)
    /\ embargo # None
    /\ claimedAt = None
    /\ embargo <= now \/ (status = "Reviewed" /\ Clean)

(* Fault: any review that is over is released at once.                     *)
ReleasableReviewed ==
    /\ status = "Reviewed" \/ (status = "Failed" /\ IsPR)
    /\ embargo # None
    /\ claimedAt = None \/ claimedAt <= now - ClaimAge
    /\ embargo <= now \/ status = "Reviewed"

(* get_releasable_embargoed_patchsets and claim_patchset_embargo_release   *)
Releasable ==
    /\ status = "Reviewed" \/ (status = "Failed" /\ IsPR)
    /\ embargo # None
    /\ claimedAt = None \/ claimedAt <= now - ClaimAge
    /\ embargo <= now \/ (status = "Reviewed" /\ Clean)

(* insert_review_email_outbox: an unsent mail gets the text of the newer   *)
(* review, one that was handed over stays.                                 *)
MailWith(p, g) ==
    IF mail[p].status = "Sent" THEN mail
    ELSE [mail EXCEPT ![p] = [status |-> "Pending", of |-> g]]

(* insert_forge_outbox: a comment is replaced if it was cancelled, or if   *)
(* it tells of a review that failed and the new one says more.             *)
CommentWith(s, incomplete) ==
    IF \/ comment.status \in {"none", "Cancelled"}
       \/ comment.incomplete /\ (~incomplete \/ comment.status # "Sent")
    THEN [status |-> s, incomplete |-> incomplete] ELSE comment

Fail == faults < MaxFaults /\ faults' = faults + 1

-----------------------------------------------------------------------------
(* The clock, ingestion, people, the outbox workers.                       *)

Tick ==
    /\ now < MaxTime
    /\ now' = now + 1
    /\ UNCHANGED <<faults, row, review, outbox, run, rel, poll>>

(* set_patchset_embargo_until_if_non_terminal, for one more message.       *)
PlaceEmbargo(until) ==
    /\ status \in {"Pending", "InReview"}
    /\ embargo' = until
    /\ UNCHANGED <<now, faults, status, target, claimedAt, active, lastGen,
                   review, outbox, run, rel, poll>>

(* release_patchset_embargo: over now, and left to the loop.               *)
LiftEmbargo ==
    /\ embargo # None /\ InForce(embargo)
    /\ embargo' = now
    /\ UNCHANGED <<now, faults, status, target, claimedAt, active, lastGen,
                   review, outbox, run, rel, poll>>

CancelOutbox ==
    /\ mail' = [p \in Patches |->
                  IF mail[p].status = "Pending"
                  THEN [mail[p] EXCEPT !.status = "Cancelled"] ELSE mail[p]]
    /\ comment' = IF comment.status \in {"Embargoed", "Pending"}
                  THEN [comment EXCEPT !.status = "Cancelled"] ELSE comment

(* cancel_patchset                                                         *)
Cancel ==
    /\ status \in {"Pending", "InReview"}
    /\ status' = "Cancelled" /\ active' = 0
    /\ CancelOutbox
    /\ UNCHANGED <<now, faults, target, embargo, claimedAt, lastGen, review,
                   run, rel, poll>>

(* Fault: the claim of the run that was going on stays.                    *)
RerunKeepsClaim ==
    /\ lastGen < MaxRuns
    /\ status' = "Pending" /\ UNCHANGED active
    /\ target' = IF status = "Reviewed" THEN target + 1 ELSE target
    /\ mail' = [p \in Patches |->
                  IF Completed(p) = {} /\ mail[p].status # "Sent"
                  THEN NoMail ELSE mail[p]]
    /\ comment' = IF comment.status = "Sent" THEN comment ELSE NoComment
    /\ UNCHANGED <<now, faults, embargo, claimedAt, lastGen, review, run,
                   rel, poll>>

(* rerun_patchset: neither the embargo nor the claim of a release changes. *)
(* An unsent mail goes unless its patch has a completed review.            *)
Rerun ==
    /\ lastGen < MaxRuns
    /\ status' = "Pending" /\ active' = 0
    /\ target' = IF status = "Reviewed" THEN target + 1 ELSE target
    /\ mail' = [p \in Patches |->
                  IF Completed(p) = {} /\ mail[p].status # "Sent"
                  THEN NoMail ELSE mail[p]]
    /\ comment' = IF comment.status = "Sent" THEN comment ELSE NoComment
    /\ UNCHANGED <<now, faults, embargo, claimedAt, lastGen, review, run,
                   rel, poll>>

Deliver ==
    /\ \/ /\ \E p \in Patches :
               /\ mail[p].status = "Pending"
               /\ mail' = [mail EXCEPT ![p].status = "Sent"]
          /\ UNCHANGED comment
       \/ /\ comment.status = "Pending"
          /\ comment' = [comment EXCEPT !.status = "Sent"]
          /\ UNCHANGED mail
    /\ UNCHANGED <<now, faults, row, review, run, rel, poll>>

(* The daemon dies and starts again: reset_reviewing_status.               *)
Restart ==
    /\ Fail
    /\ status' = IF status = "InReview" THEN "Pending" ELSE status
    /\ active' = 0
    /\ run' = [g \in Runs |->
                 IF run[g].at = "none" THEN NoRun ELSE Gone]
    /\ rel' = [r \in Releasers |-> Idle]
    /\ poll' = NoPoll
    /\ UNCHANGED <<now, target, embargo, claimedAt, lastGen, review, outbox>>

-----------------------------------------------------------------------------
(* A run.                                                                  *)

(* get_pending_patchsets: the row is read, and then the loop waits for a   *)
(* permit.                                                                 *)
Poll ==
    /\ rel[Loop].at = "idle" /\ ~poll.due
    /\ status = "Pending" /\ lastGen < MaxRuns
    /\ poll' = [due |-> TRUE, embargo |-> embargo]
    /\ UNCHANGED <<now, faults, row, review, outbox, run, rel>>

(* claim_patchset_for_review_with_gen, and review_patchset_task is spawned *)
(* with the row read before.                                               *)
StartRun ==
    /\ poll.due /\ poll' = NoPoll
    /\ IF status = "Pending" /\ lastGen < MaxRuns
       THEN /\ lastGen' = lastGen + 1 /\ active' = lastGen + 1
            /\ status' = "InReview"
            /\ run' = [run EXCEPT ![lastGen + 1] =
                         [at |-> "reviewing", embargo |-> poll.embargo,
                          success |-> FALSE,
                          job |-> [p \in Patches |-> "todo"]]]
       ELSE UNCHANGED <<lastGen, active, status, run>>
    /\ UNCHANGED <<now, faults, target, embargo, claimedAt, review, outbox,
                   rel>>

JobTo(g, p, stage) == run' = [run EXCEPT ![g].job[p] = stage]

(* The review of one patch is completed, is there already, or fails.       *)
ReviewPatch(g, p) ==
    /\ run[g].at = "reviewing" /\ run[g].job[p] = "todo"
    /\ \/ /\ ~ClaimActive(g)
          /\ JobTo(g, p, "failed") /\ UNCHANGED review
       \/ /\ ClaimActive(g) /\ Cardinality(Completed(p)) >= target
          /\ JobTo(g, p, "completed") /\ UNCHANGED review
       \/ /\ ClaimActive(g) /\ Cardinality(Completed(p)) < target
          /\ \/ /\ \E v \in {"clean", "findings"} :
                     review' = [review EXCEPT ![g][p] = v]
                /\ JobTo(g, p, "completed")
             \/ JobTo(g, p, "failed") /\ UNCHANGED review
    /\ UNCHANGED <<now, faults, row, outbox, rel, poll>>

(* The mail of a completed review, unless the row the run was given has an *)
(* embargo in force.                                                       *)
Notify(g, p) ==
    /\ run[g].at = "reviewing" /\ run[g].job[p] = "completed"
    /\ \/ /\ JobTo(g, p, "ok")
          /\ IF ~InForce(run[g].embargo) /\ MayQueue(g)
             THEN \E h \in Runs : IsLatest(p, h) /\ mail' = MailWith(p, h)
             ELSE UNCHANGED mail
          /\ UNCHANGED faults
       \/ /\ Fail
          /\ JobTo(g, p, "failed") /\ UNCHANGED mail
    /\ UNCHANGED <<now, row, review, comment, rel, poll>>

(* complete_patchset_review_status, or the run finds itself superseded.    *)
Conclude(g) ==
    /\ run[g].at = "reviewing"
    /\ \A p \in Patches : run[g].job[p] \in {"ok", "failed"}
    /\ LET success == \A p \in Patches : run[g].job[p] = "ok" IN
       IF ClaimActive(g)
       THEN /\ status' = IF success THEN "Reviewed" ELSE "Failed"
            /\ run' = [run EXCEPT ![g] = [NoRun EXCEPT
                         !.at = "posting", !.embargo = run[g].embargo,
                         !.success = success]]
       ELSE /\ run' = [run EXCEPT ![g] = Gone]
            /\ UNCHANGED status
    /\ UNCHANGED <<now, faults, target, embargo, claimedAt, active, lastGen,
                   review, outbox, rel, poll>>

(* queue_forge_pr_comment; a failure is only logged.  Then the end of the  *)
(* task, or a release by the task, with the row it was given: that has     *)
(* been "InReview" ever since the run was claimed.                        *)
Post(g) ==
    /\ run[g].at = "posting"
    /\ \/ /\ comment' = IF IsPR /\ MayQueue(g)
                        THEN CommentWith(IF InForce(run[g].embargo)
                                         THEN "Embargoed" ELSE "Pending",
                                         ~run[g].success)
                        ELSE comment
          /\ UNCHANGED faults
       \/ Fail /\ UNCHANGED comment
    /\ run' = [run EXCEPT ![g] = [NoRun EXCEPT !.at = "ending"]]
    /\ rel' = IF run[g].success /\ run[g].embargo # None
              THEN [rel EXCEPT ![g] = [Idle EXCEPT !.at = "claiming",
                                                   !.status = "InReview"]]
              ELSE rel
    /\ UNCHANGED <<now, row, review, mail, poll>>

(* release_patchset_claim                                                  *)
EndRun(g) ==
    /\ run[g].at = "ending" /\ rel[g].at = "idle"
    /\ run' = [run EXCEPT ![g] = Gone]
    /\ active' = IF active = g /\ status # "InReview" THEN 0 ELSE active
    /\ UNCHANGED <<now, faults, status, target, embargo, claimedAt, lastGen,
                   review, outbox, rel, poll>>

RunStep(g) ==
    \/ \E p \in Patches : ReviewPatch(g, p) \/ Notify(g, p)
    \/ Conclude(g) \/ Post(g) \/ EndRun(g)

-----------------------------------------------------------------------------
(* A release.                                                              *)

RelTo(r, stage) == rel' = [rel EXCEPT ![r].at = stage]

(* release_embargoed_results: get_releasable_embargoed_patchsets           *)
PickReleasable ==
    /\ rel[Loop].at = "idle" /\ ~poll.due
    /\ Releasable
    /\ rel' = [rel EXCEPT ![Loop] = [Idle EXCEPT !.at = "claiming",
                                                 !.status = status]]
    /\ UNCHANGED <<now, faults, row, review, outbox, run, poll>>

(* claim_patchset_embargo_release                                          *)
ClaimRelease(r) ==
    /\ rel[r].at = "claiming"
    /\ IF Releasable
       THEN /\ claimedAt' = now
            /\ rel' = [rel EXCEPT ![r].at = "reading", ![r].gen = lastGen]
       ELSE /\ rel' = [rel EXCEPT ![r] = Idle]
            /\ UNCHANGED claimedAt
    /\ UNCHANGED <<now, faults, status, target, embargo, active, lastGen,
                   review, outbox, run, poll>>

(* get_completed_reviews_for_release, latest_completed_reviews_by_part: of *)
(* a row that is Reviewed.                                                 *)
ReadReviews(r) ==
    /\ rel[r].at = "reading"
    /\ rel' = [rel EXCEPT ![r].at = "queueing", ![r].todo =
                 IF rel[r].status = "Reviewed"
                 THEN {x \in Patches \X Runs : IsLatest(x[1], x[2])} ELSE {}]
    /\ UNCHANGED <<now, faults, row, review, outbox, run, poll>>

(* Fault: a notification that cannot be queued is only logged.             *)
QueueMailOrLog(r) ==
    /\ rel[r].at = "queueing"
    /\ \E x \in rel[r].todo :
         /\ rel' = [rel EXCEPT ![r].todo = @ \ {x}]
         /\ \/ mail' = IF MayQueue(r) THEN MailWith(x[1], x[2]) ELSE mail
            \/ UNCHANGED mail
    /\ UNCHANGED <<now, faults, row, review, comment, run, poll>>

(* queue_notifications for one review.                                     *)
QueueMail(r) ==
    /\ rel[r].at = "queueing"
    /\ \E x \in rel[r].todo :
         /\ rel' = [rel EXCEPT ![r].todo = @ \ {x}]
         /\ mail' = IF MayQueue(r) THEN MailWith(x[1], x[2]) ELSE mail
    /\ UNCHANGED <<now, faults, row, review, comment, run, poll>>

(* release_embargoed_forge_outbox                                          *)
ReleaseComment(r) ==
    /\ rel[r].at = "queueing" /\ rel[r].todo = {}
    /\ comment' = IF comment.status = "Embargoed"
                  THEN [comment EXCEPT !.status = "Pending"] ELSE comment
    /\ RelTo(r, "clearing")
    /\ UNCHANGED <<now, faults, row, review, mail, run, poll>>

(* clear_patchset_embargo                                                  *)
ClearEmbargo(r) ==
    /\ rel[r].at = "clearing"
    /\ embargo' = None /\ claimedAt' = None
    /\ rel' = [rel EXCEPT ![r] = Idle]
    /\ UNCHANGED <<now, faults, status, target, active, lastGen, review,
                   outbox, run, poll>>

(* One of the writes fails: what is queued stays, and the claim is given   *)
(* back, if that write does not fail too.                                  *)
FailRelease(r) ==
    /\ \/ /\ rel[r].at \in {"reading", "queueing", "clearing"}
          /\ Fail /\ RelTo(r, "failing") /\ UNCHANGED claimedAt
       \/ /\ rel[r].at = "failing"
          /\ rel' = [rel EXCEPT ![r] = Idle]
          /\ \/ claimedAt' = None /\ UNCHANGED faults
             \/ Fail /\ UNCHANGED claimedAt
    /\ UNCHANGED <<now, status, target, embargo, active, lastGen, review,
                   outbox, run, poll>>

RelStep(r) ==
    \/ ClaimRelease(r) \/ ReadReviews(r) \/ QueueMail(r)
    \/ ReleaseComment(r) \/ ClearEmbargo(r) \/ FailRelease(r)

-----------------------------------------------------------------------------

Next ==
    \/ Tick \/ LiftEmbargo \/ Cancel \/ Rerun \/ Deliver \/ Restart
    \/ \E until \in Time : PlaceEmbargo(until)
    \/ Poll \/ StartRun \/ PickReleasable
    \/ \E g \in Runs : RunStep(g)
    \/ \E r \in Releasers : RelStep(r)

Spec == Init /\ [][Next]_vars

(* The tasks of the daemon are scheduled, and time passes.                 *)
Fairness ==
    /\ WF_vars(Tick) /\ WF_vars(Poll) /\ WF_vars(StartRun)
    /\ WF_vars(PickReleasable)
    /\ \A g \in Runs : WF_vars(RunStep(g))
    /\ \A r \in Releasers : WF_vars(RelStep(r))

FairSpec == Spec /\ Fairness

-----------------------------------------------------------------------------
(* Properties.                                                             *)

Holding(r) == rel[r].at \in {"reading", "queueing", "clearing", "failing"}

(* The patchset was rerun or cancelled since release r claimed it.         *)
Overtaken(r) == rel[r].gen # lastGen \/ status # "Reviewed"

NoFindings == \A p \in Patches, g \in Runs : review[g][p] # "findings"

(* A patchset that waits for a run has no claim, and nothing is known of a *)
(* run that was not started.                                               *)
GenerationsOK ==
    /\ status = "Pending" => active = 0
    /\ active <= lastGen
    /\ \A g \in Runs : run[g].at # "none" => g <= lastGen

(* No review began under the release, unless a newer generation has it.    *)
ReleasesAfterReview ==
    \A r \in Releasers : Holding(r) =>
        /\ rel[r].gen <= lastGen
        /\ rel[r].gen = lastGen => status # "InReview"

(* What lets a release begin lasts: while nobody reruns the patchset, it   *)
(* has no finding or its embargo is over, whatever messages arrive.        *)
ReleasesAreDue ==
    \A r \in Releasers : Holding(r) /\ ~Overtaken(r) =>
        NoFindings \/ ~InForce(embargo)

(* Only the loop is given rows that are Reviewed, so only it queues mail;  *)
(* and a run whose claim is active has not concluded.                      *)
WhoQueues ==
    /\ \A g \in Runs : rel[g].status # "Reviewed" /\ rel[g].todo = {}
    /\ \A g \in Runs : run[g].at = "reviewing" /\ active = g =>
                         status = "InReview"

(* The mail of patch p is handed over, or tells the latest review.         *)
MailIsCurrent(p) ==
    \/ mail[p].status = "Sent"
    \/ mail[p].status # "none" /\ IsLatest(p, mail[p].of)

(* What the loop's release has not queued is on its list, as it now is.    *)
QueuedOrListed ==
    (/\ rel[Loop].at \in {"queueing", "clearing"}
     /\ rel[Loop].status = "Reviewed" /\ ~Overtaken(Loop)) =>
       /\ \A x \in rel[Loop].todo : IsLatest(x[1], x[2])
       /\ \A p \in Patches : Completed(p) # {} =>
            \/ MailIsCurrent(p)
            \/ \E x \in rel[Loop].todo : x[1] = p

(* The loop reaches the clearing with an empty list.                       *)
ListIsDone == rel[Loop].at = "clearing" => rel[Loop].todo = {}

(* The invariant that the proofs rest on: how the claims of runs and of    *)
(* releases exclude each other (claim_patchset_embargo_release is tested   *)
(* once, and its answer is relied on for several writes).                  *)
IInv ==
    /\ TypeOK /\ GenerationsOK /\ ReleasesAfterReview /\ ReleasesAreDue
    /\ WhoQueues /\ QueuedOrListed /\ ListIsDone

QueuesFindings(p) ==
    /\ mail'[p] # mail[p] /\ mail'[p].status = "Pending"
    /\ review[mail'[p].of][p] = "findings"

(* Findings are mailed under an embargo in force only by a run that was    *)
(* given another embargo (a message changed it meanwhile), or by a release *)
(* whose patchset was rerun after the claim: a release that finds the      *)
(* series clean, and every run that knows of the embargo, keep it.         *)
EmbargoHolds ==
    [][\A p \in Patches : QueuesFindings(p) =>
          \/ ~InForce(embargo)
          \/ \E g \in Runs : Notify(g, p) /\ run[g].embargo # embargo
          \/ \E r \in Releasers : QueueMail(r) /\ Overtaken(r)]_vars

(* The loop clears the embargo of a reviewed patchset only when the mail   *)
(* of every patch has its latest review, or was handed over before: a      *)
(* failure half way leaves the embargo, and with it the next attempt.      *)
ReleaseIsComplete ==
    [][ClearEmbargo(Loop) /\ rel[Loop].status = "Reviewed"
                          /\ ~Overtaken(Loop) =>
          \A p \in Patches : Completed(p) # {} => MailIsCurrent(p)]_vars

(* The results of a reviewed patchset do not stay back: failed releases    *)
(* are tried again, and the claim of one that died with the daemon expires *)
(* (within the modelled time).                                             *)
ReleasedEventually ==
    (status = "Reviewed" /\ embargo # None) ~>
       \/ embargo = None \/ status # "Reviewed"
       \/ claimedAt # None /\ claimedAt + ClaimAge > MaxTime

(* What the documentation promises: when the embargo of a reviewed series  *)
(* is over and its run has ended, nothing is held back any more.  The code *)
(* breaks it twice.  The release at the end of a run is given the row that *)
(* was In Review, so it queues no mail, and clears the embargo.  And the   *)
(* loop may release between the run's final status and its comment, which  *)
(* then stays Embargoed.                                                   *)
ReleasedIsPublished ==
    (/\ status = "Reviewed" /\ embargo = None
     /\ \A g \in Runs : run[g].at \in {"none", "gone"}) =>
        /\ comment.status # "Embargoed"
        /\ \A p \in Patches : mail[p].status # "none"
=============================================================================
