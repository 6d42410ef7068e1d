---------------------------- MODULE BugAnalysis ----------------------------
(***************************************************************************)
(* The bug analysis pipeline of the sashiko daemon: the rows of the `bugs` *)
(* table (src/src/db.rs), the analysis attempts that BugWorker spawns on   *)
(* them (src/src/worker/bug_worker.rs and the stages of                    *)
(* src/src/workflows/linux_bug.rs), the maintainers who triage the same    *)
(* rows through the HTTP API (src/src/server.rs), the search for upstream  *)
(* fixes as far as it writes to these rows (it is FixCheck), and time.     *)
(*                                                                         *)
(* Every database operation is one action: the daemon runs each of them in *)
(* one SQLite statement or one immediate transaction, and serializes the   *)
(* writers behind one lock.  What an attempt does between two operations   *)
(* (an LLM session, a git call) is not atomic with either of them, so      *)
(* attempts, maintainers, sweeps and the clock interleave freely.          *)
(*                                                                         *)
(* Time is relative.  The code compares lease_expires_at with "now" and    *)
(* never with anything else, so a row keeps the number of ticks its lease  *)
(* still has: `lease >= 0' is the code's lease_expires_at >= now, and      *)
(* `lease < 0' is its (lease_expires_at IS NULL OR lease_expires_at < now).*)
(*                                                                         *)
(* An operator whose comment begins with "Fault:" is a plausible mistake   *)
(* in the operator that follows it.  No action uses it; the project checks *)
(* that substituting it breaks a property.                                 *)
(***************************************************************************)
EXTENDS Integers

CONSTANTS
    Bugs,         \* the bug ids
    Reviews,      \* the ids of the patch reviews that hand bugs over
    ReviewOf,     \* BugInput.review_id of each bug
    NoBug,        \* a NULL duplicate_of_id
    MaxAttempts,  \* LinuxBugSettings.max_attempts
    TTL           \* LinuxBugSettings.lease_ttl_seconds, in ticks

ASSUME BugAnalysisAssumption ==
    /\ NoBug \notin Bugs
    /\ ReviewOf \in [Bugs -> Reviews]
    /\ MaxAttempts \in Nat \ {0}
    /\ TTL \in Nat \ {0, 1}          \* clamp_lease_ttl_seconds: at least 2

VARIABLES
    row,         \* the bugs table
    pc,          \* pc[b][n]: where the n-th attempt on bug b stands
    target,      \* target[b][n]: the canonical bug that attempt has chosen
    link,        \* bug_reviews: 0 no row, 1 rediscovered, 2 newly discovered
    decided,     \* history: the last triage decision a maintainer made
    lastWriter   \* history: the last claim that wrote to the bug

vars == <<row, pc, target, link, decided, lastWriter>>

-----------------------------------------------------------------------------
(* The rows.                                                               *)

Lifecycle == {"new", "open", "fixed", "dismissed", "duplicate", "closed"}
Pipeline  == {"absent", "pending", "running", "succeeded", "failed",
              "abandoned"}

(* A claim id is fresh for every attempt (new_claim_id draws 128 random    *)
(* bits); the n-th claim of a bug is called n here, and 0 is a locked_by   *)
(* that names no attempt: it is NULL, or a sweep that searches for a fix,  *)
(* whose own lease concerns no attempt and is not kept.                    *)
Attempts == 1..MaxAttempts
Nobody   == 0
NoLease  == -2
Lapsed   == -1

(* The history value that stands for a maintainer's fold and for the       *)
(* search for fixes: it follows every claim.                               *)
Outsider == MaxAttempts + 1

Row == [status   : Lifecycle,
        pipeline : Pipeline,
        dupOf    : Bugs \cup {NoBug},
        owner    : {Nobody} \cup Attempts,
        lease    : NoLease..TTL,
        attempts : 0..MaxAttempts,
        refuted  : BOOLEAN]     \* a verification enrichment with is_valid = 0

AbsentRow == [status |-> "new", pipeline |-> "absent", dupOf |-> NoBug,
              owner |-> Nobody, lease |-> NoLease, attempts |-> 0,
              refuted |-> FALSE]

Exists(b) == row[b].pipeline # "absent"

(* Fault: any bug is accepted as the canonical one.                        *)
IsAnyBug(b) == Exists(b)

IsRoot(b) == Exists(b) /\ row[b].dupOf = NoBug

(* Fault: the lease is checked, its owner is not.                          *)
HeldBySomebody(b, n) ==
    /\ row[b].lease >= 0
    /\ row[b].pipeline \in {"running", "succeeded"}

(* begin_bug_write, with a claim: the stored owner is this attempt, the    *)
(* lease is valid, and the bug is running or succeeded.                    *)
Held(b, n) ==
    /\ row[b].owner = n
    /\ row[b].lease >= 0
    /\ row[b].pipeline \in {"running", "succeeded"}

(* Fault: a lease counts as expired in its last second.                    *)
IdleInLastSecond(b) ==
    \/ row[b].pipeline \in {"pending", "failed"}
    \/ row[b].pipeline = "running" /\ row[b].lease <= 0

(* Fault: a running bug is never taken over.                               *)
IdleUnlessRunning(b) == row[b].pipeline \in {"pending", "failed"}

(* pending, failed, or running without a valid lease: the part of the      *)
(* WHERE clause that claim_pending_bug and abandon_exhausted_bugs share.   *)
Idle(b) ==
    \/ row[b].pipeline \in {"pending", "failed"}
    \/ row[b].pipeline = "running" /\ row[b].lease < 0

Claimable(b) ==
    /\ row[b].attempts < MaxAttempts
    /\ row[b].status # "duplicate"
    /\ Idle(b)

Exhausted(b) == row[b].attempts >= MaxAttempts /\ Idle(b)

(* list_all_bugs_for_vector_search: canonical bugs past triage; a          *)
(* dismissed one counts unless the analysis itself refuted it.             *)
Corpus ==
    {c \in Bugs : /\ IsRoot(c)
                  /\ \/ row[c].status \in {"open", "fixed", "closed"}
                     \/ row[c].status = "dismissed" /\ ~row[c].refuted}

(* The attempts that have not ended.                                       *)
Stages == {"verifying", "matched", "novel", "rematched", "publishing",
           "linking", "finishing", "failing"}
Live(b, n) == pc[b][n] \in Stages

PC == {"idle", "gone"} \cup Stages

TypeOK ==
    /\ row \in [Bugs -> Row]
    /\ pc \in [Bugs -> [Attempts -> PC]]
    /\ target \in [Bugs -> [Attempts -> Bugs \cup {NoBug}]]
    /\ link \in [Reviews -> [Bugs -> 0..2]]
    /\ decided \in [Bugs -> {"none"} \cup Lifecycle]
    /\ lastWriter \in [Bugs -> 0..Outsider]

Init ==
    /\ row = [b \in Bugs |-> AbsentRow]
    /\ pc = [b \in Bugs |-> [n \in Attempts |-> "idle"]]
    /\ target = [b \in Bugs |-> [n \in Attempts |-> NoBug]]
    /\ link = [r \in Reviews |-> [b \in Bugs |-> 0]]
    /\ decided = [b \in Bugs |-> "none"]
    /\ lastWriter = [b \in Bugs |-> 0]

(* One statement on the row of bug b.                                      *)
SetRow(b, r) == row' = [row EXCEPT ![b] = r]

-----------------------------------------------------------------------------
(* Creating and claiming.                                                  *)

(* create_bug: a review, a maintainer or a scan files a candidate.         *)
Create(b) ==
    /\ ~Exists(b)
    /\ SetRow(b, [row[b] EXCEPT !.pipeline = "pending"])
    /\ UNCHANGED <<pc, target, link, decided, lastWriter>>

(* Fault: the claim names the process, the same for every attempt.         *)
ProcessClaim(b) == 1

(* The claim a fresh attempt takes.                                        *)
NextClaim(b) == row[b].attempts + 1

Take(b) ==
    /\ SetRow(b, [row[b] EXCEPT !.pipeline = "running",
                                !.owner    = NextClaim(b),
                                !.lease    = TTL,
                                !.attempts = @ + 1])
    /\ pc' = [pc EXCEPT ![b][row[b].attempts + 1] = "verifying"]
    /\ lastWriter' = [lastWriter EXCEPT ![b] = NextClaim(b)]
    /\ UNCHANGED <<target, link, decided>>

(* create_claimed_bug_with_enrichment: `sashiko scan --submit-bugs' inserts *)
(* the row already claimed.                                                *)
CreateClaimed(b) == ~Exists(b) /\ Take(b)

(* claim_pending_bug; the run loop spawns process_claimed_bug on success.  *)
Claim(b) == Claimable(b) /\ Take(b)

-----------------------------------------------------------------------------
(* The attempt.                                                            *)

At(b, n, stages) == pc[b][n] \in stages
Goto(b, n, stage) == pc' = [pc EXCEPT ![b][n] = stage]

(* The attempt's future completes or is dropped, and its locals with it.   *)
End(b, n) ==
    /\ Goto(b, n, "gone")
    /\ target' = [target EXCEPT ![b][n] = NoBug]

(* A claim-checked write to bug b by attempt n.                            *)
Wrote(b, n) ==
    /\ Held(b, n)
    /\ lastWriter' = [lastWriter EXCEPT ![b] = n]

(* renew_bug_lease, from maintain_lease.                                   *)
Renew(b, n) ==
    /\ Live(b, n)
    /\ Held(b, n)
    /\ SetRow(b, [row[b] EXCEPT !.lease = TTL])
    /\ UNCHANGED <<pc, target, link, decided, lastWriter>>

(* record_bug_stage: the enrichment of a completed stage.                  *)
RecordStage(b, n) ==
    /\ At(b, n, {"verifying", "matched", "novel", "rematched"})
    /\ Wrote(b, n)
    /\ UNCHANGED <<row, pc, target, link, decided>>

(* Fault: the verdict overwrites triage.                                   *)
SettleOverTriage(b, verdict) ==
    SetRow(b, [row[b] EXCEPT !.status   = verdict,
                             !.pipeline = "succeeded",
                             !.refuted  = (verdict = "dismissed")])

(* update_bug_outcome: the verdict only initializes triage; the bug        *)
(* succeeds, and the lease stays until the attempt has linked and released.*)
Settle(b, verdict) ==
    SetRow(b, [row[b] EXCEPT !.status   = IF @ = "new" THEN verdict ELSE @,
                             !.pipeline = "succeeded",
                             !.refuted  = (verdict = "dismissed")])

(* The candidate is a false positive, or (a scan candidate) not severe.    *)
Refute(b, n) ==
    /\ At(b, n, {"verifying", "novel"})
    /\ Wrote(b, n)
    /\ Settle(b, "dismissed")
    /\ Goto(b, n, "finishing")
    /\ UNCHANGED <<target, link, decided>>

(* check_and_fold, first half: the corpus is read and the LLM session      *)
(* names a duplicate, early or late in the pipeline.                       *)
Match(b, n) ==
    \E c \in Corpus \ {b} :
        /\ \/ At(b, n, {"verifying"}) /\ Goto(b, n, "matched")
           \/ At(b, n, {"novel"})     /\ Goto(b, n, "rematched")
        /\ target' = [target EXCEPT ![b][n] = c]
        /\ UNCHANGED <<row, link, decided, lastWriter>>

(* The early check finds no duplicate; tracing, severity and report follow.*)
Novel(b, n) ==
    /\ At(b, n, {"verifying"})
    /\ Goto(b, n, "novel")
    /\ UNCHANGED <<row, target, link, decided, lastWriter>>

(* Fault: a moved link replaces one that is there (INSERT OR REPLACE).     *)
ReplaceLinks(b, c) ==
    link' = [r \in Reviews |->
                [x \in Bugs |->
                    CASE x = b                      -> 0
                      [] x = c /\ link[r][b] > 0 -> 1
                      [] OTHER                      -> link[r][x]]]

(* mark_bug_as_duplicate: the links of the folded bug move to the          *)
(* canonical one as rediscoveries, unless they are already there.          *)
MigrateLinks(b, c) ==
    link' = [r \in Reviews |->
                [x \in Bugs |->
                    CASE x = b                                        -> 0
                      [] x = c /\ link[r][b] > 0 /\ link[r][c] = 0 -> 1
                      [] OTHER                                        -> link[r][x]]]

(* Fault: the fold is a triage decision only, and a bug that was running   *)
(* loses its lease and stays running.                                      *)
FoldedUnfinished(r, c) == [r EXCEPT !.status = "duplicate", !.dupOf = c]

Folded(r, c) == [r EXCEPT !.status   = "duplicate",
                          !.dupOf    = c,
                          !.pipeline = "succeeded"]

(* mark_bug_as_duplicate under a claim: ends the pipeline, keeps the lease.*)
Fold(b, n) ==
    LET c == target[b][n] IN
    /\ At(b, n, {"matched", "rematched"})
    /\ c \in Bugs \ {b} /\ IsRoot(c)
    /\ row[b].status = "new"
    /\ Wrote(b, n)
    /\ SetRow(b, Folded(row[b], c))
    /\ MigrateLinks(b, c)
    /\ Goto(b, n, "linking")
    /\ UNCHANGED <<target, decided>>

(* preserve_triage: a bug somebody triaged is not folded, and the attempt  *)
(* goes on as if it were novel.                                            *)
KeepTriage(b, n) ==
    LET c == target[b][n] IN
    /\ At(b, n, {"matched", "rematched"})
    /\ c \in Bugs \ {b} /\ IsRoot(c)
    /\ Held(b, n)
    /\ row[b].status # "new"
    /\ \/ At(b, n, {"matched"})   /\ Goto(b, n, "novel")
       \/ At(b, n, {"rematched"}) /\ Goto(b, n, "publishing")
    /\ target' = [target EXCEPT ![b][n] = NoBug]
    /\ UNCHANGED <<row, link, decided, lastWriter>>

(* The final write of a bug in which the late check finds no duplicate.    *)
Publish(b, n) ==
    /\ At(b, n, {"novel", "publishing"})
    /\ Wrote(b, n)
    /\ Settle(b, "open")
    /\ target' = [target EXCEPT ![b][n] = b]
    /\ Goto(b, n, "linking")
    /\ UNCHANGED <<link, decided>>

(* link_review_and_disclosure_to_bug: in a transaction of its own, checked *)
(* against the claim on the analysed bug.  The flag only ever rises.  A    *)
(* review that was cancelled or deleted meanwhile gets no link.            *)
Link(b, n) ==
    LET r == ReviewOf[b]
        c == target[b][n]
        flag == IF c = b THEN 2 ELSE 1
    IN
    /\ At(b, n, {"linking"})
    /\ Wrote(b, n)
    /\ \/ link' = [link EXCEPT ![r][c] = IF @ > flag THEN @ ELSE flag]
       \/ UNCHANGED link
    /\ Goto(b, n, "finishing")
    /\ UNCHANGED <<row, target, decided>>

(* Fault: the owner goes, the expiry stays.                                *)
Disowned(r) == [r EXCEPT !.owner = Nobody]

(* Unlocked rows are what a release, a failure and the sweeps leave.       *)
Unlocked(r) == [r EXCEPT !.owner = Nobody, !.lease = NoLease]

(* release_bug_lease: the outcome is left alone.                           *)
Release(b, n) ==
    /\ At(b, n, {"finishing"})
    /\ End(b, n)
    /\ \/ /\ Wrote(b, n)
          /\ SetRow(b, Unlocked(row[b]))
       \/ /\ ~Held(b, n)
          /\ UNCHANGED <<row, lastWriter>>
    /\ UNCHANGED <<link, decided>>

(* A stage fails, or a claim-checked write is refused.                     *)
Error(b, n) ==
    /\ Live(b, n)
    /\ ~At(b, n, {"finishing", "failing"})
    /\ Goto(b, n, "failing")
    /\ UNCHANGED <<row, target, link, decided, lastWriter>>

(* Fault: fail_bug_analysis does not look at the pipeline state.           *)
AnyState(b) == Exists(b)

(* Only a running bug can fail.                                            *)
StillRunning(b) == row[b].pipeline = "running"

(* fail_bug_analysis under a claim.                                        *)
Fail(b, n) ==
    /\ At(b, n, {"failing"})
    /\ End(b, n)
    /\ \/ /\ StillRunning(b)
          /\ Wrote(b, n)
          /\ SetRow(b, Unlocked([row[b] EXCEPT !.pipeline = "failed"]))
       \/ /\ ~(Held(b, n) /\ StillRunning(b))
          /\ UNCHANGED <<row, lastWriter>>
    /\ UNCHANGED <<link, decided>>

(* run_while_leased: the watchdog drops an analysis whose lease is gone,   *)
(* or within one second of its expiry (lease_deadline).                    *)
LoseLease(b, n) ==
    /\ Live(b, n)
    /\ ~Held(b, n) \/ row[b].lease <= 1
    /\ End(b, n)
    /\ UNCHANGED <<row, link, decided, lastWriter>>

(* The process dies, or the task panics, anywhere.                         *)
Crash(b, n) ==
    /\ Live(b, n)
    /\ End(b, n)
    /\ UNCHANGED <<row, link, decided, lastWriter>>

-----------------------------------------------------------------------------
(* Sweeps, maintainers, time.                                              *)

(* The fix check counts a lease as over in its last second.                *)
Takeable(b) == row[b].status = "open" /\ row[b].owner # Nobody /\ row[b].lease <= 0

(* claim_specific_open_bug_for_fix_check, or the advance or the touch of a *)
(* bug without candidates: whichever attempt still held the bug has lost   *)
(* it.                                                                     *)
TakeForFixCheck(b) ==
    /\ Takeable(b)
    /\ SetRow(b, Unlocked(row[b]))
    /\ lastWriter' = [lastWriter EXCEPT ![b] = Outsider]
    /\ UNCHANGED <<pc, target, link, decided>>

(* Fault: the lock of an attempt is taken for the sweep's own.             *)
Fixable(b) == row[b].status = "open"

(* The bug is open, and locked by the sweep.                               *)
LockedBySweep(b) == row[b].status = "open" /\ row[b].owner = Nobody

(* record_upstream_fix_check, with a commit that fixes the bug.            *)
RecordFix(b) ==
    /\ LockedBySweep(b)
    /\ SetRow(b, [row[b] EXCEPT !.status = "fixed"])
    /\ lastWriter' = [lastWriter EXCEPT ![b] = Outsider]
    /\ UNCHANGED <<pc, target, link, decided>>

(* recover_stale_running_bugs: when a daemon starts.                       *)
RecoverStale ==
    LET stale == {b \in Bugs : row[b].pipeline = "running" /\ row[b].lease < 0}
    IN
    /\ stale # {}
    /\ row' = [b \in Bugs |->
                 IF b \in stale
                 THEN Unlocked([row[b] EXCEPT !.pipeline = "pending"])
                 ELSE row[b]]
    /\ UNCHANGED <<pc, target, link, decided, lastWriter>>

(* abandon_exhausted_bugs: after a claim that came back empty, in another  *)
(* statement, so that claimable bugs may have been filed in between.       *)
AbandonExhausted ==
    /\ \E b \in Bugs : Exhausted(b)
    /\ row' = [b \in Bugs |->
                 IF Exhausted(b)
                 THEN Unlocked([row[b] EXCEPT !.pipeline = "abandoned"])
                 ELSE row[b]]
    /\ UNCHANGED <<pc, target, link, decided, lastWriter>>

(* change_bug_status_with_reason from the Close and Dismiss actions; the   *)
(* CHECK constraint of the table refuses it for a duplicate.               *)
Triage(b, status) ==
    /\ Exists(b)
    /\ row[b].dupOf = NoBug
    /\ SetRow(b, [row[b] EXCEPT !.status = status])
    /\ decided' = [decided EXCEPT ![b] = status]
    /\ UNCHANGED <<pc, target, link, lastWriter>>

(* mark_bug_as_duplicate without a claim, from the MarkDuplicate action:   *)
(* any bug may be folded, again even, and loses its lease.                 *)
MarkDuplicate(b, c) ==
    /\ Exists(b)
    /\ c # b /\ IsRoot(c)
    /\ SetRow(b, Unlocked(Folded(row[b], c)))
    /\ MigrateLinks(b, c)
    /\ decided' = [decided EXCEPT ![b] = "duplicate"]
    /\ lastWriter' = [lastWriter EXCEPT ![b] = Outsider]
    /\ UNCHANGED <<pc, target>>

(* A second passes.                                                        *)
Tick ==
    /\ \E b \in Bugs : row[b].lease >= 0
    /\ row' = [b \in Bugs |->
                 IF row[b].lease >= 0
                 THEN [row[b] EXCEPT !.lease = @ - 1] ELSE row[b]]
    /\ UNCHANGED <<pc, target, link, decided, lastWriter>>

-----------------------------------------------------------------------------

(* What an attempt does until it ends, renewals and crashes apart.         *)
Advance(b, n) ==
    \/ Refute(b, n) \/ Novel(b, n) \/ Match(b, n)
    \/ Fold(b, n) \/ KeepTriage(b, n) \/ Publish(b, n) \/ Link(b, n)
    \/ Release(b, n) \/ Error(b, n) \/ Fail(b, n) \/ LoseLease(b, n)

Attempt(b, n) ==
    Advance(b, n) \/ Renew(b, n) \/ RecordStage(b, n) \/ Crash(b, n)

People(b) ==
    \/ \E status \in {"closed", "dismissed"} : Triage(b, status)
    \/ \E c \in Bugs : MarkDuplicate(b, c)

Next ==
    \/ \E b \in Bugs : Create(b) \/ CreateClaimed(b) \/ Claim(b) \/ People(b)
    \/ \E b \in Bugs : TakeForFixCheck(b) \/ RecordFix(b)
    \/ \E b \in Bugs : \E n \in Attempts : Attempt(b, n)
    \/ RecoverStale \/ AbandonExhausted \/ Tick

Spec == Init /\ [][Next]_vars

(* The run loop of the daemon keeps claiming and, when it finds nothing,   *)
(* abandoning; time passes; an attempt that is alive keeps going.  Nothing *)
(* is assumed of filing, renewing, crashing or of the maintainers.         *)
Fairness ==
    /\ WF_vars(\E b \in Bugs : Claim(b))
    /\ WF_vars(AbandonExhausted)
    /\ WF_vars(Tick)
    /\ \A b \in Bugs : \A n \in Attempts : WF_vars(Advance(b, n))

FairSpec == Spec /\ Fairness

-----------------------------------------------------------------------------
(* Safety.                                                                 *)

(* A maintainer's decision is the bug's status until a maintainer decides  *)
(* again, whatever analyses were pending or running at the time            *)
(* (write_bug_outcome: a verdict "must not undo a human decision";         *)
(* mark_bug_as_duplicate: preserve_triage).                                *)
TriageSurvives ==
    \A b \in Bugs : decided[b] # "none" => row[b].status = decided[b]

(* No bug is stranded: while an analysis is owed, some worker can claim    *)
(* the bug, or the sweep can abandon it, or an attempt holds a valid lease *)
(* (the comments of mark_bug_as_duplicate and recover_stale_running_bugs   *)
(* describe two ways this went wrong).                                     *)
NeverStranded ==
    \A b \in Bugs :
        row[b].pipeline \in {"pending", "running", "failed"} =>
            Claimable(b) \/ Exhausted(b) \/ row[b].lease >= 0

(* The bugs reached from b along duplicate_of_id, b included.              *)
UpClosed(S) == \A x \in S : row[x].dupOf \in S \cup {NoBug}
Above(b) ==
    {c \in Bugs : \A S \in SUBSET Bugs : b \in S /\ UpClosed(S) => c \in S}

(* Folds of attempts and maintainers in any order never close a cycle:     *)
(* the recursive queries that collect a bug's family have a root to find.  *)
Acyclic ==
    \A b \in Bugs :
        row[b].dupOf # NoBug => b \notin Above(row[b].dupOf)

(* What an attempt writes to a bug never follows a write of a later claim, *)
(* nor a maintainer's fold, nor a search for its fix: a worker that lost   *)
(* its lease and does not know it yet is refused (begin_bug_write).        *)
WritersNeverRegress ==
    [][\A b \in Bugs : lastWriter'[b] >= lastWriter[b]]_vars

(* A settled analysis stays settled: no failure, sweep or claim makes a    *)
(* succeeded bug anything else (fail_bug_analysis: "a completed analysis   *)
(* cannot be marked failed").                                              *)
SucceededIsFinal ==
    [][\A b \in Bugs : row[b].pipeline = "succeeded" =>
                            row'[b].pipeline = "succeeded"]_vars

(* A valid lease is taken from a live attempt by nobody but a maintainer   *)
(* who folds the bug and, in the last second of the lease, a fix check of  *)
(* a bug that is published; otherwise it ends with its attempt or by       *)
(* expiring (renew_bug_lease, claim_specific_open_bug_for_fix_check).      *)
LeaseIsHonoured ==
    [][\A b \in Bugs : \A n \in Attempts :
          (Held(b, n) /\ row'[b].owner # n) =>
              \/ ~Live(b, n)' \/ decided'[b] = "duplicate"
              \/ row[b].status = "open" /\ row[b].lease = 0]_vars

(* A recorded review link is never lost: it stays, or a fold moves it      *)
(* towards the canonical bug (mark_bug_as_duplicate); and as long as it    *)
(* exists the review keeps the credit of having discovered the bug         *)
(* (link_review_to_bug: "the flag only ever moves from false to true").    *)
LinksFollowFolds ==
    [][\A r \in Reviews, b \in Bugs :
          /\ link[r][b] > 0 => \E c \in Above(b)' : link'[r][c] > 0
          /\ link[r][b] = 2 => link'[r][b] \in {0, 2}]_vars

(* Liveness: under the fairness above, every bug that is filed is          *)
(* eventually settled by a verdict or a fold, or abandoned.                *)
EventuallySettled ==
    \A b \in Bugs :
        Exists(b) ~> row[b].pipeline \in {"succeeded", "abandoned"}

-----------------------------------------------------------------------------
(* Each row implements an exclusive job.  A running bug without a valid    *)
(* lease counts as queued, for anybody may claim it, and an expired lease  *)
(* as no hold.                                                             *)

JobStage(b) ==
    CASE row[b].pipeline = "absent"    -> "none"
      [] Idle(b)                       -> "queued"
      [] row[b].pipeline = "succeeded" -> "done"
      [] row[b].pipeline = "abandoned" -> "dead"
      [] OTHER                         -> "working"

JobHolder(b) == IF row[b].lease >= 0 THEN row[b].owner ELSE Nobody

Job == INSTANCE ExclusiveJob
         WITH Jobs     <- Bugs,
              MaxTries <- MaxAttempts,
              stage    <- [b \in Bugs |-> JobStage(b)],
              holder   <- [b \in Bugs |-> JobHolder(b)],
              tries    <- [b \in Bugs |-> row[b].attempts]

(* The rows keep the promise of ExclusiveJob whatever attempts, sweeps,    *)
(* maintainers, crashes and the clock do.                                  *)
EveryBugIsAnExclusiveJob == Job!Spec

-----------------------------------------------------------------------------
(* What the fix check sees of the rows.                                    *)

LifeOutside(b) ==
    CASE row[b].status = "new"                             -> "absent"
      [] row[b].status \in {"open", "fixed"}               -> row[b].status
      [] row[b].status \in {"closed", "dismissed", "duplicate"} -> "shut"

Kept(b) == row[b].status = "open" /\ row[b].owner # Nobody /\ row[b].lease >= 0

Life == INSTANCE BugLife
          WITH life <- [b \in Bugs |-> LifeOutside(b)],
               kept <- [b \in Bugs |-> Kept(b)]

(* Attempts and maintainers, in any order, do to a bug only what the fix   *)
(* check counts on: a bug is opened by an attempt that holds it, is shut   *)
(* for good, and is never held again by an attempt that has let it go.     *)
MovesAsAgreed == Life!Spec

-----------------------------------------------------------------------------
(* What every reachable row satisfies; the strengthening the proofs use.   *)

RowInv(r, written, triage) ==
    /\ r.status = "duplicate" <=> r.dupOf # NoBug
    /\ r.status \in {"duplicate", "open", "fixed"} => r.pipeline = "succeeded"
    /\ r.status = "fixed" => r.owner = Nobody
    /\ r.pipeline = "succeeded" => r.status # "new"
    /\ r.pipeline = "absent" => r.attempts = 0 /\ r.status = "new"
    /\ r.owner \in {Nobody, r.attempts}
    /\ r.owner = Nobody <=> r.lease = NoLease
    /\ r.pipeline \notin {"running", "succeeded"} => r.owner = Nobody
    /\ \/ written = r.attempts
       \/ written = Outsider /\ r.pipeline = "succeeded" /\ r.owner = Nobody
    /\ triage # "none" =>
          r.status = triage /\ triage \in {"closed", "dismissed", "duplicate"}

(* The inductive invariant: a claimed row names its last claim, everything *)
(* without a claim is unlocked, and a folded row is settled.               *)
IInv ==
    /\ TypeOK
    /\ \A b \in Bugs : RowInv(row[b], lastWriter[b], decided[b])
=============================================================================
