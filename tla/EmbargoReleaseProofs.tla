------------------------ MODULE EmbargoReleaseProofs ------------------------
(***************************************************************************)
(* Proofs about EmbargoRelease, for any number of patches, runs, faults    *)
(* and instants and any age of a claim.                                    *)
(***************************************************************************)
EXTENDS EmbargoRelease, WellFoundedInduction, TLAPS

(* A non-empty set of naturals has a least element.                        *)
LEMMA LeastNatural ==
  ASSUME NEW S \in SUBSET Nat, S # {}
  PROVE  \E n \in S : \A m \in S : n <= m
<1> DEFINE R == OpToRel(<, Nat)
<1>1. IsWellFoundedOn(R, Nat)
  BY NatLessThanWellFounded
<1> HIDE DEF R
<1>2. PICK n \in S : \A m \in S : <<m, n>> \notin R
  BY <1>1, WFMin
<1>3. \A m \in S : m < n => <<m, n>> \in R
  BY DEF R, OpToRel
<1>4. \A m, k \in Nat : ~(m < k) => k <= m
  OBVIOUS
<1>5. \A m \in S : n <= m
  <2> TAKE m \in S
  <2>1. ~(m < n) BY <1>2, <1>3
  <2> QED BY <2>1, <1>4
<1>6. QED BY <1>5

(* And a non-empty set of naturals with a bound has a greatest one.        *)
LEMMA GreatestNatural ==
  ASSUME NEW S, S \subseteq Nat, S # {}, NEW b \in Nat, \A m \in S : m <= b
  PROVE  \E n \in S : \A m \in S : m <= n
<1> DEFINE B == {k \in Nat : \A m \in S : m <= k}
<1>1. b \in B
  OBVIOUS
<1>2. PICK n \in B : \A k \in B : n <= k
  <2> B \in SUBSET Nat /\ B # {} BY <1>1
  <2> QED BY LeastNatural
<1>3. n \in S
  <2> SUFFICES ASSUME n \notin S PROVE FALSE OBVIOUS
  <2>1. \A m \in S : m \in Nat /\ m <= n /\ m # n
    BY <1>2
  <2>2. PICK m \in S : TRUE
    OBVIOUS
  <2>3. n \in Nat /\ n # 0
    BY <2>1, <2>2
  <2>4. n - 1 \in Nat /\ \A k \in S : k <= n - 1
    BY <2>1, <2>3
  <2>5. n <= n - 1
    BY <2>4, <1>2
  <2> QED BY <2>3, <2>5
<1>4. QED BY <1>2, <1>3

USE EmbargoAssumption DEF Time, Runs, Loop, Releasers, None

(* The initial state satisfies the invariant.                              *)
LEMMA InitIInv == Init => IInv
<1> SUFFICES ASSUME Init PROVE IInv
  OBVIOUS
<1> USE DEF Init
<1>1. TypeOK
  BY DEF TypeOK, PatchsetStatus, Verdict, Mail, NoMail, Comment, NoComment,
         Run, NoRun, JobStage, Release, Idle, NoPoll
<1>2. GenerationsOK /\ ReleasesAfterReview /\ ReleasesAreDue
  BY DEF GenerationsOK, ReleasesAfterReview, ReleasesAreDue, Holding, Idle,
         NoRun
<1>3. WhoQueues /\ QueuedOrListed /\ ListIsDone
  BY DEF WhoQueues, QueuedOrListed, ListIsDone, Idle, NoRun
<1>4. QED BY <1>1, <1>2, <1>3 DEF IInv

-----------------------------------------------------------------------------
(* Types.                                                                  *)

(* The record of an idle release, of a run that is not there.              *)
LEMMA IdleIsRelease == Idle \in Release
  BY DEF Idle, Release, PatchsetStatus

LEMMA NoRunIsRun == NoRun \in Run /\ Gone \in Run
  BY DEF NoRun, Gone, Run, JobStage

(* What queueing keeps of the types.                                       *)
LEMMA MailWithType ==
  ASSUME mail \in [Patches -> Mail], NEW p \in Patches, NEW g \in Runs
  PROVE  MailWith(p, g) \in [Patches -> Mail]
<1>1. [status |-> "Pending", of |-> g] \in Mail
  BY DEF Mail
<1>2. QED BY <1>1 DEF MailWith

LEMMA MailTo ==
  ASSUME NEW x \in Mail, NEW s \in {"Cancelled", "Sent"}
  PROVE  [x EXCEPT !.status = s] \in Mail
  BY DEF Mail

LEMMA CommentWithType ==
  ASSUME comment \in Comment, NEW b \in BOOLEAN,
         NEW s \in {"Embargoed", "Pending"}
  PROVE  CommentWith(s, b) \in Comment
  BY DEF CommentWith, Comment

(* A stage of a job, of a release.                                         *)
LEMMA JobToType ==
  ASSUME run \in [Runs -> Run], NEW g \in Runs, NEW p \in Patches,
         NEW s \in JobStage, JobTo(g, p, s)
  PROVE  run' \in [Runs -> Run]
  BY DEF JobTo, Run

LEMMA RelToType ==
  ASSUME rel \in [Releasers -> Release], NEW r \in Releasers,
         NEW s \in {"queueing", "clearing", "failing"}, RelTo(r, s)
  PROVE  rel' \in [Releasers -> Release]
  BY DEF RelTo, Release

LEMMA ReleaseTo ==
  ASSUME NEW x \in Release
  PROVE  /\ \A g \in {0} \cup Runs :
              [x EXCEPT !.at = "reading", !.gen = g] \in Release
         /\ \A l \in SUBSET (Patches \X Runs) :
              [x EXCEPT !.at = "queueing", !.todo = l] \in Release
         /\ \A y : [x EXCEPT !.todo = @ \ {y}] \in Release
<1>1. ASSUME NEW g \in {0} \cup Runs
      PROVE  [x EXCEPT !.at = "reading", !.gen = g] \in Release
  BY DEF Release
<1>2. ASSUME NEW l \in SUBSET (Patches \X Runs)
      PROVE  [x EXCEPT !.at = "queueing", !.todo = l] \in Release
  BY DEF Release
<1>3. ASSUME NEW y
      PROVE  [x EXCEPT !.todo = @ \ {y}] \in Release
  <2>1. x.todo \ {y} \in SUBSET (Patches \X Runs)
    BY DEF Release
  <2> DEFINE l == x.todo \ {y}
  <2> HIDE DEF l
  <2>2. [x EXCEPT !.todo = l] \in Release
    <3>1. l \in SUBSET (Patches \X Runs)
      BY <2>1 DEF l
    <3>2. QED BY <3>1 DEF Release
  <2>3. QED BY <2>2 DEF l
<1>4. QED BY <1>1, <1>2, <1>3

(* A failure is one of the bounded number.                                 *)
LEMMA FailType ==
  ASSUME faults \in 0..MaxFaults, Fail
  PROVE  faults' \in 0..MaxFaults
  BY DEF Fail

LEMMA EnvironmentType ==
  ASSUME TypeOK,
         \/ Tick \/ LiftEmbargo \/ Cancel \/ Rerun \/ Deliver \/ Restart
         \/ \E until \in Time : PlaceEmbargo(until)
  PROVE  TypeOK'
<1> USE DEF TypeOK
<1>1. CASE Tick
  BY <1>1 DEF Tick, row, outbox
<1>2. CASE LiftEmbargo \/ \E until \in Time : PlaceEmbargo(until)
  BY <1>2 DEF LiftEmbargo, PlaceEmbargo, outbox
<1>3. CASE Cancel
  <2>1. mail' \in [Patches -> Mail]
    <3>1. ASSUME NEW p \in Patches
          PROVE  [mail[p] EXCEPT !.status = "Cancelled"] \in Mail
      <4>1. mail[p] \in Mail
        OBVIOUS
      <4>2. QED BY <4>1, MailTo
    <3>2. QED BY <1>3, <3>1 DEF Cancel, CancelOutbox
  <2>2. comment' \in Comment
    BY <1>3 DEF Cancel, CancelOutbox, Comment
  <2>3. QED BY <1>3, <2>1, <2>2 DEF Cancel, PatchsetStatus
<1>4. CASE Rerun
  <2>1. mail' \in [Patches -> Mail] /\ comment' \in Comment
    BY <1>4 DEF Rerun, Mail, Comment, NoMail, NoComment
  <2>2. target' \in Nat \ {0}
    BY <1>4 DEF Rerun
  <2>3. QED BY <1>4, <2>1, <2>2 DEF Rerun, PatchsetStatus
<1>5. CASE Deliver
  <2>1. mail' \in [Patches -> Mail]
    <3>1. ASSUME NEW p \in Patches
          PROVE  [mail[p] EXCEPT !.status = "Sent"] \in Mail
      <4>1. mail[p] \in Mail
        OBVIOUS
      <4>2. QED BY <4>1, MailTo
    <3>2. \/ UNCHANGED mail
          \/ \E p \in Patches :
               mail' = [mail EXCEPT ![p] = [mail[p] EXCEPT !.status = "Sent"]]
      BY <1>5 DEF Deliver
    <3>3. QED BY <3>1, <3>2
  <2>3. comment' \in Comment
    BY <1>5 DEF Deliver, Comment
  <2>4. QED BY <1>5, <2>1, <2>3 DEF Deliver, row
<1>6. CASE Restart
  <2>1. run' \in [Runs -> Run]
    BY <1>6, NoRunIsRun DEF Restart
  <2>2. rel' \in [Releasers -> Release]
    BY <1>6, IdleIsRelease DEF Restart
  <2>3. /\ faults' \in 0..MaxFaults
        /\ poll' \in [due : BOOLEAN, embargo : {None} \cup Time]
    <3>1. faults' \in 0..MaxFaults
      BY <1>6, FailType DEF Restart
    <3>2. NoPoll \in [due : BOOLEAN, embargo : {None} \cup Time]
      BY DEF NoPoll
    <3>3. QED BY <1>6, <3>1, <3>2 DEF Restart
  <2>4. status' \in PatchsetStatus /\ active' \in {0} \cup Runs
    BY <1>6 DEF Restart, PatchsetStatus
  <2>5. QED BY <1>6, <2>1, <2>2, <2>3, <2>4 DEF Restart, outbox
<1>7. QED BY <1>1, <1>2, <1>3, <1>4, <1>5, <1>6

(* What the steps of a run leave to be shown when they change a few        *)
(* variables.                                                              *)
LEMMA RunStepType ==
  ASSUME TypeOK, NEW g \in Runs, RunStep(g)
  PROVE  TypeOK'
<1> USE DEF TypeOK
<1>1. ASSUME NEW p \in Patches, ReviewPatch(g, p) PROVE TypeOK'
  <2>1. run' \in [Runs -> Run]
    <3>1. \E s \in JobStage : JobTo(g, p, s)
      BY <1>1 DEF ReviewPatch, JobStage
    <3>2. QED BY <3>1, JobToType
  <2>2. review' \in [Runs -> [Patches -> Verdict]]
    <3>1. \/ UNCHANGED review
          \/ \E v \in {"clean", "findings"} :
               review' = [review EXCEPT ![g] = [review[g] EXCEPT ![p] = v]]
      BY <1>1 DEF ReviewPatch
    <3>2. ASSUME NEW v \in {"clean", "findings"}
          PROVE  [review[g] EXCEPT ![p] = v] \in [Patches -> Verdict]
      BY DEF Verdict
    <3>3. ASSUME NEW v \in {"clean", "findings"}
          PROVE  [review EXCEPT ![g] = [review[g] EXCEPT ![p] = v]]
                   \in [Runs -> [Patches -> Verdict]]
      BY <3>2
    <3>4. QED BY <3>1, <3>3
  <2>3. QED BY <1>1, <2>1, <2>2 DEF ReviewPatch, row, outbox
<1>2. ASSUME NEW p \in Patches, Notify(g, p) PROVE TypeOK'
  <2>1. run' \in [Runs -> Run]
    <3>1. \E s \in JobStage : JobTo(g, p, s)
      BY <1>2 DEF Notify, JobStage
    <3>2. QED BY <3>1, JobToType
  <2>2. mail' \in [Patches -> Mail]
    <3>1. \/ UNCHANGED mail
          \/ \E h \in Runs : mail' = MailWith(p, h)
      BY <1>2 DEF Notify
    <3>2. QED BY <3>1, MailWithType
  <2>3. faults' \in 0..MaxFaults
    BY <1>2, FailType DEF Notify
  <2>4. QED BY <1>2, <2>1, <2>2, <2>3 DEF Notify, row
<1>3. CASE Conclude(g)
  <2>1. run' \in [Runs -> Run]
    <3>1. ASSUME NEW b \in BOOLEAN
          PROVE  [NoRun EXCEPT !.at = "posting",
                               !.embargo = run[g].embargo,
                               !.success = b] \in Run
      BY DEF Run, NoRun, JobStage
    <3>2. (\A p \in Patches : run[g].job[p] = "ok") \in BOOLEAN
      OBVIOUS
    <3>3. \/ run' = [run EXCEPT ![g] = Gone]
          \/ \E b \in BOOLEAN : run' = [run EXCEPT ![g] =
                [NoRun EXCEPT !.at = "posting",
                              !.embargo = run[g].embargo, !.success = b]]
      BY <1>3, <3>2 DEF Conclude
    <3>4. QED BY <3>1, <3>3, NoRunIsRun
  <2>2. status' \in PatchsetStatus
    BY <1>3 DEF Conclude, PatchsetStatus
  <2>3. QED BY <1>3, <2>1, <2>2 DEF Conclude, outbox
<1>4. CASE Post(g)
  <2>1. run' \in [Runs -> Run]
    <3>1. [NoRun EXCEPT !.at = "ending"] \in Run
      BY DEF Run, NoRun, JobStage
    <3>2. QED BY <1>4, <3>1 DEF Post
  <2>2. rel' \in [Releasers -> Release]
    <3>1. [Idle EXCEPT !.at = "claiming", !.status = "InReview"] \in Release
      BY DEF Release, Idle, PatchsetStatus
    <3>2. QED BY <1>4, <3>1 DEF Post
  <2>3. comment' \in Comment
    <3>1. (~run[g].success) \in BOOLEAN
      OBVIOUS
    <3>2. (IF InForce(run[g].embargo) THEN "Embargoed" ELSE "Pending")
            \in {"Embargoed", "Pending"}
      OBVIOUS
    <3>3. CommentWith(IF InForce(run[g].embargo) THEN "Embargoed"
                      ELSE "Pending", ~run[g].success) \in Comment
      BY <3>1, <3>2, CommentWithType
    <3>4. QED BY <1>4, <3>3 DEF Post
  <2>4. faults' \in 0..MaxFaults
    BY <1>4, FailType DEF Post
  <2>5. QED BY <1>4, <2>1, <2>2, <2>3, <2>4 DEF Post, row
<1>5. CASE EndRun(g)
  BY <1>5, NoRunIsRun DEF EndRun, outbox
<1>6. QED BY <1>1, <1>2, <1>3, <1>4, <1>5 DEF RunStep

LEMMA RelStepType ==
  ASSUME TypeOK, NEW r \in Releasers, RelStep(r)
  PROVE  TypeOK'
<1> USE DEF TypeOK
<1>1. CASE ClaimRelease(r)
  <2>1. rel' \in [Releasers -> Release]
    <3>1. CASE rel' = [rel EXCEPT ![r] = Idle]
      BY <3>1, IdleIsRelease
    <3>2. CASE rel' = [rel EXCEPT ![r].at = "reading", ![r].gen = lastGen]
      <4>1. [rel[r] EXCEPT !.at = "reading", !.gen = lastGen] \in Release
        BY ReleaseTo
      <4>2. rel' = [rel EXCEPT ![r] = [rel[r] EXCEPT !.at = "reading",
                                                     !.gen = lastGen]]
        BY <3>2
      <4>3. QED BY <4>1, <4>2
    <3>3. QED BY <1>1, <3>1, <3>2 DEF ClaimRelease
  <2>2. claimedAt' \in {None} \cup Time
    BY <1>1 DEF ClaimRelease
  <2>3. QED BY <1>1, <2>1, <2>2 DEF ClaimRelease, outbox
<1>2. CASE ReadReviews(r)
  <2> DEFINE list == IF rel[r].status = "Reviewed"
                     THEN {x \in Patches \X Runs : IsLatest(x[1], x[2])}
                     ELSE {}
  <2>1. list \in SUBSET (Patches \X Runs)
    OBVIOUS
  <2> HIDE DEF list
  <2>2. rel' = [rel EXCEPT ![r].at = "queueing", ![r].todo = list]
    BY <1>2 DEF ReadReviews, list
  <2>3. rel' \in [Releasers -> Release]
    <3>1. [rel[r] EXCEPT !.at = "queueing", !.todo = list] \in Release
      BY <2>1, ReleaseTo
    <3>2. rel' = [rel EXCEPT ![r] = [rel[r] EXCEPT !.at = "queueing",
                                                   !.todo = list]]
      BY <2>2
    <3>3. QED BY <3>1, <3>2
  <2>4. QED BY <1>2, <2>3 DEF ReadReviews, row, outbox
<1>3. CASE QueueMail(r)
  <2>1. PICK x \in rel[r].todo :
          /\ rel' = [rel EXCEPT ![r].todo = @ \ {x}]
          /\ mail' = IF MayQueue(r) THEN MailWith(x[1], x[2]) ELSE mail
    BY <1>3 DEF QueueMail
  <2>2. x[1] \in Patches /\ x[2] \in Runs
    BY DEF Release
  <2>3. mail' \in [Patches -> Mail]
    BY <2>1, <2>2, MailWithType
  <2>4. rel' \in [Releasers -> Release]
    <3>1. [rel[r] EXCEPT !.todo = @ \ {x}] \in Release
      <4>1. rel[r] \in Release
        OBVIOUS
      <4>2. QED BY <4>1, ReleaseTo
    <3>2. rel' = [rel EXCEPT ![r] = [rel[r] EXCEPT !.todo = @ \ {x}]]
      BY <2>1
    <3>3. QED BY <3>1, <3>2
  <2>5. QED BY <1>3, <2>3, <2>4 DEF QueueMail, row
<1>4. CASE ReleaseComment(r)
  <2>1. rel' \in [Releasers -> Release]
    BY <1>4, RelToType DEF ReleaseComment
  <2>2. comment' \in Comment
    BY <1>4 DEF ReleaseComment, Comment
  <2>3. QED BY <1>4, <2>1, <2>2 DEF ReleaseComment, row
<1>5. CASE ClearEmbargo(r)
  BY <1>5, IdleIsRelease DEF ClearEmbargo, outbox
<1>6. CASE FailRelease(r)
  <2>1. rel' \in [Releasers -> Release]
    BY <1>6, RelToType, IdleIsRelease DEF FailRelease
  <2>2. faults' \in 0..MaxFaults /\ claimedAt' \in {None} \cup Time
    BY <1>6, FailType DEF FailRelease
  <2>3. QED BY <1>6, <2>1, <2>2 DEF FailRelease, outbox
<1>7. QED BY <1>1, <1>2, <1>3, <1>4, <1>5, <1>6 DEF RelStep

LEMMA TypeStep == TypeOK /\ [Next]_vars => TypeOK'
<1> SUFFICES ASSUME TypeOK, [Next]_vars PROVE TypeOK'
  OBVIOUS
<1>1. CASE UNCHANGED vars
  BY <1>1 DEF vars, row, outbox, TypeOK
<1>2. CASE Poll
  BY <1>2 DEF Poll, TypeOK, row, outbox
<1>3. CASE StartRun
  <2> USE DEF TypeOK
  <2>1. poll' \in [due : BOOLEAN, embargo : {None} \cup Time]
    BY <1>3 DEF StartRun, NoPoll
  <2>2. CASE status = "Pending" /\ lastGen < MaxRuns
    <3>1. lastGen + 1 \in Runs /\ poll.embargo \in {None} \cup Time
      BY <2>2
    <3>2. [at |-> "reviewing", embargo |-> poll.embargo, success |-> FALSE,
           job |-> [p \in Patches |-> "todo"]] \in Run
      BY <3>1 DEF Run, JobStage
    <3>3. run' \in [Runs -> Run]
      BY <1>3, <2>2, <3>1, <3>2 DEF StartRun
    <3>4. status' \in PatchsetStatus
      BY <1>3, <2>2 DEF StartRun, PatchsetStatus
    <3>5. active' \in {0} \cup Runs /\ lastGen' \in {0} \cup Runs
      BY <1>3, <2>2, <3>1 DEF StartRun
    <3>6. QED BY <1>3, <2>1, <3>3, <3>4, <3>5 DEF StartRun, outbox
  <2>3. CASE ~(status = "Pending" /\ lastGen < MaxRuns)
    BY <1>3, <2>1, <2>3 DEF StartRun, outbox
  <2>4. QED BY <2>2, <2>3
<1>4. CASE PickReleasable
  <2> USE DEF TypeOK
  <2>1. [Idle EXCEPT !.at = "claiming", !.status = status] \in Release
    BY DEF Release, Idle
  <2>2. rel' \in [Releasers -> Release]
    BY <1>4, <2>1 DEF PickReleasable
  <2>3. QED BY <1>4, <2>2 DEF PickReleasable, row, outbox
<1>5. QED
  BY <1>1, <1>2, <1>3, <1>4, EnvironmentType, RunStepType, RelStepType
     DEF Next

-----------------------------------------------------------------------------
(* The claims of runs and of releases.                                     *)

(* A run's step changes no other run.                                      *)
LEMMA RunStepRun ==
  ASSUME NEW g \in Runs, RunStep(g), run \in [Runs -> Run]
  PROVE  \E x : run' = [run EXCEPT ![g] = x]
<1>1. ASSUME NEW p \in Patches, NEW s, JobTo(g, p, s)
      PROVE  \E x : run' = [run EXCEPT ![g] = x]
  BY <1>1 DEF JobTo
<1>2. ASSUME NEW p \in Patches, ReviewPatch(g, p) \/ Notify(g, p)
      PROVE  \E x : run' = [run EXCEPT ![g] = x]
  <2>1. \E s : JobTo(g, p, s)
    BY <1>2 DEF ReviewPatch, Notify
  <2>2. QED BY <1>1, <2>1
<1>3. CASE Conclude(g) \/ Post(g) \/ EndRun(g)
  BY <1>3 DEF Conclude, Post, EndRun
<1>4. QED BY <1>2, <1>3 DEF RunStep

(* The steps that leave status, active, lastGen and what runs do alone, or *)
(* all but an end of a run.                                                *)
LEMMA GenerationsStep ==
  ASSUME TypeOK, GenerationsOK, [Next]_vars
  PROVE  GenerationsOK'
<1> USE DEF GenerationsOK
<1>0. lastGen \in Nat /\ active \in Nat /\ run \in [Runs -> Run]
  BY DEF TypeOK
<1> HIDE DEF Runs
<1>1. CASE UNCHANGED vars
  BY <1>1 DEF vars, row
<1>2. CASE \/ Tick \/ LiftEmbargo \/ Deliver \/ Poll \/ PickReleasable
           \/ \E until \in Time : PlaceEmbargo(until)
           \/ \E r \in Releasers : RelStep(r)
  BY <1>2 DEF Tick, LiftEmbargo, Deliver, Poll, PickReleasable, PlaceEmbargo,
     RelStep, ClaimRelease, ReadReviews, QueueMail, ReleaseComment,
     ClearEmbargo, FailRelease, row
<1>3. CASE Cancel \/ Rerun
  <2>1. active' = 0 /\ lastGen' = lastGen /\ run' = run
    BY <1>3 DEF Cancel, Rerun
  <2>2. QED BY <1>0, <2>1
<1>4. CASE Restart
  <2>1. /\ active' = 0 /\ lastGen' = lastGen
        /\ run' = [g \in Runs |->
                     IF run[g].at = "none" THEN NoRun ELSE Gone]
    BY <1>4 DEF Restart
  <2>2. NoRun.at = "none"
    BY DEF NoRun
  <2>3. QED BY <1>0, <2>1, <2>2
<1>5. CASE StartRun
  <2>1. CASE status = "Pending" /\ lastGen < MaxRuns
    <3>1. /\ active' = lastGen + 1 /\ lastGen' = lastGen + 1
          /\ status' = "InReview"
          /\ \E x : run' = [run EXCEPT ![lastGen + 1] = x]
      BY <1>5, <2>1 DEF StartRun
    <3>2. \A g \in Runs : run'[g].at # "none" => g <= lastGen + 1
      BY <1>0, <3>1 DEF Runs
    <3>3. QED BY <1>0, <3>1, <3>2
  <2>2. CASE ~(status = "Pending" /\ lastGen < MaxRuns)
    BY <1>5, <2>2 DEF StartRun
  <2>3. QED BY <2>1, <2>2
<1>6. ASSUME NEW g \in Runs, RunStep(g) PROVE GenerationsOK'
  <2>1. \A h \in Runs : run'[h].at # "none" => run[h].at # "none"
    <3>1. \E x : run' = [run EXCEPT ![g] = x]
      BY <1>0, <1>6, RunStepRun
    <3>2. run[g].at # "none"
      BY <1>6 DEF RunStep, ReviewPatch, Notify, Conclude, Post, EndRun
    <3>3. QED BY <1>0, <3>1, <3>2
  <2>2. /\ lastGen' = lastGen /\ active' \in {0, active}
        /\ status' = "Pending" => status = "Pending"
    BY <1>6 DEF RunStep, ReviewPatch, Notify, Conclude, Post, EndRun, row
  <2>3. QED BY <1>0, <2>1, <2>2
<1>7. QED BY <1>1, <1>2, <1>3, <1>4, <1>5, <1>6 DEF Next

(* What a step makes of a release.                                         *)
Kept(q, x) == x.gen = rel[q].gen /\ x.status = rel[q].status

Moved(q, x) ==
    \/ x = Idle
    \/ /\ ClaimRelease(q) /\ Releasable /\ x.at = "reading"
       /\ x.gen = lastGen /\ x.status = rel[q].status /\ x.todo = rel[q].todo
    \/ /\ ReadReviews(q) /\ x.at = "queueing" /\ Kept(q, x)
       /\ x.todo = IF rel[q].status = "Reviewed"
                   THEN {y \in Patches \X Runs : IsLatest(y[1], y[2])}
                   ELSE {}
    \/ /\ QueueMail(q) /\ x.at = "queueing" /\ Kept(q, x)
       /\ x.todo \subseteq rel[q].todo
    \/ /\ ReleaseComment(q) /\ x.at = "clearing" /\ Kept(q, x)
       /\ x.todo = {} /\ rel[q].todo = {}
    \/ /\ FailRelease(q) /\ x.at = "failing" /\ Kept(q, x)
       /\ x.todo = rel[q].todo

LEMMA RelStepRel ==
  ASSUME rel \in [Releasers -> Release], NEW q \in Releasers, RelStep(q)
  PROVE  \E x : rel' = [rel EXCEPT ![q] = x] /\ Moved(q, x)
<1> HIDE DEF Releasers
<1>0. ASSUME NEW s
      PROVE  /\ [rel[q] EXCEPT !.at = s].at = s
             /\ [rel[q] EXCEPT !.at = s].gen = rel[q].gen
             /\ [rel[q] EXCEPT !.at = s].status = rel[q].status
             /\ [rel[q] EXCEPT !.at = s].todo = rel[q].todo
  <2>1. rel[q] \in Release
    OBVIOUS
  <2>2. QED BY <2>1 DEF Release
<1>1. CASE ClaimRelease(q)
  <2>1. CASE Releasable
    <3>1. rel' = [rel EXCEPT ![q] = [rel[q] EXCEPT !.at = "reading",
                                                   !.gen = lastGen]]
      BY <1>1, <2>1 DEF ClaimRelease
    <3>2. ASSUME NEW x \in Release
          PROVE  /\ [x EXCEPT !.at = "reading", !.gen = lastGen].at = "reading"
                 /\ [x EXCEPT !.at = "reading", !.gen = lastGen].gen = lastGen
                 /\ [x EXCEPT !.at = "reading", !.gen = lastGen].status
                      = x.status
                 /\ [x EXCEPT !.at = "reading", !.gen = lastGen].todo = x.todo
      BY DEF Release
    <3>3. QED BY <1>1, <2>1, <3>1, <3>2 DEF Moved
  <2>2. CASE ~Releasable
    BY <1>1, <2>2 DEF ClaimRelease, Moved
  <2>3. QED BY <2>1, <2>2
<1>2. CASE ReadReviews(q)
  <2> DEFINE list == IF rel[q].status = "Reviewed"
                     THEN {y \in Patches \X Runs : IsLatest(y[1], y[2])}
                     ELSE {}
  <2>1. rel' = [rel EXCEPT ![q].at = "queueing", ![q].todo = list]
    BY <1>2 DEF ReadReviews
  <2>2. Moved(q, [rel[q] EXCEPT !.at = "queueing", !.todo = list])
    <3> HIDE DEF list
    <3>1. ASSUME NEW x \in Release
          PROVE  /\ [x EXCEPT !.at = "queueing", !.todo = list].at = "queueing"
                 /\ [x EXCEPT !.at = "queueing", !.todo = list].gen = x.gen
                 /\ [x EXCEPT !.at = "queueing", !.todo = list].status
                      = x.status
                 /\ [x EXCEPT !.at = "queueing", !.todo = list].todo = list
      BY DEF Release
    <3> USE DEF list
    <3>2. QED BY <1>2, <3>1 DEF Moved, Kept
  <2> HIDE DEF list
  <2>3. rel' = [rel EXCEPT ![q] = [rel[q] EXCEPT !.at = "queueing",
                                                 !.todo = list]]
    BY <2>1
  <2>4. QED BY <2>2, <2>3
<1>3. CASE QueueMail(q)
  <2>1. PICK y : rel' = [rel EXCEPT ![q].todo = @ \ {y}]
    BY <1>3 DEF QueueMail
  <2>2. rel[q].at = "queueing"
    BY <1>3 DEF QueueMail
  <2>3. ASSUME NEW x \in Release, x.at = "queueing"
        PROVE  /\ [x EXCEPT !.todo = @ \ {y}].at = "queueing"
               /\ [x EXCEPT !.todo = @ \ {y}].gen = x.gen
               /\ [x EXCEPT !.todo = @ \ {y}].status = x.status
               /\ [x EXCEPT !.todo = @ \ {y}].todo \subseteq x.todo
    BY <2>3 DEF Release
  <2>4. rel' = [rel EXCEPT ![q] = [rel[q] EXCEPT !.todo = @ \ {y}]]
    BY <2>1
  <2>5. QED BY <1>3, <2>2, <2>3, <2>4 DEF Moved, Kept
<1>4. CASE ReleaseComment(q)
  <2>1. rel' = [rel EXCEPT ![q] = [rel[q] EXCEPT !.at = "clearing"]]
    BY <1>4 DEF ReleaseComment, RelTo
  <2>2. rel[q].todo = {}
    BY <1>4 DEF ReleaseComment
  <2>3. Moved(q, [rel[q] EXCEPT !.at = "clearing"])
    BY ONLY <1>0, <1>4, <2>2 DEF Moved, Kept
  <2>4. QED BY <2>1, <2>3
<1>5. CASE ClearEmbargo(q)
  BY <1>5 DEF ClearEmbargo, Moved
<1>6. CASE FailRelease(q)
  <2>1. CASE rel' = [rel EXCEPT ![q] = Idle]
    BY <2>1 DEF Moved
  <2>2. CASE RelTo(q, "failing")
    <3>1. rel' = [rel EXCEPT ![q] = [rel[q] EXCEPT !.at = "failing"]]
      BY <2>2 DEF RelTo
    <3>2. Moved(q, [rel[q] EXCEPT !.at = "failing"])
      BY ONLY <1>0, <1>6 DEF Moved, Kept
    <3>3. QED BY <3>1, <3>2
  <2>3. QED BY <1>6, <2>1, <2>2 DEF FailRelease
<1>7. QED BY <1>1, <1>2, <1>3, <1>4, <1>5, <1>6 DEF RelStep

(* Every other step leaves a release alone, or it is not one that holds.   *)
LEMMA OthersRel ==
  ASSUME TypeOK, Next, NEW r \in Releasers, rel'[r] # rel[r],
         ~ \E q \in Releasers : RelStep(q)
  PROVE  /\ rel'[r].at \in {"idle", "claiming"} /\ rel'[r].todo = {}
         /\ rel'[r].status = "Reviewed" => r = Loop
<1>0. rel \in [Releasers -> Release]
  BY DEF TypeOK
<1> HIDE DEF Releasers
<1>1. CASE \/ Tick \/ LiftEmbargo \/ Cancel \/ Rerun \/ Deliver \/ Poll
           \/ StartRun \/ \E until \in Time : PlaceEmbargo(until)
  BY <1>1 DEF Tick, LiftEmbargo, Cancel, Rerun, Deliver, Poll, StartRun,
     PlaceEmbargo
<1>2. CASE Restart
  <2>1. rel' = [q \in Releasers |-> Idle]
    BY <1>2 DEF Restart
  <2>2. QED BY <2>1 DEF Idle
<1>3. CASE PickReleasable
  <2>1. rel' = [rel EXCEPT ![Loop] = [Idle EXCEPT !.at = "claiming",
                                                  !.status = status]]
    BY <1>3 DEF PickReleasable
  <2>2. QED BY <1>0, <2>1 DEF Idle
<1>4. ASSUME NEW g \in Runs, RunStep(g)
      PROVE  /\ rel'[r].at \in {"idle", "claiming"} /\ rel'[r].todo = {}
             /\ rel'[r].status = "Reviewed" => r = Loop
  <2>1. \/ UNCHANGED rel
        \/ rel' = [rel EXCEPT ![g] = [Idle EXCEPT !.at = "claiming",
                                                  !.status = "InReview"]]
    BY <1>4 DEF RunStep, ReviewPatch, Notify, Conclude, Post, EndRun
  <2>2. QED BY <1>0, <2>1 DEF Idle
<1>5. QED BY <1>1, <1>2, <1>3, <1>4 DEF Next

(* Only a release that claims becomes one that holds; the others keep the  *)
(* generation they saw.                                                    *)
LEMMA HoldingStep ==
  ASSUME TypeOK, Next, NEW r \in Releasers, Holding(r)'
  PROVE  \/ Holding(r) /\ rel'[r].gen = rel[r].gen
         \/ ClaimRelease(r) /\ Releasable /\ rel'[r].gen = lastGen
<1>0. rel \in [Releasers -> Release] /\ Idle.at = "idle"
  BY DEF TypeOK, Idle
<1> HIDE DEF Releasers
<1>1. CASE rel'[r] = rel[r]
  BY <1>1 DEF Holding
<1>2. ASSUME NEW q \in Releasers, RelStep(q), rel'[r] # rel[r]
      PROVE  \/ Holding(r) /\ rel'[r].gen = rel[r].gen
             \/ ClaimRelease(r) /\ Releasable /\ rel'[r].gen = lastGen
  <2>1. PICK x : rel' = [rel EXCEPT ![q] = x] /\ Moved(q, x)
    BY <1>0, <1>2, RelStepRel
  <2>2. q = r /\ rel'[r] = x
    BY <1>0, <1>2, <2>1
  <2>3. Moved(r, x)
    BY <2>1, <2>2
  <2>4. ASSUME \/ ReadReviews(r) \/ QueueMail(r) \/ ReleaseComment(r)
               \/ FailRelease(r) /\ x.at = "failing"
        PROVE  Holding(r)
    <3>1. CASE FailRelease(r) /\ x.at = "failing"
      BY <1>0, <2>2, <3>1 DEF FailRelease, RelTo, Holding
    <3>2. CASE ReadReviews(r) \/ QueueMail(r) \/ ReleaseComment(r)
      BY <3>2 DEF ReadReviews, QueueMail, ReleaseComment, Holding
    <3>3. QED BY <2>4, <3>1, <3>2
  <2>5. x.at # "idle"
    BY <2>2 DEF Holding
  <2>6. x # Idle
    BY <1>0, <2>5
  <2>7. CASE ClaimRelease(r) /\ Releasable /\ x.gen = lastGen
    BY <2>2, <2>7
  <2>8. CASE /\ Kept(r, x)
             /\ \/ ReadReviews(r) \/ QueueMail(r) \/ ReleaseComment(r)
                \/ FailRelease(r) /\ x.at = "failing"
    <3>1. Holding(r)
      BY <2>4, <2>8
    <3>2. QED BY <2>2, <2>8, <3>1 DEF Kept
  <2>9. \/ ClaimRelease(r) /\ Releasable /\ x.gen = lastGen
        \/ /\ Kept(r, x)
           /\ \/ ReadReviews(r) \/ QueueMail(r) \/ ReleaseComment(r)
              \/ FailRelease(r) /\ x.at = "failing"
    BY ONLY <2>3, <2>6 DEF Moved
  <2>10. QED BY <2>7, <2>8, <2>9
<1>3. CASE ~ \E q \in Releasers : RelStep(q)
  BY <1>1, <1>3, OthersRel DEF Holding
<1>4. QED BY <1>1, <1>2, <1>3

(* How the status of the patchset comes to be In Review, and Reviewed.     *)
LEMMA StatusStep ==
  ASSUME TypeOK, Next
  PROVE  /\ lastGen' = lastGen \/ lastGen' = lastGen + 1
         /\ status' = "InReview" =>
              status = "InReview" \/ lastGen' = lastGen + 1
         /\ status' = "Reviewed" =>
              /\ lastGen' = lastGen
              /\ status = "Reviewed" \/ status = "InReview"
<1>1. CASE \/ Tick \/ LiftEmbargo \/ Cancel \/ Rerun \/ Deliver \/ Restart
           \/ \E until \in Time : PlaceEmbargo(until)
  BY <1>1 DEF Tick, LiftEmbargo, Cancel, Rerun, Deliver, Restart,
     PlaceEmbargo, row
<1>2. CASE Poll \/ StartRun \/ PickReleasable
  BY <1>2 DEF Poll, StartRun, PickReleasable, row
<1>3. ASSUME NEW g \in Runs, RunStep(g)
      PROVE  /\ lastGen' = lastGen
             /\ status' = "InReview" => status = "InReview"
             /\ status' = "Reviewed" =>
                  status = "Reviewed" \/ status = "InReview"
  BY <1>3 DEF RunStep, ReviewPatch, Notify, Conclude, Post, EndRun, row,
     ClaimActive
<1>4. ASSUME NEW q \in Releasers, RelStep(q)
      PROVE  lastGen' = lastGen /\ status' = status
  BY <1>4 DEF RelStep, ClaimRelease, ReadReviews, QueueMail, ReleaseComment,
     ClearEmbargo, FailRelease, row
<1>5. QED BY <1>1, <1>2, <1>3, <1>4 DEF Next

LEMMA ReleasesAfterReviewStep ==
  ASSUME TypeOK, ReleasesAfterReview, [Next]_vars
  PROVE  ReleasesAfterReview'
<1>1. CASE UNCHANGED vars
  BY <1>1 DEF vars, row, ReleasesAfterReview, Holding
<1>2. CASE Next
  <2> SUFFICES ASSUME NEW r \in Releasers, Holding(r)'
               PROVE  /\ rel'[r].gen <= lastGen'
                      /\ rel'[r].gen = lastGen' => status' # "InReview"
    BY DEF ReleasesAfterReview, Holding
  <2>1. lastGen \in Nat
    BY DEF TypeOK
  <2>2. CASE Holding(r) /\ rel'[r].gen = rel[r].gen
    <3>1. rel[r].gen \in Nat
      BY DEF TypeOK, Release
    <3>2. /\ rel[r].gen <= lastGen
          /\ rel[r].gen = lastGen => status # "InReview"
      BY <2>2 DEF ReleasesAfterReview
    <3>3. QED BY <1>2, <2>1, <2>2, <3>1, <3>2, StatusStep
  <2>3. CASE ClaimRelease(r) /\ Releasable /\ rel'[r].gen = lastGen
    BY <2>1, <2>3 DEF ClaimRelease, Releasable
  <2>4. QED BY <1>2, <2>2, <2>3, HoldingStep
<1>3. QED BY <1>1, <1>2

(* While the patchset stays reviewed, no review changes, and its embargo   *)
(* gets no later.                                                          *)
LEMMA ReviewedStep ==
  ASSUME TypeOK, Next, status = "Reviewed", status' = "Reviewed"
  PROVE  /\ review' = review
         /\ embargo' = embargo \/ embargo' = now \/ embargo' = None
         /\ now' = now \/ now' = now + 1
<1>1. CASE \/ Tick \/ LiftEmbargo \/ Cancel \/ Rerun \/ Deliver \/ Restart
           \/ \E until \in Time : PlaceEmbargo(until)
  BY <1>1 DEF Tick, LiftEmbargo, Cancel, Rerun, Deliver, Restart,
     PlaceEmbargo, row
<1>2. CASE Poll \/ StartRun \/ PickReleasable
  BY <1>2 DEF Poll, StartRun, PickReleasable, row
<1>3. ASSUME NEW g \in Runs, RunStep(g)
      PROVE  review' = review /\ embargo' = embargo /\ now' = now
  <2>1. ASSUME NEW p \in Patches, ReviewPatch(g, p)
        PROVE  review' = review /\ embargo' = embargo /\ now' = now
    BY <2>1 DEF ReviewPatch, ClaimActive, row
  <2>2. ASSUME NEW p \in Patches, Notify(g, p)
        PROVE  review' = review /\ embargo' = embargo /\ now' = now
    BY <2>2 DEF Notify, row
  <2>3. CASE Conclude(g) \/ Post(g) \/ EndRun(g)
    BY <2>3 DEF Conclude, Post, EndRun, row
  <2>4. QED BY <1>3, <2>1, <2>2, <2>3 DEF RunStep
<1>4. ASSUME NEW q \in Releasers, RelStep(q)
      PROVE  /\ review' = review /\ now' = now
             /\ embargo' = embargo \/ embargo' = None
  BY <1>4 DEF RelStep, ClaimRelease, ReadReviews, QueueMail, ReleaseComment,
     ClearEmbargo, FailRelease, row
<1>5. QED BY <1>1, <1>2, <1>3, <1>4 DEF Next

(* A release that is not overtaken after a step was not before.            *)
LEMMA NotOvertakenStep ==
  ASSUME TypeOK, ReleasesAfterReview, Next, NEW r \in Releasers,
         Holding(r), rel'[r].gen = rel[r].gen, ~Overtaken(r)'
  PROVE  ~Overtaken(r) /\ status = "Reviewed" /\ status' = "Reviewed"
<1>1. status' = "Reviewed" /\ rel'[r].gen = lastGen'
  BY DEF Overtaken
<1>2. lastGen' = lastGen
  BY <1>1, StatusStep
<1>3. status = "Reviewed" \/ status = "InReview"
  BY <1>1, StatusStep
<1>4. status # "InReview"
  BY <1>1, <1>2 DEF ReleasesAfterReview
<1>5. QED BY <1>1, <1>2, <1>3, <1>4 DEF Overtaken

LEMMA ReleasesAreDueStep ==
  ASSUME TypeOK, ReleasesAfterReview, ReleasesAreDue, [Next]_vars
  PROVE  ReleasesAreDue'
<1>1. CASE UNCHANGED vars
  BY <1>1 DEF vars, row, ReleasesAreDue, Holding, Overtaken, NoFindings,
     InForce
<1>2. CASE Next
  <2> SUFFICES ASSUME NEW r \in Releasers, Holding(r)', ~Overtaken(r)'
               PROVE  NoFindings' \/ ~InForce(embargo)'
    BY DEF ReleasesAreDue
  <2>1. now \in Nat /\ embargo \in Int
    BY DEF TypeOK
  <2>2. CASE Holding(r) /\ rel'[r].gen = rel[r].gen
    <3>1. ~Overtaken(r) /\ status = "Reviewed" /\ status' = "Reviewed"
      BY <1>2, <2>2, NotOvertakenStep
    <3>2. NoFindings \/ ~InForce(embargo)
      BY <2>2, <3>1 DEF ReleasesAreDue
    <3>3. review' = review
      BY <1>2, <3>1, ReviewedStep
    <3>4. NoFindings => NoFindings'
      BY <3>3 DEF NoFindings
    <3>5. ~InForce(embargo) => ~InForce(embargo)'
      <4>1. embargo' = embargo \/ embargo' = now \/ embargo' = None
        BY <1>2, <3>1, ReviewedStep
      <4>2. now' = now \/ now' = now + 1
        BY <1>2, <3>1, ReviewedStep
      <4>3. QED BY <2>1, <4>1, <4>2 DEF InForce
    <3>6. QED BY <3>2, <3>4, <3>5
  <2>3. CASE ClaimRelease(r) /\ Releasable
    <3>1. /\ review' = review /\ embargo' = embargo /\ now' = now
          /\ status' = status
      BY <2>3 DEF ClaimRelease, row
    <3>2. status = "Reviewed"
      BY <3>1 DEF Overtaken
    <3>3. CASE embargo <= now
      BY <2>1, <3>1, <3>3 DEF InForce
    <3>4. CASE Clean
      BY <3>1, <3>4 DEF Clean, NoFindings
    <3>5. QED BY <2>3, <3>2, <3>3, <3>4 DEF Releasable
  <2>4. QED BY <1>2, <2>2, <2>3, HoldingStep
<1>3. QED BY <1>1, <1>2

-----------------------------------------------------------------------------
(* Who queues what.                                                        *)

LEMMA WhoQueuesStep ==
  ASSUME TypeOK, GenerationsOK, WhoQueues, [Next]_vars
  PROVE  WhoQueues'
<1>0. rel \in [Releasers -> Release] /\ run \in [Runs -> Run]
  BY DEF TypeOK
<1>1. CASE UNCHANGED vars
  BY <1>1 DEF vars, row, WhoQueues
<1>2. ASSUME Next, NEW g \in Runs
      PROVE  rel'[g].status # "Reviewed" /\ rel'[g].todo = {}
  <2>1. rel[g].status # "Reviewed" /\ rel[g].todo = {}
    BY DEF WhoQueues
  <2>2. g \in Releasers /\ g # Loop
    OBVIOUS
  <2>3. ASSUME NEW q \in Releasers, RelStep(q)
        PROVE  rel'[g].status # "Reviewed" /\ rel'[g].todo = {}
    <3> HIDE DEF Releasers, Loop
    <3>1. PICK x : rel' = [rel EXCEPT ![q] = x] /\ Moved(q, x)
      BY <1>0, <2>3, RelStepRel
    <3>2. CASE q = g
      <4>1. Moved(g, x) /\ rel'[g] = x
        BY <1>0, <2>2, <3>1, <3>2
      <4>2. Idle.status # "Reviewed" /\ Idle.todo = {}
        BY DEF Idle
      <4>3. QED BY ONLY <2>1, <4>1, <4>2 DEF Moved, Kept
    <3>3. CASE q # g
      BY <1>0, <2>1, <2>2, <3>1, <3>3
    <3>4. QED BY <3>2, <3>3
  <2>4. CASE ~ \E q \in Releasers : RelStep(q)
    BY <1>2, <2>1, <2>2, <2>4, OthersRel
  <2>5. QED BY <2>3, <2>4
<1>3. ASSUME Next, NEW g \in Runs, run'[g].at = "reviewing", active' = g
      PROVE  status' = "InReview"
  <2> HIDE DEF Runs
  <2>0. g \in Nat /\ g # 0
    BY DEF Runs
  <2>1. run[g].at = "reviewing" /\ active = g => status = "InReview"
    BY DEF WhoQueues
  <2>2. CASE \/ Tick \/ LiftEmbargo \/ Deliver \/ Poll \/ PickReleasable
             \/ \E until \in Time : PlaceEmbargo(until)
             \/ \E r \in Releasers : RelStep(r)
    BY <1>3, <2>1, <2>2 DEF Tick, LiftEmbargo, Deliver, Poll, PickReleasable,
       PlaceEmbargo, RelStep, ClaimRelease, ReadReviews, QueueMail,
       ReleaseComment, ClearEmbargo, FailRelease, row
  <2>3. CASE Cancel \/ Rerun \/ Restart
    BY <1>3, <2>0, <2>3 DEF Cancel, Rerun, Restart
  <2>4. CASE StartRun
    BY <1>3, <2>1, <2>4 DEF StartRun
  <2>5. ASSUME NEW h \in Runs, RunStep(h)
        PROVE  status' = "InReview"
    <3>1. PICK x : run' = [run EXCEPT ![h] = x]
      BY <1>0, <2>5, RunStepRun
    <3>2. ASSUME NEW p \in Patches, ReviewPatch(h, p) \/ Notify(h, p)
          PROVE  status' = "InReview"
      <4>1. active' = active /\ status' = status /\ run[h].at = "reviewing"
        BY <3>2 DEF ReviewPatch, Notify, row
      <4>2. run[g].at = "reviewing"
        BY <1>0, <1>3, <3>1, <4>1
      <4>3. QED BY <1>3, <2>1, <4>1, <4>2
    <3>3. CASE Conclude(h)
      <4>1. run'[h].at # "reviewing"
        <5>1. PICK y : run' = [run EXCEPT ![h] = y] /\ y.at # "reviewing"
          <6>1. CASE ClaimActive(h)
            <7>1. \E b : run' = [run EXCEPT ![h] = [NoRun EXCEPT
                    !.at = "posting", !.embargo = run[h].embargo,
                    !.success = b]]
              BY <3>3, <6>1 DEF Conclude
            <7>2. ASSUME NEW b
                  PROVE  [NoRun EXCEPT !.at = "posting",
                            !.embargo = run[h].embargo, !.success = b].at
                           = "posting"
              BY DEF NoRun
            <7>3. QED BY <7>1, <7>2
          <6>2. CASE ~ClaimActive(h)
            <7>1. run' = [run EXCEPT ![h] = Gone]
              BY <3>3, <6>2 DEF Conclude
            <7>2. Gone.at # "reviewing"
              BY DEF Gone, NoRun
            <7>3. QED BY <7>1, <7>2
          <6>3. QED BY <6>1, <6>2
        <5>2. QED BY <1>0, <5>1
      <4>2. h # g /\ run[g].at = "reviewing" /\ active = g
        BY <1>0, <1>3, <3>1, <3>3, <4>1 DEF Conclude
      <4>3. ~ClaimActive(h)
        BY <4>2 DEF ClaimActive
      <4>4. QED BY <2>1, <3>3, <4>2, <4>3 DEF Conclude
    <3>4. CASE Post(h) \/ EndRun(h)
      <4>1. run'[h].at # "reviewing"
        <5>1. PICK y : run' = [run EXCEPT ![h] = y] /\ y.at # "reviewing"
          BY <3>4 DEF Post, EndRun, NoRun, Gone
        <5>2. QED BY <1>0, <5>1
      <4>2. h # g /\ run[g].at = "reviewing"
        BY <1>0, <1>3, <3>1, <4>1
      <4>3. status' = status /\ active' \in {0, active}
        BY <3>4 DEF Post, EndRun, row
      <4>4. QED BY <1>3, <2>0, <2>1, <4>2, <4>3
    <3>5. QED BY <2>5, <3>2, <3>3, <3>4 DEF RunStep
  <2>6. QED BY <1>3, <2>2, <2>3, <2>4, <2>5 DEF Next
<1>4. QED BY <1>1, <1>2, <1>3 DEF WhoQueues

(* What a reviewed patchset's mail goes through in one step.               *)
LEMMA MailStep ==
  ASSUME TypeOK, WhoQueues, Next, status = "Reviewed", status' = "Reviewed",
         \A x \in rel[Loop].todo : IsLatest(x[1], x[2]), NEW p \in Patches
  PROVE  \/ mail'[p] = mail[p]
         \/ mail'[p].status = "Sent"
         \/ mail'[p].status = "Pending" /\ IsLatest(p, mail'[p].of)
<1>0. mail \in [Patches -> Mail]
  BY DEF TypeOK
<1>1. ASSUME NEW q \in Patches, NEW g \in Runs, IsLatest(q, g),
             mail' = MailWith(q, g)
      PROVE  \/ mail'[p] = mail[p]
             \/ mail'[p].status = "Pending" /\ IsLatest(p, mail'[p].of)
  <2>1. CASE mail[q].status = "Sent"
    BY <1>1, <2>1 DEF MailWith
  <2>2. CASE mail[q].status # "Sent"
    <3>1. mail' = [mail EXCEPT ![q] = [status |-> "Pending", of |-> g]]
      BY <1>1, <2>2 DEF MailWith
    <3>2. QED BY <1>0, <1>1, <3>1
  <2>3. QED BY <2>1, <2>2
<1>2. CASE \/ Tick \/ LiftEmbargo \/ Restart \/ Poll \/ StartRun
           \/ PickReleasable \/ \E until \in Time : PlaceEmbargo(until)
  BY <1>2 DEF Tick, LiftEmbargo, Restart, Poll, StartRun, PickReleasable,
     PlaceEmbargo, outbox
<1>3. CASE Cancel \/ Rerun
  BY <1>3 DEF Cancel, Rerun
<1>4. CASE Deliver
  <2>1. \/ UNCHANGED mail
        \/ \E q \in Patches :
             mail' = [mail EXCEPT ![q] = [mail[q] EXCEPT !.status = "Sent"]]
    BY <1>4 DEF Deliver
  <2>2. ASSUME NEW q \in Patches
        PROVE  [mail[q] EXCEPT !.status = "Sent"].status = "Sent"
    <3>1. mail[q] \in Mail
      BY <1>0
    <3>2. QED BY <3>1 DEF Mail
  <2>3. QED BY <1>0, <2>1, <2>2
<1>5. ASSUME NEW g \in Runs, RunStep(g)
      PROVE  \/ mail'[p] = mail[p]
             \/ mail'[p].status = "Pending" /\ IsLatest(p, mail'[p].of)
  <2>1. \/ UNCHANGED mail
        \/ \E q \in Patches, h \in Runs :
             IsLatest(q, h) /\ mail' = MailWith(q, h)
    BY <1>5 DEF RunStep, ReviewPatch, Notify, Conclude, Post, EndRun, outbox
  <2>2. QED BY <1>1, <2>1
<1>6. ASSUME NEW r \in Releasers, RelStep(r)
      PROVE  \/ mail'[p] = mail[p]
             \/ mail'[p].status = "Pending" /\ IsLatest(p, mail'[p].of)
  <2>1. CASE QueueMail(r)
    <3>1. PICK x \in rel[r].todo :
                 mail' = IF MayQueue(r) THEN MailWith(x[1], x[2]) ELSE mail
      BY <2>1 DEF QueueMail
    <3>2. r = Loop
      BY <3>1 DEF WhoQueues
    <3>3. x[1] \in Patches /\ x[2] \in Runs /\ IsLatest(x[1], x[2])
      BY <3>1, <3>2 DEF TypeOK, Release
    <3>4. QED BY <1>1, <3>1, <3>3
  <2>2. CASE ~QueueMail(r)
    BY <1>6, <2>2 DEF RelStep, ClaimRelease, ReadReviews, ReleaseComment,
       ClearEmbargo, FailRelease, outbox
  <2>3. QED BY <2>1, <2>2
<1>7. QED BY <1>2, <1>3, <1>4, <1>5, <1>6 DEF Next

(* A patch that has completed reviews has a latest one.                    *)
LEMMA HasLatest ==
  ASSUME NEW p \in Patches, Completed(p) # {}
  PROVE  \E g \in Runs : IsLatest(p, g)
<1>1. /\ Completed(p) \subseteq Nat /\ MaxRuns \in Nat
      /\ \A m \in Completed(p) : m <= MaxRuns
  BY DEF Completed
<1>2. PICK n \in Completed(p) : \A m \in Completed(p) : m <= n
  BY <1>1, GreatestNatural
<1>3. QED BY <1>2 DEF IsLatest, Completed

(* The mail of a patch, while no review changes.                           *)
LEMMA CurrentStep ==
  ASSUME TypeOK, WhoQueues, Next, status = "Reviewed", status' = "Reviewed",
         \A x \in rel[Loop].todo : IsLatest(x[1], x[2]),
         NEW p \in Patches, MailIsCurrent(p)
  PROVE  MailIsCurrent(p)'
<1>1. review' = review
  BY ReviewedStep
<1>2. \A g : IsLatest(p, g)' = IsLatest(p, g)
  BY <1>1 DEF IsLatest, Completed
<1>3. QED BY <1>2, MailStep DEF MailIsCurrent

LEMMA QueuedOrListedStep ==
  ASSUME TypeOK, ReleasesAfterReview, WhoQueues, QueuedOrListed, ListIsDone,
         [Next]_vars
  PROVE  QueuedOrListed'
<1>0. Loop \in Releasers /\ rel \in [Releasers -> Release]
  BY DEF TypeOK
<1>1. CASE UNCHANGED vars
  BY <1>1 DEF vars, row, outbox, QueuedOrListed, Overtaken, MailIsCurrent,
     IsLatest, Completed
<1>2. CASE Next
  <2> DEFINE Listed(todo) ==
               /\ \A x \in todo : IsLatest(x[1], x[2])
               /\ \A p \in Patches : Completed(p) # {} =>
                    MailIsCurrent(p) \/ \E x \in todo : x[1] = p
  <2> SUFFICES ASSUME rel'[Loop].at \in {"queueing", "clearing"},
                      rel'[Loop].status = "Reviewed", ~Overtaken(Loop)'
               PROVE  Listed(rel[Loop].todo)'
    BY DEF QueuedOrListed
  <2>1. Holding(Loop)'
    BY DEF Holding
  <2>2. Holding(Loop) /\ rel'[Loop].gen = rel[Loop].gen
    <3>1. CASE ClaimRelease(Loop) /\ Releasable
      <4>1. rel' = [rel EXCEPT ![Loop].at = "reading", ![Loop].gen = lastGen]
        BY <3>1 DEF ClaimRelease
      <4>2. rel[Loop] \in Release
        BY <1>0
      <4>3. rel'[Loop].at = "reading"
        BY <1>0, <4>1, <4>2 DEF Release
      <4>4. QED BY <4>3
    <3>2. QED BY <1>0, <1>2, <2>1, <3>1, HoldingStep
  <2>3. ~Overtaken(Loop) /\ status = "Reviewed" /\ status' = "Reviewed"
    BY <1>0, <1>2, <2>2, NotOvertakenStep
  <2>4. review' = review
    BY <1>2, <2>3, ReviewedStep
  <2>5. \A p, g : IsLatest(p, g)' = IsLatest(p, g)
    BY <2>4 DEF IsLatest, Completed
  <2>6. \A p : Completed(p)' = Completed(p)
    BY <2>4 DEF Completed
  <2>7. CASE ReadReviews(Loop)
    <3>1. rel[Loop].status = "Reviewed" /\ rel'[Loop].todo =
            {x \in Patches \X Runs : IsLatest(x[1], x[2])}
      <4>1. PICK x : rel' = [rel EXCEPT ![Loop] = x] /\ Moved(Loop, x)
        BY <1>0, <2>7, RelStepRel DEF RelStep
      <4>2. rel'[Loop] = x
        BY <1>0, <4>1
      <4>3. x.at \in {"queueing", "clearing"} /\ x.status = "Reviewed"
        BY <4>2
      <4>4. rel[Loop].at = "reading"
        BY <2>7 DEF ReadReviews
      <4>5. ~QueueMail(Loop) /\ ~ReleaseComment(Loop)
        BY <4>4 DEF QueueMail, ReleaseComment
      <4>6. Idle.at = "idle"
        BY DEF Idle
      <4>7. QED BY <4>1, <4>2, <4>3, <4>5, <4>6 DEF Moved, Kept
    <3>2. ASSUME NEW p \in Patches, Completed(p) # {}
          PROVE  \E x \in rel'[Loop].todo : x[1] = p
      <4>1. PICK g \in Runs : IsLatest(p, g)
        BY <3>2, HasLatest
      <4>2. <<p, g>> \in rel'[Loop].todo
        BY <3>1, <4>1
      <4>3. QED BY <4>2
    <3>3. \A x \in rel'[Loop].todo : IsLatest(x[1], x[2])'
      BY <2>5, <3>1
    <3>4. QED BY <2>6, <3>2, <3>3
  <2>8. CASE ~ReadReviews(Loop)
    <3>1. /\ rel[Loop].at \in {"queueing", "clearing"}
          /\ rel[Loop].status = "Reviewed"
          /\ rel'[Loop].todo \subseteq rel[Loop].todo
          /\ rel'[Loop].todo = rel[Loop].todo \/ QueueMail(Loop)
      <4>1. CASE rel'[Loop] = rel[Loop]
        BY <4>1
      <4>2. CASE rel'[Loop] # rel[Loop]
        <5>1. PICK q \in Releasers : RelStep(q)
          BY <1>0, <1>2, <4>2, OthersRel
        <5>2. PICK x : rel' = [rel EXCEPT ![q] = x] /\ Moved(q, x)
          BY <1>0, <5>1, RelStepRel
        <5>3. q = Loop /\ rel'[Loop] = x
          BY <1>0, <4>2, <5>2
        <5>4. Moved(Loop, x)
          BY <5>2, <5>3
        <5>5. x.at \in {"queueing", "clearing"} /\ x.status = "Reviewed"
          BY <5>3
        <5>6. Idle.at = "idle"
          BY DEF Idle
        <5>7. CASE QueueMail(Loop) /\ Kept(Loop, x)
                                  /\ x.todo \subseteq rel[Loop].todo
          BY <5>3, <5>5, <5>7 DEF QueueMail, Kept
        <5>8. CASE ReleaseComment(Loop) /\ Kept(Loop, x)
                                       /\ x.todo = {} /\ rel[Loop].todo = {}
          BY <5>3, <5>5, <5>8 DEF ReleaseComment, Kept
        <5>9. QED BY <2>8, <5>4, <5>5, <5>6, <5>7, <5>8 DEF Moved
      <4>3. QED BY <4>1, <4>2
    <3>2. Listed(rel[Loop].todo)
      BY <2>3, <3>1 DEF QueuedOrListed
    <3>3. \A p \in Patches : MailIsCurrent(p) => MailIsCurrent(p)'
      BY <1>2, <2>3, <3>2, CurrentStep
    <3>4. ASSUME NEW p \in Patches, Completed(p) # {}
          PROVE  MailIsCurrent(p)' \/ \E x \in rel'[Loop].todo : x[1] = p
      <4>1. CASE MailIsCurrent(p)
        BY <3>3, <4>1
      <4>2. CASE ~MailIsCurrent(p)
        <5>1. PICK x \in rel[Loop].todo : x[1] = p
          BY <3>2, <3>4, <4>2
        <5>2. CASE x \in rel'[Loop].todo
          BY <5>1, <5>2
        <5>3. CASE x \notin rel'[Loop].todo
          <6>1. QueueMail(Loop)
            BY <3>1, <5>1, <5>3
          <6>2. PICK y \in rel[Loop].todo :
                  /\ rel' = [rel EXCEPT ![Loop].todo = @ \ {y}]
                  /\ mail' = IF MayQueue(Loop) THEN MailWith(y[1], y[2])
                             ELSE mail
            BY <6>1 DEF QueueMail
          <6>3. rel'[Loop].todo = rel[Loop].todo \ {y}
            <7>1. rel[Loop] \in Release
              BY <1>0
            <7>2. QED BY <1>0, <6>2, <7>1 DEF Release
          <6>4. x = y
            BY <5>1, <5>3, <6>3
          <6>5. MayQueue(Loop)
            BY <2>3 DEF MayQueue
          <6>6. y[2] \in Runs /\ IsLatest(p, y[2])
            BY <3>2, <5>1, <6>4, <6>2 DEF TypeOK, Release
          <6>7. mail' = MailWith(p, y[2])
            BY <5>1, <6>2, <6>4, <6>5
          <6>8. mail \in [Patches -> Mail]
            BY DEF TypeOK
          <6>9. \/ mail'[p].status = "Sent"
                \/ mail'[p].status = "Pending" /\ mail'[p].of = y[2]
            BY <6>7, <6>8 DEF MailWith
          <6>10. QED BY <2>5, <6>6, <6>9 DEF MailIsCurrent
        <5>4. QED BY <5>2, <5>3
      <4>3. QED BY <4>1, <4>2
    <3>5. \A x \in rel'[Loop].todo : IsLatest(x[1], x[2])'
      BY <2>5, <3>1, <3>2
    <3>6. QED BY <2>6, <3>4, <3>5
  <2>9. QED BY <2>7, <2>8
<1>3. QED BY <1>1, <1>2

LEMMA ListIsDoneStep ==
  ASSUME TypeOK, ListIsDone, [Next]_vars
  PROVE  ListIsDone'
<1>0. Loop \in Releasers /\ rel \in [Releasers -> Release]
  BY DEF TypeOK
<1>1. CASE UNCHANGED vars
  BY <1>1 DEF vars, ListIsDone
<1>2. CASE Next /\ rel'[Loop] # rel[Loop]
  <2>1. CASE \E q \in Releasers : RelStep(q)
    <3>1. PICK q \in Releasers : RelStep(q)
      BY <2>1
    <3>2. PICK x : rel' = [rel EXCEPT ![q] = x] /\ Moved(q, x)
      BY <1>0, <3>1, RelStepRel
    <3>3. q = Loop /\ rel'[Loop] = x
      BY <1>0, <1>2, <3>2
    <3>4. x.at = "clearing" => x.todo = {}
      BY <3>2 DEF Moved, Idle
    <3>5. QED BY <3>3, <3>4 DEF ListIsDone
  <2>2. CASE ~ \E q \in Releasers : RelStep(q)
    BY <1>0, <1>2, <2>2, OthersRel DEF ListIsDone
  <2>3. QED BY <2>1, <2>2
<1>3. CASE rel'[Loop] = rel[Loop]
  BY <1>3 DEF ListIsDone
<1>4. QED BY <1>1, <1>2, <1>3

-----------------------------------------------------------------------------
(* The theorems.                                                           *)

LEMMA NextIInv == IInv /\ [Next]_vars => IInv'
<1> SUFFICES ASSUME IInv, [Next]_vars PROVE IInv'
  OBVIOUS
<1>1. /\ TypeOK /\ GenerationsOK /\ ReleasesAfterReview /\ ReleasesAreDue
      /\ WhoQueues /\ QueuedOrListed /\ ListIsDone
  BY DEF IInv
<1>2. TypeOK' /\ GenerationsOK' /\ ReleasesAfterReview' /\ WhoQueues'
  BY <1>1, TypeStep, GenerationsStep, ReleasesAfterReviewStep, WhoQueuesStep
<1>3. ReleasesAreDue' /\ ListIsDone'
  BY <1>1, ReleasesAreDueStep, ListIsDoneStep
<1>4. QueuedOrListed'
  BY <1>1, QueuedOrListedStep
<1>5. QED BY <1>2, <1>3, <1>4 DEF IInv

(* In every state: releases and reviews exclude each other, a release that *)
(* nothing overtook is due, and the loop's list has what it has to queue.  *)
THEOREM Invariance == Spec => []IInv
<1>1. QED BY InitIInv, NextIInv, PTL DEF Spec

(* The types of the variables.                                             *)
THEOREM TypeCorrect == Spec => []TypeOK
<1>1. IInv => TypeOK
  BY DEF IInv
<1>2. QED BY <1>1, Invariance, PTL

(* The loop clears the embargo of a reviewed patchset only when its mail   *)
(* is queued or handed over.                                               *)
THEOREM ReleaseIsCompleteAlways == Spec => ReleaseIsComplete
<1> DEFINE A == ClearEmbargo(Loop) /\ rel[Loop].status = "Reviewed"
                                  /\ ~Overtaken(Loop) =>
                  \A p \in Patches : Completed(p) # {} => MailIsCurrent(p)
<1>1. IInv => A
  <2> SUFFICES ASSUME IInv, ClearEmbargo(Loop), ~Overtaken(Loop),
                      rel[Loop].status = "Reviewed",
                      NEW p \in Patches, Completed(p) # {}
               PROVE  MailIsCurrent(p)
    OBVIOUS
  <2>1. rel[Loop].at = "clearing"
    BY DEF ClearEmbargo
  <2>2. rel[Loop].todo = {}
    BY <2>1 DEF IInv, ListIsDone
  <2>3. QED BY <2>1, <2>2 DEF IInv, QueuedOrListed
<1>2. IInv /\ [Next]_vars => [A]_vars
  BY <1>1
<1>3. QED BY <1>2, Invariance, PTL DEF Spec, ReleaseIsComplete

(* Which steps make a mail wait to be sent.                                *)
LEMMA QueueingStep ==
  ASSUME TypeOK, WhoQueues, Next, NEW p \in Patches, mail'[p] # mail[p],
         mail'[p].status = "Pending"
  PROVE  /\ mail'[p].of \in Runs
         /\ \/ \E g \in Runs : Notify(g, p) /\ ~InForce(run[g].embargo)
            \/ QueueMail(Loop)
<1>0. mail \in [Patches -> Mail]
  BY DEF TypeOK
<1>1. ASSUME NEW q \in Patches, NEW g \in Runs, mail' = MailWith(q, g)
      PROVE  p = q /\ mail'[p].of \in Runs
  <2>1. mail' = [mail EXCEPT ![q] = [status |-> "Pending", of |-> g]]
    BY <1>1 DEF MailWith
  <2>2. QED BY <1>0, <2>1
<1>2. CASE \/ Tick \/ LiftEmbargo \/ Restart \/ Poll \/ StartRun
           \/ PickReleasable \/ \E until \in Time : PlaceEmbargo(until)
  BY <1>2 DEF Tick, LiftEmbargo, Restart, Poll, StartRun, PickReleasable,
     PlaceEmbargo, outbox
<1>3. ~Cancel
  <2>1. ASSUME NEW q \in Patches
        PROVE  [mail[q] EXCEPT !.status = "Cancelled"].status = "Cancelled"
    <3>1. mail[q] \in Mail
      BY <1>0
    <3>2. QED BY <3>1 DEF Mail
  <2>2. Cancel => \/ mail'[p] = mail[p]
                  \/ mail'[p] = [mail[p] EXCEPT !.status = "Cancelled"]
    BY DEF Cancel, CancelOutbox
  <2>3. QED BY <2>1, <2>2
<1>4. ~Rerun
  BY DEF Rerun, NoMail
<1>5. ~Deliver
  <2>1. Deliver => \/ UNCHANGED mail
                   \/ \E q \in Patches : mail' =
                        [mail EXCEPT ![q] = [mail[q] EXCEPT !.status = "Sent"]]
    BY DEF Deliver
  <2>2. ASSUME NEW q \in Patches
        PROVE  [mail[q] EXCEPT !.status = "Sent"].status = "Sent"
    <3>1. mail[q] \in Mail
      BY <1>0
    <3>2. QED BY <3>1 DEF Mail
  <2>3. QED BY <1>0, <2>1, <2>2
<1>6. ASSUME NEW g \in Runs, RunStep(g)
      PROVE  mail'[p].of \in Runs /\ Notify(g, p) /\ ~InForce(run[g].embargo)
  <2>1. PICK q \in Patches : Notify(g, q)
    BY <1>6 DEF RunStep, ReviewPatch, Conclude, Post, EndRun, outbox
  <2>2. PICK h \in Runs : mail' = MailWith(q, h) /\ ~InForce(run[g].embargo)
    BY <2>1 DEF Notify
  <2>3. QED BY <1>1, <2>1, <2>2
<1>7. ASSUME NEW r \in Releasers, RelStep(r)
      PROVE  mail'[p].of \in Runs /\ QueueMail(Loop)
  <2>1. QueueMail(r)
    BY <1>7 DEF RelStep, ClaimRelease, ReadReviews, ReleaseComment,
       ClearEmbargo, FailRelease, outbox
  <2>2. PICK x \in rel[r].todo :
               mail' = IF MayQueue(r) THEN MailWith(x[1], x[2]) ELSE mail
    BY <2>1 DEF QueueMail
  <2>3. r = Loop
    BY <2>2 DEF WhoQueues
  <2>4. x[1] \in Patches /\ x[2] \in Runs
    BY <2>2 DEF TypeOK, Release
  <2>5. mail' = MailWith(x[1], x[2])
    BY <2>2
  <2>6. QED BY <1>1, <2>1, <2>3, <2>4, <2>5
<1>8. QED BY <1>2, <1>3, <1>4, <1>5, <1>6, <1>7 DEF Next

(* No run that knows of the embargo, and no release that nothing overtook, *)
(* mails findings before the embargo is over.                              *)
THEOREM EmbargoHoldsAlways == Spec => EmbargoHolds
<1> DEFINE A == \A p \in Patches : QueuesFindings(p) =>
                  \/ ~InForce(embargo)
                  \/ \E g \in Runs : Notify(g, p) /\ run[g].embargo # embargo
                  \/ \E r \in Releasers : QueueMail(r) /\ Overtaken(r)
<1>1. IInv /\ Next => A
  <2> SUFFICES ASSUME IInv, Next, NEW p \in Patches, QueuesFindings(p),
                      InForce(embargo)
               PROVE
                 \/ \E g \in Runs : Notify(g, p) /\ run[g].embargo # embargo
                 \/ \E r \in Releasers : QueueMail(r) /\ Overtaken(r)
    OBVIOUS
  <2>1. /\ mail'[p].of \in Runs
        /\ \/ \E g \in Runs : Notify(g, p) /\ ~InForce(run[g].embargo)
           \/ QueueMail(Loop)
    BY QueueingStep DEF IInv, QueuesFindings
  <2>2. CASE QueueMail(Loop)
    <3>1. ~NoFindings
      BY <2>1 DEF QueuesFindings, NoFindings
    <3>2. Holding(Loop)
      BY <2>2 DEF QueueMail, Holding
    <3>3. Overtaken(Loop)
      BY <3>1, <3>2 DEF IInv, ReleasesAreDue
    <3>4. QED BY <2>2, <3>3
  <2>3. ASSUME NEW g \in Runs, Notify(g, p), ~InForce(run[g].embargo)
        PROVE  run[g].embargo # embargo
    BY <2>3
  <2>4. QED BY <2>1, <2>2, <2>3
<1>2. IInv /\ [Next]_vars => [A]_vars
  BY <1>1 DEF QueuesFindings, vars, outbox
<1>3. QED BY <1>2, Invariance, PTL DEF Spec, EmbargoHolds
=============================================================================
