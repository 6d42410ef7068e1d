------------------------- MODULE BugAnalysisProofs -------------------------
(***************************************************************************)
(* Proofs about BugAnalysis, for any sets of bugs and reviews, any number  *)
(* of attempts and any lease duration.                                     *)
(*                                                                         *)
(* The proofs look at one row at a time.  RowStep lists the ways in which  *)
(* a step of the system can change a row and its history values; the lemma *)
(* RowSteps shows, action by action, that there are no others.  That IInv  *)
(* is inductive, the action properties, and the refinement of ExclusiveJob *)
(* all follow from RowStep and never look at an action again.              *)
(***************************************************************************)
EXTENDS BugAnalysis, TLAPS

USE BugAnalysisAssumption DEF Nobody, NoLease, Lapsed, Outsider, Attempts

(* The variables no invariant of the rows speaks of.                       *)
RestOK ==
    /\ pc \in [Bugs -> [Attempts -> PC]]
    /\ target \in [Bugs -> [Attempts -> Bugs \cup {NoBug}]]
    /\ link \in [Reviews -> [Bugs -> 0..2]]

(* A row with the two history values that go with it.                      *)
GoodRow(b) ==
    /\ row[b] \in Row
    /\ lastWriter[b] \in 0..Outsider
    /\ decided[b] \in {"none"} \cup Lifecycle
    /\ RowInv(row[b], lastWriter[b], decided[b])

(* The initial state, an empty table, satisfies the invariant.             *)
LEMMA InitIInv == Init => IInv
  BY DEF Init, IInv, TypeOK, RowInv, AbsentRow, Row, Lifecycle, Pipeline, PC

(* What IInv says of one bug and of the rest.                              *)
LEMMA IInvFacts ==
  ASSUME IInv
  PROVE  /\ RestOK
         /\ \A b \in Bugs : GoodRow(b)
  BY DEF IInv, TypeOK, RestOK, GoodRow

(* The write of a held claim is the write of the row's last claim.         *)
LEMMA HeldIsLast ==
  ASSUME IInv, NEW b \in Bugs, NEW n \in Attempts, Held(b, n)
  PROVE  /\ n = row[b].attempts
         /\ n = row[b].owner
         /\ lastWriter[b] = n
         /\ n \in 0..Outsider
  BY IInvFacts DEF Held, GoodRow, RowInv, Row

(* The new contents a row can get are rows.                                *)
LEMMA FoldedRow ==
  ASSUME NEW r \in Row, NEW c \in Bugs
  PROVE  Folded(r, c) \in Row
<1>1. "duplicate" \in Lifecycle /\ "succeeded" \in Pipeline
  BY DEF Lifecycle, Pipeline
<1>2. QED BY <1>1 DEF Row, Folded

(* A row whose lock is removed is a row.                                    *)
LEMMA UnlockedRow ==
  ASSUME NEW r \in Row
  PROVE  Unlocked(r) \in Row
<1>1. Nobody \in {Nobody} \cup Attempts /\ NoLease \in NoLease..TTL
  OBVIOUS
<1>2. QED BY <1>1 DEF Row, Unlocked

(* So is one with another pipeline status.                                  *)
LEMMA FailedRow ==
  ASSUME NEW r \in Row, NEW p \in Pipeline
  PROVE  [r EXCEPT !.pipeline = p] \in Row
  BY DEF Row

(* So is one that an attempt took.                                          *)
LEMMA TakenRow ==
  ASSUME NEW r \in Row, NEW n \in Attempts
  PROVE  [r EXCEPT !.pipeline = "running", !.owner = n,
                   !.lease = TTL, !.attempts = n] \in Row
<1>1. /\ "running" \in Pipeline /\ n \in {Nobody} \cup Attempts
      /\ TTL \in NoLease..TTL /\ n \in 0..MaxAttempts
  BY DEF Pipeline
<1>2. QED BY <1>1 DEF Row

(* So is one that the verification settled.                                 *)
LEMMA SettledRow ==
  ASSUME NEW r \in Row, NEW verdict \in {"open", "dismissed"}
  PROVE  [r EXCEPT !.status   = IF r.status = "new" THEN verdict ELSE r.status,
                   !.pipeline = "succeeded",
                   !.refuted  = (verdict = "dismissed")] \in Row
<1>1. /\ (IF r.status = "new" THEN verdict ELSE r.status) \in Lifecycle
      /\ "succeeded" \in Pipeline
      /\ (verdict = "dismissed") \in BOOLEAN
  BY DEF Row, Lifecycle, Pipeline
<1>2. QED BY <1>1 DEF Row

(* Moving the links of a bug keeps the table of links well-formed.         *)
LEMMA MigrateLinksOK ==
  ASSUME RestOK, NEW b \in Bugs, NEW c \in Bugs, MigrateLinks(b, c)
  PROVE  link' \in [Reviews -> [Bugs -> 0..2]]
<1>1. ASSUME NEW r \in Reviews, NEW x \in Bugs
      PROVE  (CASE x = b                                        -> 0
                [] x = c /\ link[r][b] > 0 /\ link[r][c] = 0 -> 1
                [] OTHER                                        -> link[r][x])
             \in 0..2
  BY DEF RestOK
<1>2. QED BY <1>1 DEF MigrateLinks

-----------------------------------------------------------------------------
(* The ways in which a row changes.                                        *)

Quiet(b) == lastWriter'[b] = lastWriter[b] /\ decided'[b] = decided[b]

Still(b) == row'[b] = row[b] /\ Quiet(b)

Filed(b) ==
    /\ ~Exists(b)
    /\ row'[b] = [row[b] EXCEPT !.pipeline = "pending"]
    /\ Quiet(b)

Taken(b) ==
    /\ ~Exists(b) \/ Claimable(b)
    /\ row'[b] = [row[b] EXCEPT !.pipeline = "running",
                                !.owner    = NextClaim(b),
                                !.lease    = TTL,
                                !.attempts = @ + 1]
    /\ lastWriter'[b] = NextClaim(b)
    /\ decided'[b] = decided[b]

Renewed(b) ==
    /\ \E n \in Attempts : Held(b, n)
    /\ row'[b] = [row[b] EXCEPT !.lease = TTL]
    /\ Quiet(b)

Settled(b) ==
    \E n \in Attempts, verdict \in {"open", "dismissed"} :
        /\ Held(b, n)
        /\ row'[b] = [row[b] EXCEPT !.status   = IF @ = "new" THEN verdict
                                                 ELSE @,
                                    !.pipeline = "succeeded",
                                    !.refuted  = (verdict = "dismissed")]
        /\ Quiet(b)

FoldedByAttempt(b) ==
    \E n \in Attempts, c \in Bugs :
        /\ Held(b, n) /\ row[b].status = "new"
        /\ row'[b] = Folded(row[b], c)
        /\ Quiet(b)

Released(b) ==
    \E n \in Attempts :
        /\ Held(b, n) /\ ~Live(b, n)'
        /\ row'[b] = Unlocked(row[b])
        /\ Quiet(b)

Failed(b) ==
    \E n \in Attempts :
        /\ Held(b, n) /\ ~Live(b, n)' /\ row[b].pipeline = "running"
        /\ row'[b] = Unlocked([row[b] EXCEPT !.pipeline = "failed"])
        /\ Quiet(b)

Triaged(b) ==
    \E status \in {"closed", "dismissed"} :
        /\ Exists(b) /\ row[b].dupOf = NoBug
        /\ row'[b] = [row[b] EXCEPT !.status = status]
        /\ decided'[b] = status
        /\ lastWriter'[b] = lastWriter[b]

FoldedByMaintainer(b) ==
    \E c \in Bugs :
        /\ Exists(b)
        /\ row'[b] = Unlocked(Folded(row[b], c))
        /\ decided'[b] = "duplicate"
        /\ lastWriter'[b] = Outsider

Recovered(b) ==
    /\ row[b].pipeline = "running" /\ row[b].lease < 0
    /\ row'[b] = Unlocked([row[b] EXCEPT !.pipeline = "pending"])
    /\ Quiet(b)

Abandoned(b) ==
    /\ Exhausted(b)
    /\ row'[b] = Unlocked([row[b] EXCEPT !.pipeline = "abandoned"])
    /\ Quiet(b)

Aged(b) ==
    /\ row[b].lease >= 0
    /\ row'[b] = [row[b] EXCEPT !.lease = @ - 1]
    /\ Quiet(b)

Overtaken(b) ==
    /\ row[b].status = "open" /\ row[b].owner # Nobody /\ row[b].lease <= 0
    /\ row'[b] = Unlocked(row[b])
    /\ lastWriter'[b] = Outsider
    /\ decided'[b] = decided[b]

FoundFixed(b) ==
    /\ row[b].status = "open" /\ row[b].owner = Nobody
    /\ row'[b] = [row[b] EXCEPT !.status = "fixed"]
    /\ lastWriter'[b] = Outsider
    /\ decided'[b] = decided[b]

RowStep(b) ==
    \/ Still(b) \/ Filed(b) \/ Taken(b) \/ Renewed(b) \/ Settled(b)
    \/ FoldedByAttempt(b) \/ Released(b) \/ Failed(b) \/ Triaged(b)
    \/ FoldedByMaintainer(b) \/ Recovered(b) \/ Abandoned(b) \/ Aged(b)
    \/ Overtaken(b) \/ FoundFixed(b)

(* A statement on one row leaves the others alone.                         *)
LEMMA SetRowFacts ==
  ASSUME IInv, NEW b \in Bugs, NEW r, SetRow(b, r)
  PROVE  /\ row'[b] = r
         /\ \A x \in Bugs \ {b} : row'[x] = row[x]
  BY DEF IInv, TypeOK, SetRow

(* A claim-checked write does not change who wrote last.                   *)
LEMMA WroteIsQuiet ==
  ASSUME IInv, NEW b \in Bugs, NEW n \in Attempts, Wrote(b, n)
  PROVE  lastWriter' = lastWriter
<1>1. Held(b, n) /\ lastWriter' = [lastWriter EXCEPT ![b] = n]
  BY DEF Wrote
<1>2. lastWriter[b] = n BY <1>1, HeldIsLast
<1>3. QED BY <1>1, <1>2 DEF IInv, TypeOK

(* An attempt that ends is not alive in the next state.                    *)
LEMMA EndedIsDead ==
  ASSUME IInv, NEW b \in Bugs, NEW n \in Attempts, End(b, n)
  PROVE  ~Live(b, n)'
  BY DEF IInv, TypeOK, End, Goto, Live, Stages

(* Every step of the system changes every row in one of these ways.        *)
LEMMA RowSteps ==
  ASSUME IInv, [Next]_vars
  PROVE  \A x \in Bugs : RowStep(x)
<1> USE DEF RowStep
<1> SUFFICES ASSUME NEW x \in Bugs PROVE RowStep(x)
  OBVIOUS
<1>0. CASE UNCHANGED <<row, decided, lastWriter>>
  BY <1>0 DEF Still, Quiet
<1>1. ASSUME NEW b \in Bugs, Create(b) PROVE RowStep(x)
  BY <1>1, SetRowFacts DEF Create, Still, Filed, Quiet
<1>2. ASSUME NEW b \in Bugs, CreateClaimed(b) \/ Claim(b) PROVE RowStep(x)
  <2>1. x # b => lastWriter'[x] = lastWriter[x]
    BY <1>2 DEF CreateClaimed, Claim, Take, IInv, TypeOK
  <2>2. x = b => lastWriter'[x] = NextClaim(b)
    BY <1>2 DEF CreateClaimed, Claim, Take, IInv, TypeOK
  <2>3. CASE x = b
    BY <1>2, <2>2, <2>3, SetRowFacts DEF CreateClaimed, Claim, Take, Taken
  <2>4. CASE x # b
    BY <1>2, <2>1, <2>4, SetRowFacts
       DEF CreateClaimed, Claim, Take, Still, Quiet
  <2>5. QED BY <2>3, <2>4
<1>3. ASSUME NEW b \in Bugs, NEW status \in {"closed", "dismissed"},
             Triage(b, status)
      PROVE  RowStep(x)
  <2>1. decided'[x] = IF x = b THEN status ELSE decided[x]
    BY <1>3 DEF Triage, IInv, TypeOK
  <2>2. QED
    BY <1>3, <2>1, SetRowFacts DEF Triage, Still, Triaged, Quiet
<1>4. ASSUME NEW b \in Bugs, NEW c \in Bugs, MarkDuplicate(b, c)
      PROVE  RowStep(x)
  <2>1. /\ decided'[x] = IF x = b THEN "duplicate" ELSE decided[x]
        /\ lastWriter'[x] = IF x = b THEN Outsider ELSE lastWriter[x]
    BY <1>4 DEF MarkDuplicate, IInv, TypeOK
  <2>2. CASE x = b
    BY <1>4, <2>1, <2>2, SetRowFacts DEF MarkDuplicate, FoldedByMaintainer
  <2>3. CASE x # b
    BY <1>4, <2>1, <2>3, SetRowFacts DEF MarkDuplicate, Still, Quiet
  <2>4. QED BY <2>2, <2>3
<1>5. ASSUME NEW b \in Bugs, NEW n \in Attempts, Attempt(b, n)
      PROVE  RowStep(x)
  <2>1. CASE Match(b, n) \/ Novel(b, n) \/ KeepTriage(b, n) \/ Error(b, n)
             \/ LoseLease(b, n) \/ Crash(b, n)
    BY <2>1 DEF Match, Novel, KeepTriage, Error, LoseLease, Crash, Still, Quiet
  <2>2. CASE RecordStage(b, n) \/ Link(b, n)
    BY <2>2, WroteIsQuiet DEF RecordStage, Link, Still, Quiet
  <2>3. CASE Renew(b, n)
    BY <2>3, SetRowFacts DEF Renew, Renewed, Still, Quiet
  <2>4. ASSUME NEW verdict \in {"open", "dismissed"}, Wrote(b, n),
               Settle(b, verdict), UNCHANGED decided
        PROVE  RowStep(x)
    <3>1. Quiet(x) BY <2>4, WroteIsQuiet DEF Quiet
    <3>2. CASE x = b
      <4>1. Held(b, n)
        BY <2>4 DEF Wrote
      <4>2. row'[b] = [row[b] EXCEPT
                         !.status   = IF row[b].status = "new" THEN verdict
                                      ELSE row[b].status,
                         !.pipeline = "succeeded",
                         !.refuted  = (verdict = "dismissed")]
        BY <2>4, SetRowFacts DEF Settle
      <4>3. QED BY <2>4, <3>1, <3>2, <4>1, <4>2 DEF Settled
    <3>3. CASE x # b
      BY <2>4, <3>1, <3>3, SetRowFacts DEF Settle, Still
    <3>4. QED BY <3>2, <3>3
  <2>5. CASE Refute(b, n)
    BY <2>4, <2>5 DEF Refute
  <2>6. CASE Publish(b, n)
    BY <2>4, <2>6 DEF Publish
  <2>7. CASE Fold(b, n)
    <3>1. Quiet(x) BY <2>7, WroteIsQuiet DEF Fold, Quiet
    <3>2. CASE x = b
      BY <2>7, <3>1, <3>2, SetRowFacts DEF Fold, FoldedByAttempt, Wrote
    <3>3. CASE x # b
      BY <2>7, <3>1, <3>3, SetRowFacts DEF Fold, Still
    <3>4. QED BY <3>2, <3>3
  <2>8. CASE Release(b, n)
    <3>1. Quiet(x) BY <2>8, WroteIsQuiet DEF Release, Quiet
    <3>2. ~Live(b, n)' BY <2>8, EndedIsDead DEF Release
    <3>3. QED
      BY <2>8, <3>1, <3>2, SetRowFacts DEF Release, Released, Still, Wrote
  <2>9. CASE Fail(b, n)
    <3>1. Quiet(x) BY <2>9, WroteIsQuiet DEF Fail, Quiet
    <3>2. ~Live(b, n)' BY <2>9, EndedIsDead DEF Fail
    <3>3. QED
      BY <2>9, <3>1, <3>2, SetRowFacts DEF Fail, Failed, StillRunning, Still, Wrote
  <2>10. QED
    BY <1>5, <2>1, <2>2, <2>3, <2>5, <2>6, <2>7, <2>8, <2>9
       DEF Attempt, Advance
<1>6. CASE RecoverStale
  BY <1>6 DEF RecoverStale, Recovered, Still, Quiet
<1>7. CASE AbandonExhausted
  BY <1>7 DEF AbandonExhausted, Abandoned, Still, Quiet
<1>8. CASE Tick
  BY <1>8 DEF Tick, Aged, Still, Quiet
<1>9. ASSUME NEW b \in Bugs, TakeForFixCheck(b) \/ RecordFix(b)
      PROVE  RowStep(x)
  <2>1. /\ lastWriter'[x] = IF x = b THEN Outsider ELSE lastWriter[x]
        /\ decided'[x] = decided[x]
    BY <1>9 DEF TakeForFixCheck, RecordFix, IInv, TypeOK
  <2>2. CASE x = b
    BY <1>9, <2>1, <2>2, SetRowFacts
       DEF TakeForFixCheck, RecordFix, Takeable, LockedBySweep, Overtaken, FoundFixed
  <2>3. CASE x # b
    BY <1>9, <2>1, <2>3, SetRowFacts DEF TakeForFixCheck, RecordFix, Still, Quiet
  <2>4. QED BY <2>2, <2>3
<1>10. QED
  BY <1>0, <1>1, <1>2, <1>3, <1>4, <1>5, <1>6, <1>7, <1>8, <1>9
     DEF Next, vars, People

-----------------------------------------------------------------------------
(* IInv is inductive.                                                      *)

(* One entry of a table of attempts is replaced.                           *)
LEMMA PcOK ==
  ASSUME RestOK, NEW b \in Bugs, NEW n \in Attempts, NEW s \in PC,
         pc' = [pc EXCEPT ![b][n] = s]
  PROVE  pc' \in [Bugs -> [Attempts -> PC]]
<1>1. [pc[b] EXCEPT ![n] = s] \in [Attempts -> PC] BY DEF RestOK
<1>2. pc' = [pc EXCEPT ![b] = [pc[b] EXCEPT ![n] = s]] BY DEF RestOK
<1>3. QED BY <1>1, <1>2 DEF RestOK

(* And a canonical bug that was found is recorded where it belongs.         *)
LEMMA TargetOK ==
  ASSUME RestOK, NEW b \in Bugs, NEW n \in Attempts,
         NEW c \in Bugs \cup {NoBug},
         target' = [target EXCEPT ![b][n] = c]
  PROVE  target' \in [Bugs -> [Attempts -> Bugs \cup {NoBug}]]
<1>1. [target[b] EXCEPT ![n] = c] \in [Attempts -> Bugs \cup {NoBug}]
  BY DEF RestOK
<1>2. target' = [target EXCEPT ![b] = [target[b] EXCEPT ![n] = c]]
  BY DEF RestOK
<1>3. QED BY <1>1, <1>2 DEF RestOK

(* The next state has well-formed program counters, choices and links.     *)
LEMMA RestStep ==
  ASSUME IInv, [Next]_vars
  PROVE  RestOK'
<1>0. RestOK /\ \A b \in Bugs : GoodRow(b) BY IInvFacts
<1> USE <1>0 DEF RestOK
<1> DEFINE pcOK == pc' \in [Bugs -> [Attempts -> PC]]
           targetOK == target' \in [Bugs -> [Attempts -> Bugs \cup {NoBug}]]
<1>1. ASSUME NEW b \in Bugs, Create(b) PROVE RestOK'
  BY <1>1 DEF Create
<1>2. ASSUME NEW b \in Bugs, CreateClaimed(b) \/ Claim(b) PROVE RestOK'
  <2>1. row[b].attempts + 1 \in Attempts
    BY <1>2 DEF CreateClaimed, Claim, Claimable, Exists, GoodRow, RowInv, Row
  <2>2. pcOK
    BY <1>2, <2>1, PcOK DEF CreateClaimed, Claim, Take, PC, Stages
  <2>3. QED BY <1>2, <2>2 DEF CreateClaimed, Claim, Take
<1>3. ASSUME NEW b \in Bugs, NEW status \in {"closed", "dismissed"},
             Triage(b, status)
      PROVE  RestOK'
  BY <1>3 DEF Triage
<1>4. ASSUME NEW b \in Bugs, NEW c \in Bugs, MarkDuplicate(b, c)
      PROVE  RestOK'
  BY <1>4, MigrateLinksOK DEF MarkDuplicate
<1>5. ASSUME NEW b \in Bugs, NEW n \in Attempts, Attempt(b, n)
      PROVE  RestOK'
  <2>0. ASSUME NEW s \in PC, Goto(b, n, s) PROVE pcOK
    BY <2>0, PcOK DEF Goto
  <2> USE DEF PC, Stages
  <2>1. CASE Refute(b, n) \/ Novel(b, n) \/ Error(b, n)
    BY <2>0, <2>1 DEF Refute, Novel, Error
  <2>2. CASE Match(b, n)
    <3>1. targetOK BY <2>2, TargetOK DEF Match, Corpus
    <3>2. pcOK BY <2>0, <2>2 DEF Match
    <3>3. QED BY <2>2, <3>1, <3>2 DEF Match
  <2>3. CASE Fold(b, n)
    <3>1. pcOK BY <2>0, <2>3 DEF Fold
    <3>2. QED BY <2>3, <3>1, MigrateLinksOK DEF Fold
  <2>4. CASE KeepTriage(b, n) \/ Publish(b, n)
    <3>1. targetOK BY <2>4, TargetOK DEF KeepTriage, Publish
    <3>2. pcOK BY <2>0, <2>4 DEF KeepTriage, Publish
    <3>3. QED BY <2>4, <3>1, <3>2 DEF KeepTriage, Publish
  <2>5. CASE Link(b, n)
    <3>0. pcOK BY <2>0, <2>5 DEF Link
    <3>1. CASE UNCHANGED link
      BY <2>5, <3>0, <3>1 DEF Link
    <3>2. CASE ~ UNCHANGED link
      <4> DEFINE r == ReviewOf[b]
                 c == target[b][n]
                 f == IF c = b THEN 2 ELSE 1
                 v == IF link[r][c] > f THEN link[r][c] ELSE f
      <4>1. link' = [link EXCEPT ![r][c] = v]
        BY <2>5, <3>2 DEF Link
      <4>2. r \in Reviews
        OBVIOUS
      <4>3. c \in Bugs => v \in 0..2
        BY <4>2
      <4>4. link' \in [Reviews -> [Bugs -> 0..2]]
        <5>1. CASE c \in Bugs
          <6>1. v \in 0..2 /\ link[r] \in [Bugs -> 0..2]
            BY <4>2, <4>3, <5>1
          <6>2. link \in [Reviews -> [Bugs -> 0..2]]
            BY DEF IInv, TypeOK
          <6>3. \A l \in [Reviews -> [Bugs -> 0..2]] : \A x \in 0..2 :
                  [l EXCEPT ![r][c] = x] \in [Reviews -> [Bugs -> 0..2]]
            <7> HIDE DEF r, c
            <7>1. QED BY ONLY r \in Reviews, c \in Bugs
          <6> HIDE DEF v, r, c
          <6>4. [link EXCEPT ![r][c] = v] \in [Reviews -> [Bugs -> 0..2]]
            BY ONLY <6>1, <6>2, <6>3, Zenon
          <6>5. QED BY ONLY <4>1, <6>4, Zenon
        <5>2. CASE c \notin Bugs
          <6> HIDE DEF v, r, c
          <6>1. [link EXCEPT ![r][c] = v] \in [Reviews -> [Bugs -> 0..2]]
            BY ONLY <4>2, <5>2, link \in [Reviews -> [Bugs -> 0..2]]
          <6>2. QED BY ONLY <4>1, <6>1, Zenon
        <5>3. QED BY <5>1, <5>2
      <4>5. QED BY <2>5, <3>0, <4>4 DEF Link
    <3>3. QED BY <3>1, <3>2
  <2>6. CASE Release(b, n) \/ Fail(b, n) \/ LoseLease(b, n) \/ Crash(b, n)
    <3>1. targetOK
      BY <2>6, TargetOK DEF Release, Fail, LoseLease, Crash, End
    <3>2. pcOK
      BY <2>0, <2>6 DEF Release, Fail, LoseLease, Crash, End
    <3>3. QED BY <2>6, <3>1, <3>2 DEF Release, Fail, LoseLease, Crash
  <2>7. CASE Renew(b, n) \/ RecordStage(b, n)
    BY <2>7 DEF Renew, RecordStage
  <2>8. QED
    BY <1>5, <2>1, <2>2, <2>3, <2>4, <2>5, <2>6, <2>7 DEF Attempt, Advance
<1>6. CASE RecoverStale \/ AbandonExhausted \/ Tick
  BY <1>6 DEF RecoverStale, AbandonExhausted, Tick
<1>7. CASE UNCHANGED vars
  BY <1>7 DEF vars
<1>8. ASSUME NEW b \in Bugs, TakeForFixCheck(b) \/ RecordFix(b) PROVE RestOK'
  BY <1>8 DEF TakeForFixCheck, RecordFix
<1>9. QED
  BY <1>1, <1>2, <1>3, <1>4, <1>5, <1>6, <1>7, <1>8 DEF Next, People

(* A row of the next state is good if it was and changed in a known way.   *)
LEMMA GoodRowStep ==
  ASSUME IInv, NEW b \in Bugs, RowStep(b)
  PROVE  GoodRow(b)'
<1>0. GoodRow(b) BY IInvFacts
<1> USE <1>0 DEF GoodRow, RowInv
<1>1. CASE Still(b)
  BY <1>1 DEF Still, Quiet
<1>2. CASE Filed(b)
  <2>1. row'[b] \in Row
    BY <1>2, FailedRow DEF Filed, Exists, Pipeline
  <2>2. QED BY <1>2, <2>1 DEF Filed, Quiet, Exists, Pipeline, Row
<1>3. CASE Taken(b)
  <2>1. NextClaim(b) \in Attempts /\ row[b].attempts + 1 = NextClaim(b)
    BY <1>3 DEF Taken, Exists, Claimable, NextClaim, Row
  <2>2. row'[b] = [row[b] EXCEPT !.pipeline = "running",
                                 !.owner = NextClaim(b),
                                 !.lease = TTL, !.attempts = NextClaim(b)]
    BY <1>3, <2>1 DEF Taken
  <2>3. row'[b] \in Row
    <3> HIDE DEF GoodRow, RowInv
    <3>1. row[b] \in Row BY <1>0 DEF GoodRow
    <3>2. QED BY <2>1, <2>2, <3>1, TakenRow, Zenon
  <2>4. row[b].pipeline # "succeeded" /\ row[b].status \notin {"duplicate", "open", "fixed"}
    BY <1>3 DEF Taken, Exists, Claimable, Idle
  <2>5. RowInv(row[b], lastWriter[b], decided[b])' /\ lastWriter'[b] \in 0..Outsider
    BY <1>3, <2>1, <2>2, <2>4 DEF Taken, Row
  <2>6. QED BY <1>3, <2>3, <2>5 DEF Taken
<1>4. CASE Renewed(b)
  BY <1>4 DEF Renewed, Held, Quiet, Row
<1>5. CASE Settled(b)
  <2>1. row'[b] \in Row
    <3> HIDE DEF GoodRow, RowInv
    <3>1. row[b] \in Row BY <1>0 DEF GoodRow
    <3>2. PICK verdict \in {"open", "dismissed"} :
            row'[b] = [row[b] EXCEPT
                         !.status   = IF row[b].status = "new" THEN verdict
                                      ELSE row[b].status,
                         !.pipeline = "succeeded",
                         !.refuted  = (verdict = "dismissed")]
      BY <1>5 DEF Settled
    <3> HIDE DEF Row
    <3>3. [row[b] EXCEPT
             !.status   = IF row[b].status = "new" THEN verdict
                          ELSE row[b].status,
             !.pipeline = "succeeded",
             !.refuted  = (verdict = "dismissed")] \in Row
      BY ONLY <3>1, SettledRow, verdict \in {"open", "dismissed"}, Zenon
    <3>4. QED BY <3>2, <3>3
  <2>2. QED BY <1>5, <2>1 DEF Settled, Held, Quiet, Row
<1>6. CASE FoldedByAttempt(b)
  <2>1. row'[b] \in Row BY <1>6, FoldedRow DEF FoldedByAttempt
  <2>2. QED BY <1>6, <2>1 DEF FoldedByAttempt, Folded, Held, Quiet, Row
<1>7. CASE Released(b)
  BY <1>7, UnlockedRow DEF Released, Unlocked, Held, Quiet, Row
<1>8. CASE Failed(b)
  <2>1. row'[b] \in Row
    BY <1>8, UnlockedRow, FailedRow DEF Failed, Pipeline
  <2>2. QED BY <1>8, <2>1 DEF Failed, Unlocked, Held, Quiet, Row
<1>9. CASE Triaged(b)
  BY <1>9 DEF Triaged, Exists, Lifecycle, Row
<1>10. CASE FoldedByMaintainer(b)
  <2>1. row'[b] \in Row
    BY <1>10, UnlockedRow, FoldedRow DEF FoldedByMaintainer
  <2>2. QED
    BY <1>10, <2>1 DEF FoldedByMaintainer, Unlocked, Folded, Exists,
                       Lifecycle, Row
<1>11. CASE Recovered(b)
  <2>1. row'[b] \in Row
    BY <1>11, UnlockedRow, FailedRow DEF Recovered, Pipeline
  <2>2. QED BY <1>11, <2>1 DEF Recovered, Unlocked, Quiet, Row
<1>12. CASE Abandoned(b)
  <2>1. row'[b] \in Row
    BY <1>12, UnlockedRow, FailedRow DEF Abandoned, Pipeline
  <2>2. QED BY <1>12, <2>1 DEF Abandoned, Exhausted, Idle, Unlocked, Quiet, Row
<1>13. CASE Aged(b)
  BY <1>13 DEF Aged, Quiet, Row
<1>14. CASE Overtaken(b)
  <2>1. row'[b] \in Row BY <1>14, UnlockedRow DEF Overtaken
  <2>2. QED BY <1>14, <2>1 DEF Overtaken, Unlocked, Row
<1>15. CASE FoundFixed(b)
  <2>1. row'[b] \in Row BY <1>15 DEF FoundFixed, Lifecycle, Row
  <2>2. QED BY <1>15, <2>1 DEF FoundFixed, Lifecycle, Row
<1>16. QED
  BY <1>1, <1>2, <1>3, <1>4, <1>5, <1>6, <1>7, <1>8, <1>9, <1>10, <1>11,
     <1>12, <1>13, <1>14, <1>15 DEF RowStep

(* The tables stay functions.                                              *)
LEMMA FunctionsStay ==
  ASSUME IInv, [Next]_vars
  PROVE  /\ row' = [b \in Bugs |-> row'[b]]
         /\ decided' = [b \in Bugs |-> decided'[b]]
         /\ lastWriter' = [b \in Bugs |-> lastWriter'[b]]
<1>1. /\ row = [b \in Bugs |-> row[b]]
      /\ decided = [b \in Bugs |-> decided[b]]
      /\ lastWriter = [b \in Bugs |-> lastWriter[b]]
  BY DEF IInv, TypeOK
<1>2. CASE UNCHANGED vars
  BY <1>1, <1>2 DEF vars
<1>3. ASSUME NEW b \in Bugs, NEW r, SetRow(b, r)
      PROVE  row' = [x \in Bugs |-> row'[x]]
  BY <1>1, <1>3 DEF SetRow
<1>4. ASSUME NEW b \in Bugs, NEW n \in Attempts, Wrote(b, n)
      PROVE  lastWriter' = [x \in Bugs |-> lastWriter'[x]]
  BY <1>1, <1>4 DEF Wrote
<1>5. ASSUME NEW b \in Bugs, Create(b) \/ CreateClaimed(b) \/ Claim(b) \/ People(b)
      PROVE  /\ row' = [x \in Bugs |-> row'[x]]
             /\ decided' = [x \in Bugs |-> decided'[x]]
             /\ lastWriter' = [x \in Bugs |-> lastWriter'[x]]
  BY <1>1, <1>3, <1>5
     DEF Create, CreateClaimed, Claim, Take, People, Triage, MarkDuplicate
<1>6. ASSUME NEW b \in Bugs, NEW n \in Attempts, Attempt(b, n)
      PROVE  /\ row' = [x \in Bugs |-> row'[x]]
             /\ decided' = [x \in Bugs |-> decided'[x]]
             /\ lastWriter' = [x \in Bugs |-> lastWriter'[x]]
  BY <1>1, <1>3, <1>4, <1>6
     DEF Attempt, Advance, Refute, Novel, Match, Fold, KeepTriage, Publish,
         Link, Release, Error, Fail, LoseLease, Renew, RecordStage, Crash,
         Settle
<1>7. CASE RecoverStale \/ AbandonExhausted \/ Tick
  BY <1>1, <1>7 DEF RecoverStale, AbandonExhausted, Tick
<1>8. ASSUME NEW b \in Bugs, TakeForFixCheck(b) \/ RecordFix(b)
      PROVE  /\ row' = [x \in Bugs |-> row'[x]]
             /\ decided' = [x \in Bugs |-> decided'[x]]
             /\ lastWriter' = [x \in Bugs |-> lastWriter'[x]]
  BY <1>1, <1>3, <1>8 DEF TakeForFixCheck, RecordFix
<1>9. QED BY <1>2, <1>5, <1>6, <1>7, <1>8 DEF Next

(* Every step keeps the invariant.                                          *)
LEMMA IInvStep ==
  ASSUME IInv, [Next]_vars
  PROVE  IInv'
<1>1. \A b \in Bugs : GoodRow(b)'
  BY RowSteps, GoodRowStep
<1>2. RestOK'
  BY RestStep
<1>3. /\ row' \in [Bugs -> Row]
      /\ decided' \in [Bugs -> {"none"} \cup Lifecycle]
      /\ lastWriter' \in [Bugs -> 0..Outsider]
  <2>1. /\ row' = [b \in Bugs |-> row'[b]]
        /\ decided' = [b \in Bugs |-> decided'[b]]
        /\ lastWriter' = [b \in Bugs |-> lastWriter'[b]]
    BY FunctionsStay
  <2>2. QED BY <1>1, <2>1 DEF GoodRow
<1>4. QED BY <1>1, <1>2, <1>3 DEF IInv, TypeOK, RestOK, GoodRow

(* Every reachable state satisfies the inductive invariant, and so is well *)
(* typed: a claimed row names its last claim, an unclaimed one is          *)
(* unlocked, a folded one is settled.                                      *)
THEOREM InvariantHolds == Spec => []IInv
<1>1. Init => IInv
  BY InitIInv
<1>2. IInv /\ [Next]_vars => IInv'
  BY IInvStep
<1>3. QED BY <1>1, <1>2, PTL DEF Spec

-----------------------------------------------------------------------------
(* The invariants.                                                         *)

(* A maintainer's decision is the bug's status until a maintainer decides  *)
(* again.                                                                  *)
THEOREM TriageIsKept == Spec => []TriageSurvives
<1>1. IInv => TriageSurvives
  BY DEF IInv, RowInv, TriageSurvives
<1>2. QED BY <1>1, InvariantHolds, PTL

(* A bug whose analysis is owed can be claimed or abandoned, or is held by *)
(* a valid lease.                                                          *)
THEOREM NoBugIsStranded == Spec => []NeverStranded
<1>1. ASSUME IInv PROVE NeverStranded
  BY <1>1 DEF IInv, TypeOK, RowInv, NeverStranded, Claimable, Exhausted, Idle,
              Row
<1>2. QED BY <1>1, InvariantHolds, PTL

-----------------------------------------------------------------------------
(* The action properties.                                                  *)

(* A worker that lost its claim and does not know it yet writes nothing.   *)
THEOREM StaleWritersAreRefused == Spec => WritersNeverRegress
<1>1. ASSUME IInv, [Next]_vars
      PROVE  \A b \in Bugs : lastWriter'[b] >= lastWriter[b]
  <2>1. SUFFICES ASSUME NEW b \in Bugs
                 PROVE  lastWriter'[b] >= lastWriter[b]
    OBVIOUS
  <2>2. GoodRow(b) BY <1>1, IInvFacts
  <2>3. lastWriter[b] \in 0..Outsider BY <2>2 DEF GoodRow
  <2>4. CASE Taken(b)
    <3>1. row[b].pipeline # "succeeded"
      BY <2>4 DEF Taken, Exists, Claimable, Idle
    <3>2. lastWriter[b] = row[b].attempts /\ row[b].attempts \in 0..MaxAttempts
      BY <2>2, <3>1 DEF GoodRow, RowInv, Row
    <3>3. QED BY <2>4, <3>2 DEF Taken, NextClaim
  <2>5. CASE FoldedByMaintainer(b) \/ Overtaken(b) \/ FoundFixed(b)
    BY <2>3, <2>5 DEF FoldedByMaintainer, Overtaken, FoundFixed
  <2>6. CASE lastWriter'[b] = lastWriter[b]
    BY <2>3, <2>6
  <2>7. RowStep(b) BY <1>1, RowSteps
  <2>8. QED
    BY <2>4, <2>5, <2>6, <2>7
       DEF RowStep, Quiet, Still, Filed, Renewed, Settled, FoldedByAttempt,
           Released, Failed, Triaged, Recovered, Abandoned, Aged
<1>2. QED BY <1>1, InvariantHolds, PTL DEF Spec, WritersNeverRegress

(* A settled analysis is never failed, recovered, abandoned or claimed.    *)
THEOREM SuccessIsFinal == Spec => SucceededIsFinal
<1>1. ASSUME IInv, [Next]_vars
      PROVE  \A b \in Bugs : row[b].pipeline = "succeeded" =>
                                row'[b].pipeline = "succeeded"
  <2>1. SUFFICES ASSUME NEW b \in Bugs, row[b].pipeline = "succeeded"
                 PROVE  row'[b].pipeline = "succeeded"
    OBVIOUS
  <2>2. row[b] \in Row /\ RowStep(b)
    BY <1>1, IInvFacts, RowSteps DEF GoodRow
  <2>3. QED
    BY <2>1, <2>2
       DEF Row, RowStep, Still, Filed, Taken, Renewed, Settled,
           FoldedByAttempt, Released, Failed, Triaged, FoldedByMaintainer,
           Recovered, Abandoned, Aged, Exists, Claimable, Exhausted, Idle,
           Folded, Unlocked, Overtaken, FoundFixed
<1>2. QED BY <1>1, InvariantHolds, PTL DEF Spec, SucceededIsFinal

(* A valid lease ends with its attempt, by expiring, by a maintainer's     *)
(* fold, or in its last second by a fix check of the published bug.        *)
THEOREM LeasesAreHonoured == Spec => LeaseIsHonoured
<1>1. ASSUME IInv, [Next]_vars
      PROVE  \A b \in Bugs : \A n \in Attempts :
                (Held(b, n) /\ row'[b].owner # n) =>
                    \/ ~Live(b, n)' \/ decided'[b] = "duplicate"
                    \/ row[b].status = "open" /\ row[b].lease = 0
  <2>1. SUFFICES ASSUME NEW b \in Bugs, NEW n \in Attempts,
                        Held(b, n), row'[b].owner # n
                 PROVE  \/ ~Live(b, n)' \/ decided'[b] = "duplicate"
                        \/ row[b].status = "open" /\ row[b].lease = 0
    OBVIOUS
  <2>2. row[b] \in Row /\ RowStep(b)
    BY <1>1, IInvFacts, RowSteps DEF GoodRow
  <2>3. \A m \in Attempts : Held(b, m) => m = n
    BY <2>1 DEF Held
  <2>4. CASE Released(b) \/ Failed(b)
    BY <2>3, <2>4 DEF Released, Failed
  <2>5. CASE FoldedByMaintainer(b)
    BY <2>5 DEF FoldedByMaintainer
  <2>6. ~(Filed(b) \/ Taken(b) \/ Recovered(b) \/ Abandoned(b))
    BY <2>1, <2>2 DEF Held, Row, Filed, Taken, Recovered, Abandoned, Exists,
                      Claimable, Exhausted, Idle
  <2>7. ~(Still(b) \/ Renewed(b) \/ Settled(b) \/ FoldedByAttempt(b)
          \/ Triaged(b) \/ Aged(b))
    BY <2>1, <2>2 DEF Held, Row, Still, Renewed, Settled, FoldedByAttempt,
                      Triaged, Aged, Folded
  <2>8. CASE Overtaken(b)
    BY <2>1, <2>2, <2>8 DEF Held, Row, Overtaken
  <2>9. ~FoundFixed(b)
    BY <2>1, <2>2 DEF Held, Row, FoundFixed
  <2>10. QED BY <2>2, <2>4, <2>5, <2>6, <2>7, <2>8, <2>9 DEF RowStep
<1>2. QED BY <1>1, InvariantHolds, PTL DEF Spec, LeaseIsHonoured

-----------------------------------------------------------------------------
(* Refinement: every row is an exclusive job.                              *)

(* What JobStage and JobHolder say of a good row.                          *)
JobOf(b) ==
    /\ row[b].pipeline = "absent" => JobStage(b) = "none"
    /\ Idle(b) => JobStage(b) = "queued"
    /\ row[b].pipeline = "succeeded" => JobStage(b) = "done"
    /\ row[b].pipeline = "abandoned" => JobStage(b) = "dead"
    /\ row[b].pipeline = "running" /\ row[b].lease >= 0 =>
            JobStage(b) = "working"
    /\ row[b].owner = Nobody \/ row[b].lease < 0 => JobHolder(b) = 0
    /\ row[b].lease >= 0 => JobHolder(b) = row[b].attempts

(* The invariant of a row says where its job stands.                        *)
LEMMA JobOfGoodRow ==
  ASSUME NEW b \in Bugs, GoodRow(b)
  PROVE  JobOf(b)
  BY DEF JobOf, JobStage, JobHolder, Idle, GoodRow, Row, RowInv

(* A step of a row is a step of its job.                                   *)
LEMMA RowStepIsJobStep ==
  ASSUME NEW b \in Bugs, GoodRow(b), GoodRow(b)', RowStep(b)
  PROVE  Job!Step(b)
<1>0. JobOf(b) /\ JobOf(b)'
  BY DEF JobOf, JobStage, JobHolder, Idle, GoodRow, Row, RowInv
<1> USE <1>0
<1> DEFINE s == JobStage(b)
           h == JobHolder(b)
           t == row[b].attempts
<1>1. /\ [x \in Bugs |-> JobStage(x)][b] = s
      /\ [x \in Bugs |-> JobHolder(x)][b] = h
      /\ [x \in Bugs |-> row[x].attempts][b] = t
      /\ [x \in Bugs |-> JobStage(x)]'[b] = s'
      /\ [x \in Bugs |-> JobHolder(x)]'[b] = h'
      /\ [x \in Bugs |-> row[x].attempts]'[b] = t'
  OBVIOUS
<1>2. row[b] \in Row /\ t \in 0..MaxAttempts
  BY DEF GoodRow, Row
<1> USE DEF Job!Step, Job!Becomes
<1>3. CASE s' = s /\ h' = h /\ t' = t
  BY <1>1, <1>3 DEF Job!Rest
<1>4. CASE Still(b) \/ Renewed(b) \/ Triaged(b)
  <2> HIDE DEF Job!Step
  <2>1. CASE Still(b)
    BY <1>3, <2>1 DEF Still, JobStage, JobHolder, Idle
  <2>2. CASE Renewed(b)
    BY <1>2, <1>3, <2>2 DEF Renewed, Held, JobStage, JobHolder, Idle, Row
  <2>3. CASE Triaged(b)
    BY <1>2, <1>3, <2>3 DEF Triaged, JobStage, JobHolder, Idle, Row
  <2>4. QED BY <1>4, <2>1, <2>2, <2>3
<1>5. CASE Filed(b)
  <2>1. s = "none" /\ s' = "queued" /\ h' = h /\ t' = t
    BY <1>2, <1>5 DEF Filed, JobOf, Idle, Exists, Row, JobHolder
  <2>2. QED BY <1>1, <2>1 DEF Job!Submit
<1>6. CASE Taken(b)
  <2>1. s \in {"none", "queued"} /\ t < MaxAttempts
    BY <1>6 DEF Taken, JobOf, Exists, Claimable, GoodRow, RowInv
  <2>2. s' = "working" /\ h' = t + 1 /\ t' = t + 1
    BY <1>2, <1>6 DEF Taken, JobOf, Row, NextClaim
  <2>3. QED BY <1>1, <2>1, <2>2 DEF Job!Take
<1>7. CASE Settled(b) \/ FoldedByAttempt(b)
  <2>1. /\ row[b].pipeline \in {"running", "succeeded"} /\ row[b].lease >= 0
        /\ row[b].owner \in Attempts
        /\ row'[b].lease = row[b].lease /\ row'[b].attempts = t
        /\ row'[b].owner = row[b].owner
        /\ row'[b].pipeline = "succeeded"
    <3>1. CASE Settled(b)
      BY <1>2, <3>1 DEF Settled, Held, Row
    <3>2. CASE FoldedByAttempt(b)
      BY <1>2, <3>2 DEF FoldedByAttempt, Folded, Held, Row
    <3>3. QED BY <1>7, <3>1, <3>2
  <2>2. s' = "done" /\ h' = h /\ t' = t /\ h # 0
    BY <1>2, <2>1 DEF JobOf, JobHolder
  <2>3. s = "working" \/ s = "done"
    BY <2>1 DEF JobOf
  <2>4. QED BY <1>1, <1>3, <2>2, <2>3 DEF Job!Finish
<1>8. CASE Released(b)
  <2>1. /\ row[b].pipeline \in {"running", "succeeded"} /\ row[b].lease >= 0
        /\ row'[b].pipeline = row[b].pipeline /\ row'[b].attempts = t
        /\ row'[b].owner = Nobody /\ row'[b].lease = NoLease
    BY <1>2, <1>8 DEF Released, Unlocked, Held, Row
  <2>2. h' = 0 /\ t' = t
    BY <2>1 DEF JobOf
  <2>3. \/ s = "working" /\ s' = "queued"
        \/ s = "done" /\ s' = "done"
    <3>1. CASE row[b].pipeline = "running"
      <4>1. s = "working" BY <2>1, <3>1 DEF JobOf
      <4>2. Idle(b)' BY <2>1, <3>1 DEF Idle
      <4>3. QED BY <4>1, <4>2 DEF JobOf
    <3>2. CASE row[b].pipeline = "succeeded"
      BY <2>1, <3>2 DEF JobOf
    <3>3. QED BY <2>1, <3>1, <3>2
  <2>4. QED BY <1>1, <2>2, <2>3 DEF Job!GiveBack, Job!Leave
<1>9. CASE Failed(b)
  <2>1. s = "working"
    BY <1>9 DEF Failed, Held, JobOf
  <2>2. s' = "queued" /\ h' = 0 /\ t' = t
    BY <1>2, <1>9 DEF Failed, Unlocked, JobOf, Idle, Row
  <2>3. QED BY <1>1, <2>1, <2>2 DEF Job!GiveBack
<1>10. CASE FoldedByMaintainer(b)
  <2>1. s # "none"
    BY <1>10 DEF FoldedByMaintainer, Exists, JobStage
  <2>2. s' = "done" /\ h' = 0 /\ t' = t
    BY <1>2, <1>10 DEF FoldedByMaintainer, Unlocked, Folded, JobOf, Row
  <2>3. QED BY <1>1, <2>1, <2>2 DEF Job!Overrule
<1>11. CASE Recovered(b)
  <2>1. s = "queued" /\ h = 0
    BY <1>11 DEF Recovered, JobOf, Idle
  <2>2. s' = "queued" /\ h' = 0 /\ t' = t
    BY <1>2, <1>11 DEF Recovered, Unlocked, JobOf, Idle, Row
  <2>3. QED BY <1>3, <2>1, <2>2
<1>12. CASE Abandoned(b)
  <2>1. s = "queued" /\ t = MaxAttempts
    BY <1>2, <1>12 DEF Abandoned, Exhausted, JobOf
  <2>2. s' = "dead" /\ h' = 0 /\ t' = t
    BY <1>2, <1>12 DEF Abandoned, Unlocked, JobOf, Row
  <2>3. QED BY <1>1, <2>1, <2>2 DEF Job!Abandon
<1>13. CASE Aged(b)
  <2>1. /\ row[b].lease >= 0
        /\ row'[b].pipeline = row[b].pipeline /\ row'[b].attempts = t
        /\ row'[b].lease = row[b].lease - 1
        /\ row'[b].owner = row[b].owner
    BY <1>2, <1>13 DEF Aged, Row
  <2>2. /\ row[b].pipeline \in {"running", "succeeded"}
        /\ row[b].lease \in NoLease..TTL
    BY <1>2, <2>1 DEF GoodRow, RowInv, Row
  <2>3. CASE row'[b].lease >= 0
    <3>1. h' = h /\ t' = t BY <2>1, <2>3 DEF JobHolder
    <3>2. s' = s BY <2>1, <2>2, <2>3 DEF JobOf
    <3>3. QED BY <1>3, <3>1, <3>2
  <2>4. CASE row'[b].lease < 0
    <3>1. h' = 0 /\ t' = t BY <2>1, <2>4 DEF JobOf
    <3>2. \/ s = "working" /\ s' = "queued"
          \/ s = "done" /\ s' = "done"
      <4>1. CASE row[b].pipeline = "running"
        <5>1. s = "working" BY <2>1, <4>1 DEF JobOf
        <5>2. Idle(b)' BY <2>1, <2>4, <4>1 DEF Idle
        <5>3. QED BY <5>1, <5>2 DEF JobOf
      <4>2. CASE row[b].pipeline = "succeeded"
        BY <2>1, <4>2 DEF JobOf
      <4>3. QED BY <2>2, <4>1, <4>2
    <3>3. QED BY <1>1, <3>1, <3>2 DEF Job!GiveBack, Job!Leave
  <2>5. QED BY <2>1, <2>2, <2>3, <2>4
<1>14. CASE Overtaken(b)
  <2>1. row[b].pipeline = "succeeded" /\ s = "done"
    BY <1>14 DEF Overtaken, GoodRow, RowInv, JobOf
  <2>2. s' = "done" /\ h' = 0 /\ t' = t
    BY <1>2, <1>14, <2>1 DEF Overtaken, Unlocked, JobOf, Row
  <2>3. QED BY <1>1, <2>1, <2>2 DEF Job!Leave
<1>15. CASE FoundFixed(b)
  BY <1>2, <1>3, <1>15 DEF FoundFixed, JobStage, JobHolder, Idle, Row
<1>16. QED
  BY <1>4, <1>5, <1>6, <1>7, <1>8, <1>9, <1>10, <1>11, <1>12, <1>13, <1>14, <1>15
     DEF RowStep

(* The bugs table implements the exclusive jobs its lease columns promise. *)
THEOREM BugsAreExclusiveJobs == Spec => EveryBugIsAnExclusiveJob
<1>1. Init => Job!Init
  <2>1. ASSUME Init, NEW b \in Bugs
        PROVE  JobStage(b) = "none" /\ JobHolder(b) = 0 /\ row[b].attempts = 0
    <3>1. JobOf(b) BY <2>1, InitIInv, IInvFacts, JobOfGoodRow
    <3>2. row[b] = AbsentRow BY <2>1 DEF Init
    <3>3. QED BY <3>1, <3>2 DEF JobOf, AbsentRow
  <2>2. QED BY <2>1 DEF Job!Init
<1>2. ASSUME IInv, [Next]_vars
      PROVE  [Job!Next]_(Job!jobVars)
  <2>1. ASSUME NEW b \in Bugs PROVE Job!Step(b)
    <3>1. GoodRow(b) /\ RowStep(b)
      BY <1>2, IInvFacts, RowSteps
    <3>2. GoodRow(b)'
      BY <1>2, <3>1, GoodRowStep
    <3>3. QED BY <3>1, <3>2, RowStepIsJobStep
  <2>2. QED BY <2>1 DEF Job!Next
<1>3. QED
  BY <1>1, <1>2, InvariantHolds, PTL
     DEF Spec, EveryBugIsAnExclusiveJob, Job!Spec

-----------------------------------------------------------------------------
(* Folds form a forest.                                                    *)

SameCanonical(x) == row'[x].dupOf = row[x].dupOf

(* A fold of bug s into the root c.                                        *)
OneFold(s, c) ==
    /\ c # s /\ row[c].dupOf = NoBug
    /\ row'[s].dupOf = c
    /\ \A x \in Bugs \ {s} : SameCanonical(x)

(* A step folds one bug at most, and folds it into a root.                 *)
LEMMA OneFoldAtATime ==
  ASSUME IInv, [Next]_vars
  PROVE  \/ \A x \in Bugs : SameCanonical(x)
         \/ \E s, c \in Bugs : OneFold(s, c)
<1> DEFINE Goal == \/ \A x \in Bugs : SameCanonical(x)
                   \/ \E s, c \in Bugs : OneFold(s, c)
<1>0. \A x \in Bugs : row[x] \in Row
  BY IInvFacts DEF GoodRow
<1>1. CASE UNCHANGED row
  BY <1>1 DEF SameCanonical
<1>2. ASSUME NEW b \in Bugs, NEW r, SetRow(b, r), r.dupOf = row[b].dupOf
      PROVE  Goal
  BY <1>2, SetRowFacts DEF SameCanonical
<1>3. ASSUME NEW b \in Bugs, NEW c \in Bugs \ {b}, IsRoot(c),
             NEW r, SetRow(b, r), r.dupOf = c
      PROVE  Goal
  <2>1. OneFold(b, c)
    BY <1>3, SetRowFacts DEF OneFold, SameCanonical, IsRoot
  <2>2. QED BY <2>1
<1>4. ASSUME NEW b \in Bugs, Create(b) \/ CreateClaimed(b) \/ Claim(b)
      PROVE  Goal
  BY <1>0, <1>2, <1>4 DEF Create, CreateClaimed, Claim, Take, Row
<1>5. ASSUME NEW b \in Bugs, NEW status \in {"closed", "dismissed"},
             Triage(b, status)
      PROVE  Goal
  BY <1>0, <1>2, <1>5 DEF Triage, Row
<1>6. ASSUME NEW b \in Bugs, NEW c \in Bugs, MarkDuplicate(b, c)
      PROVE  Goal
  <2>1. Unlocked(Folded(row[b], c)).dupOf = c
    BY <1>0 DEF Unlocked, Folded, Row
  <2>2. QED BY <1>3, <1>6, <2>1 DEF MarkDuplicate
<1>7. ASSUME NEW b \in Bugs, NEW n \in Attempts, Attempt(b, n)
      PROVE  Goal
  <2>1. CASE Fold(b, n)
    <3>1. Folded(row[b], target[b][n]).dupOf = target[b][n]
      BY <1>0 DEF Folded, Row
    <3>2. QED BY <1>3, <2>1, <3>1 DEF Fold
  <2>2. CASE Refute(b, n) \/ Publish(b, n)
    BY <1>0, <1>2, <2>2 DEF Refute, Publish, Settle, Row
  <2>3. CASE Renew(b, n)
    BY <1>0, <1>2, <2>3 DEF Renew, Row
  <2>4. CASE Release(b, n)
    <3>1. Unlocked(row[b]).dupOf = row[b].dupOf
      BY <1>0 DEF Unlocked, Row
    <3>2. QED BY <1>1, <1>2, <2>4, <3>1 DEF Release
  <2>5. CASE Fail(b, n)
    <3>1. Unlocked([row[b] EXCEPT !.pipeline = "failed"]).dupOf
            = row[b].dupOf
      BY <1>0 DEF Unlocked, Row
    <3>2. QED BY <1>1, <1>2, <2>5, <3>1 DEF Fail
  <2>6. CASE \/ Match(b, n) \/ Novel(b, n) \/ KeepTriage(b, n)
             \/ Link(b, n) \/ Error(b, n) \/ LoseLease(b, n)
             \/ RecordStage(b, n) \/ Crash(b, n)
    <3>1. UNCHANGED row
      BY <2>6 DEF Match, Novel, KeepTriage, Link, Error, LoseLease,
                  RecordStage, Crash
    <3>2. QED BY <1>1, <3>1
  <2>7. QED
    BY <1>7, <2>1, <2>2, <2>3, <2>4, <2>5, <2>6 DEF Attempt, Advance
<1>8. CASE RecoverStale \/ AbandonExhausted \/ Tick
  <2>1. CASE RecoverStale
    BY <1>0, <2>1 DEF RecoverStale, Unlocked, Row, SameCanonical
  <2>2. CASE AbandonExhausted
    BY <1>0, <2>2 DEF AbandonExhausted, Unlocked, Row, SameCanonical
  <2>3. CASE Tick
    BY <1>0, <2>3 DEF Tick, Row, SameCanonical
  <2>4. QED BY <1>8, <2>1, <2>2, <2>3
<1>9. ASSUME NEW b \in Bugs, TakeForFixCheck(b) \/ RecordFix(b) PROVE Goal
  BY <1>0, <1>2, <1>9 DEF TakeForFixCheck, RecordFix, Unlocked, Row
<1>10. QED
  BY <1>1, <1>4, <1>5, <1>6, <1>7, <1>8, <1>9 DEF Next, People, vars

(* No interleaving of the folds of attempts and maintainers closes a cycle *)
(* of duplicates.  A closed set that shows a bug is not above itself stays *)
(* closed when another bug is folded into root c, once c is added to it;   *)
(* the set {c} shows it for the bug that is folded.                        *)
THEOREM DuplicatesAreAcyclic == Spec => []Acyclic
<1>1. Init => Acyclic
  BY DEF Init, AbsentRow, Acyclic
<1>2. ASSUME Acyclic, IInv, [Next]_vars PROVE Acyclic'
  <2>1. SUFFICES ASSUME NEW b \in Bugs, row'[b].dupOf # NoBug
                 PROVE  \E S \in SUBSET Bugs :
                           row'[b].dupOf \in S /\ UpClosed(S)' /\ b \notin S
    BY DEF Acyclic, Above
  <2>2. ASSUME row[b].dupOf # NoBug
        PROVE  \E S \in SUBSET Bugs :
                  row[b].dupOf \in S /\ UpClosed(S) /\ b \notin S
    BY <1>2, <2>2 DEF Acyclic, Above
  <2>3. CASE \A x \in Bugs : SameCanonical(x)
    BY <2>1, <2>2, <2>3 DEF UpClosed, SameCanonical
  <2>4. ASSUME NEW s \in Bugs, NEW c \in Bugs, OneFold(s, c)
        PROVE  \E S \in SUBSET Bugs :
                  row'[b].dupOf \in S /\ UpClosed(S)' /\ b \notin S
    <3>1. row'[c].dupOf = NoBug
      BY <2>4 DEF OneFold, SameCanonical
    <3>2. CASE b = s
      <4>1. row'[b].dupOf \in {c} /\ UpClosed({c})' /\ b \notin {c}
        BY <2>4, <3>1, <3>2 DEF OneFold, UpClosed
      <4>2. QED BY <4>1
    <3>3. CASE b # s
      <4>1. row'[b].dupOf = row[b].dupOf
        BY <2>4, <3>3 DEF OneFold, SameCanonical
      <4>2. PICK S \in SUBSET Bugs :
                    row[b].dupOf \in S /\ UpClosed(S) /\ b \notin S
        BY <2>1, <2>2, <4>1
      <4>3. UpClosed(S \cup {c})'
        BY <2>4, <3>1, <4>2 DEF OneFold, UpClosed, SameCanonical
      <4>4. b # c
        BY <2>1, <3>1
      <4>5. QED BY <4>1, <4>2, <4>3, <4>4
    <3>4. QED BY <3>2, <3>3
  <2>5. QED BY <1>2, <2>3, <2>4, OneFoldAtATime
<1>3. QED BY <1>1, <1>2, InvariantHolds, PTL DEF Spec

-----------------------------------------------------------------------------
(* Review links.                                                           *)

(* A link is kept or raised, or the bug is folded and its new canonical    *)
(* bug has a link of the same review.                                      *)
LinkStep(r, b) ==
    \/ link'[r][b] \in 0..2 /\ link'[r][b] >= link[r][b]
    \/ /\ link'[r][b] = 0
       /\ link[r][b] > 0 =>
             row'[b].dupOf \in Bugs /\ link'[r][row'[b].dupOf] > 0

(* Folding a bug moves its links.                                          *)
LEMMA FoldMovesLinks ==
  ASSUME IInv, NEW s \in Bugs, NEW c \in Bugs \ {s}, MigrateLinks(s, c),
         row'[s].dupOf = c, NEW r \in Reviews, NEW b \in Bugs
  PROVE  LinkStep(r, b)
<1>1. link[r][s] \in 0..2 /\ link[r][c] \in 0..2 /\ link[r][b] \in 0..2
  BY DEF IInv, TypeOK
<1>2. \A x \in Bugs : link'[r][x] =
          CASE x = s                                      -> 0
            [] x = c /\ link[r][s] > 0 /\ link[r][c] = 0 -> 1
            [] OTHER                                      -> link[r][x]
  BY DEF MigrateLinks
<1>3. CASE b = s
  <2>1. link'[r][b] = 0 BY <1>2, <1>3
  <2>2. link[r][s] > 0 => link'[r][c] > 0 BY <1>1, <1>2
  <2>3. QED BY <1>3, <2>1, <2>2 DEF LinkStep
<1>4. CASE b # s
  BY <1>1, <1>2, <1>4 DEF LinkStep
<1>5. QED BY <1>3, <1>4

(* Every step is such a step of every link.                                 *)
LEMMA LinkSteps ==
  ASSUME IInv, [Next]_vars, NEW r \in Reviews, NEW b \in Bugs
  PROVE  LinkStep(r, b)
<1>0. link[r][b] \in 0..2 /\ \A x \in Bugs : row[x] \in Row
  BY IInvFacts DEF RestOK, GoodRow
<1>1. CASE UNCHANGED link
  BY <1>0, <1>1 DEF LinkStep
<1>2. ASSUME NEW s \in Bugs, NEW c \in Bugs, MarkDuplicate(s, c)
      PROVE  LinkStep(r, b)
  <2>1. row'[s].dupOf = c
    <3>1. Unlocked(Folded(row[s], c)).dupOf = c
      BY <1>0 DEF Unlocked, Folded, Row
    <3>2. QED BY <1>2, <3>1, SetRowFacts DEF MarkDuplicate
  <2>2. QED BY <1>2, <2>1, FoldMovesLinks DEF MarkDuplicate
<1>3. ASSUME NEW s \in Bugs, NEW n \in Attempts, Fold(s, n)
      PROVE  LinkStep(r, b)
  <2>1. row'[s].dupOf = target[s][n]
    <3>1. Folded(row[s], target[s][n]).dupOf = target[s][n]
      BY <1>0 DEF Folded, Row
    <3>2. QED BY <1>3, <3>1, SetRowFacts DEF Fold
  <2>2. QED BY <1>3, <2>1, FoldMovesLinks DEF Fold
<1>4. ASSUME NEW a \in Bugs, NEW n \in Attempts, Link(a, n)
      PROVE  LinkStep(r, b)
  <2> DEFINE q == ReviewOf[a]
             c == target[a][n]
             f == IF c = a THEN 2 ELSE 1
             v == IF link[q][c] > f THEN link[q][c] ELSE f
  <2>1. CASE UNCHANGED link
    BY <1>1, <2>1
  <2>2. CASE link' = [link EXCEPT ![q][c] = v]
    <3>1. link[q] \in [Bugs -> 0..2] /\ link \in [Reviews -> [Bugs -> 0..2]]
      BY IInvFacts DEF RestOK
    <3>2. CASE r = q /\ b = c
      <4>1. link[q][c] \in 0..2 BY <3>1, <3>2
      <4>2. v \in 0..2 /\ v >= link[q][c] BY <4>1
      <4>3. link'[r][b] = v BY <2>2, <3>1, <3>2
      <4>4. QED BY <3>2, <4>2, <4>3 DEF LinkStep
    <3>3. CASE ~ (r = q /\ b = c)
      <4>1. link'[r][b] = link[r][b] BY <2>2, <3>1, <3>3
      <4>2. QED BY <1>0, <4>1 DEF LinkStep
    <3>4. QED BY <3>2, <3>3
  <2>3. QED BY <1>4, <2>1, <2>2 DEF Link
<1>5. ASSUME NEW a \in Bugs,
             Create(a) \/ CreateClaimed(a) \/ Claim(a)
             \/ TakeForFixCheck(a) \/ RecordFix(a)
             \/ \E status \in {"closed", "dismissed"} : Triage(a, status)
      PROVE  LinkStep(r, b)
  BY <1>1, <1>5 DEF Create, CreateClaimed, Claim, Take, Triage, TakeForFixCheck, RecordFix
<1>6. ASSUME NEW a \in Bugs, NEW n \in Attempts, Attempt(a, n)
      PROVE  LinkStep(r, b)
  BY <1>1, <1>3, <1>4, <1>6
     DEF Attempt, Advance, Refute, Novel, Match, KeepTriage, Publish,
         Release, Error, Fail, LoseLease, Renew, RecordStage, Crash
<1>7. CASE RecoverStale \/ AbandonExhausted \/ Tick
  BY <1>1, <1>7 DEF RecoverStale, AbandonExhausted, Tick
<1>8. QED
  BY <1>1, <1>2, <1>5, <1>6, <1>7 DEF Next, People, vars

(* A recorded review link stays, or moves towards the canonical bug, and   *)
(* the credit of a discovery goes only with the link itself.               *)
THEOREM LinksAreKept == Spec => LinksFollowFolds
<1>1. ASSUME IInv, [Next]_vars
      PROVE  \A r \in Reviews, b \in Bugs :
                /\ link[r][b] > 0 => \E c \in Above(b)' : link'[r][c] > 0
                /\ link[r][b] = 2 => link'[r][b] \in {0, 2}
  <2> SUFFICES ASSUME NEW r \in Reviews, NEW b \in Bugs
               PROVE  /\ link[r][b] > 0 => \E c \in Above(b)' : link'[r][c] > 0
                      /\ link[r][b] = 2 => link'[r][b] \in {0, 2}
    OBVIOUS
  <2>1. LinkStep(r, b) BY <1>1, LinkSteps
  <2>2. link[r][b] \in 0..2 BY <1>1, IInvFacts DEF RestOK
  <2>3. CASE link'[r][b] \in 0..2 /\ link'[r][b] >= link[r][b]
    <3>1. b \in Above(b)' BY DEF Above
    <3>2. QED BY <2>2, <2>3, <3>1
  <2>4. CASE /\ link'[r][b] = 0
             /\ link[r][b] > 0 => row'[b].dupOf \in Bugs /\ link'[r][row'[b].dupOf] > 0
    <3>1. row'[b].dupOf \in Bugs => row'[b].dupOf \in Above(b)'
      BY DEF Above, UpClosed
    <3>2. QED BY <2>4, <3>1
  <2>5. QED BY <2>1, <2>3, <2>4 DEF LinkStep
<1>2. QED BY <1>1, InvariantHolds, PTL DEF Spec, LinksFollowFolds

-----------------------------------------------------------------------------
(* What the fix check sees.                                                *)

(* A step of a row is a move that the fix check counts on.                 *)
LEMMA RowStepIsMove ==
  ASSUME NEW b \in Bugs, GoodRow(b), RowStep(b)
  PROVE  Life!Move(b)
<1> DEFINE l == LifeOutside(b)
           k == Kept(b)
           r == row[b]
<1>1. /\ [x \in Bugs |-> LifeOutside(x)][b] = l
      /\ [x \in Bugs |-> Kept(x)][b] = k
      /\ [x \in Bugs |-> LifeOutside(x)]'[b] = l'
      /\ [x \in Bugs |-> Kept(x)]'[b] = k'
  OBVIOUS
<1>2. /\ r \in Row
      /\ r.status \in {"duplicate", "open", "fixed"} => r.pipeline = "succeeded"
      /\ r.status = "fixed" => r.owner = Nobody
      /\ r.status = "duplicate" => r.dupOf # NoBug
      /\ r.pipeline = "succeeded" => r.status # "new"
      /\ r.pipeline = "absent" => r.status = "new"
  BY DEF GoodRow, RowInv
<1> USE DEF Life!Move, Life!Becomes, LifeOutside, Kept
<1>3. CASE r'.status = r.status /\ k' = k
  BY <1>1, <1>3 DEF Life!Rest
<1>4. CASE r'.status \in {"closed", "dismissed", "duplicate"}
  BY <1>1, <1>4 DEF Life!Shut
<1>5. CASE r.status = "open" /\ r'.status = "open" /\ ~k'
  BY <1>1, <1>5 DEF Life!LetGo
<1> HIDE DEF Life!Move
<1>6. CASE Still(b) \/ Filed(b) \/ Taken(b) \/ Renewed(b) \/ Failed(b)
          \/ Recovered(b) \/ Abandoned(b)
  <2>1. CASE Still(b) \/ Renewed(b)
    BY <1>2, <1>3, <2>1 DEF Still, Renewed, Held, Row
  <2>2. CASE Filed(b) \/ Taken(b) \/ Failed(b) \/ Recovered(b) \/ Abandoned(b)
    <3>1. r.pipeline # "succeeded"
      BY <2>2 DEF Filed, Taken, Failed, Recovered, Abandoned, Exists, Claimable,
                  Exhausted, Idle
    <3>2. r'.status = r.status
      BY <1>2, <2>2 DEF Filed, Taken, Failed, Recovered, Abandoned, Unlocked, Row
    <3>3. QED BY <1>2, <1>3, <3>1, <3>2
  <2>3. QED BY <1>6, <2>1, <2>2
<1>7. CASE Settled(b)
  <2>1. PICK n \in Attempts, verdict \in {"open", "dismissed"} :
           /\ Held(b, n)
           /\ row'[b] = [r EXCEPT !.status   = IF r.status = "new" THEN verdict
                                               ELSE r.status,
                                  !.pipeline = "succeeded",
                                  !.refuted  = (verdict = "dismissed")]
    BY <1>7 DEF Settled
  <2>2. /\ r'.status = IF r.status = "new" THEN verdict ELSE r.status
        /\ r'.owner = r.owner /\ r'.lease = r.lease
        /\ r.owner # Nobody /\ r.lease >= 0
    BY <1>2, <2>1 DEF Held, Row
  <2>3. CASE r.status # "new"
    BY <1>3, <2>2, <2>3
  <2>4. CASE r.status = "new" /\ verdict = "dismissed"
    BY <1>4, <2>2, <2>4
  <2>5. CASE r.status = "new" /\ verdict = "open"
    BY <1>1, <2>2, <2>5 DEF Life!Open, Life!Move
  <2>6. QED BY <2>3, <2>4, <2>5
<1>8. CASE FoldedByAttempt(b) \/ FoldedByMaintainer(b) \/ Triaged(b)
  BY <1>2, <1>4, <1>8
     DEF FoldedByAttempt, FoldedByMaintainer, Triaged, Folded, Unlocked, Row
<1>9. CASE Released(b) \/ Aged(b) \/ Overtaken(b)
  <2>1. r'.status = r.status /\ (k' => k)
    BY <1>2, <1>9 DEF Released, Aged, Overtaken, Unlocked, Held, Row
  <2>2. k => r.status = "open"
    OBVIOUS
  <2>3. QED BY <1>3, <1>5, <2>1, <2>2
<1>10. CASE FoundFixed(b)
  BY <1>1, <1>2, <1>10 DEF FoundFixed, Life!Fix, Life!Move, Row
<1>11. QED
  BY <1>6, <1>7, <1>8, <1>9, <1>10 DEF RowStep

(* Whatever attempts and maintainers do, the fix check finds a bug only as *)
(* it expects to (write_bug_outcome, change_bug_status_with_reason,        *)
(* mark_bug_as_duplicate, release_bug_lease).                              *)
THEOREM AnalysisMovesAsAgreed == Spec => MovesAsAgreed
<1>1. Init => Life!Init
  <2>1. ASSUME Init, NEW b \in Bugs
        PROVE  LifeOutside(b) = "absent" /\ Kept(b) = FALSE
    BY <2>1 DEF Init, LifeOutside, Kept, AbsentRow
  <2>2. QED BY <2>1, Zenon DEF Life!Init
<1>2. IInv /\ [Next]_vars => [Life!Next]_(Life!lifeVars)
  BY IInvFacts, RowSteps, RowStepIsMove DEF Life!Next
<1>3. QED BY <1>1, <1>2, InvariantHolds, PTL DEF Spec, MovesAsAgreed, Life!Spec
=============================================================================
