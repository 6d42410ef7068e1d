--------------------------- MODULE FetchQueueProofs --------------------------
(***************************************************************************)
(* Proofs about FetchQueue, for any pull requests, submitters, lengths of  *)
(* series, retries and capacity of the channel.                            *)
(*                                                                         *)
(* A row that is Done under a placeholder means that parts are on their    *)
(* way.  Only Create can break that, when it makes a placeholder and       *)
(* leaves a row that is Done; it deletes the row only of a patchset that   *)
(* was there before, hence PlaceholderFirst.  Each conjunct of IInv has a  *)
(* lemma with one step per action that can disturb it; the theorems are at *)
(* the end.                                                                *)
(***************************************************************************)
EXTENDS FetchQueue, SequenceTheorems, TLAPS

USE FetchQueueAssumption

(* What the union types of the variables say of one that is not idle.      *)
LEMMA Kinds ==
  ASSUME TypeOK
  PROVE  /\ \A s \in Submitters : sub[s].stage # "idle" => sub[s] \in Submission
         /\ agent.stage # "idle" => agent \in Agent
         /\ ingest # IdleIngest => ingest \in Storing
<1>1. \A s \in Submitters : sub[s] \in {IdleSub} \union Submission
  BY DEF TypeOK
<1>2. \A s \in Submitters : sub[s].stage # "idle" => sub[s] \in Submission
  BY <1>1 DEF IdleSub
<1>3. agent.stage # "idle" => agent \in Agent
  BY DEF TypeOK, IdleAgent
<1>4. QED BY <1>2, <1>3 DEF TypeOK

(* The event at the head of the channel.                                   *)
LEMMA HeadIsEvent ==
  ASSUME TypeOK, channel # <<>>
  PROVE  Head(channel) \in Event /\ Tail(channel) \in Seq(Event)
BY HeadTailProperties DEF TypeOK

-----------------------------------------------------------------------------
(* Types.                                                                  *)

LEMMA SubmitTypes ==
  ASSUME TypeOK, NEW s \in Submitters,
         \/ s \in Hooks /\ \E a \in Articles : Receive(s, a)
         \/ Submit(s) \/ SubmitFails(s) \/ Abandon(s)
  PROVE  TypeOK'
<1>1. ASSUME NEW a \in Articles, Receive(s, a) PROVE TypeOK'
  BY <1>1 DEF TypeOK, Receive, Stage, Submission, SubStages
<1>2. ASSUME Create(s) PROVE TypeOK'
  <2> DEFINE a == sub[s].article
  <2>1. sub[s] \in Submission
    BY <1>2, Kinds DEF Create, At
  <2>2. a \in Articles
    BY <2>1 DEF Submission
  <2> HIDE DEF a
  <2>3. sub' \in [Submitters -> {IdleSub} \union Submission]
    BY <1>2, <2>2 DEF TypeOK, Create, Stage, Submission, SubStages, a
  <2>4. ps' \in [Articles -> Patchset]
    BY <1>2, <2>2 DEF TypeOK, Create, Patchset, PatchsetStatus, Reasons, a
  <2>5. row' \in [Articles -> Row]
    <3>1. AbsentRow \in Row
      BY DEF AbsentRow, Row, RowStatus
    <3>2. row' \in {row, [row EXCEPT ![a] = AbsentRow]}
      BY <1>2 DEF Create, a
    <3>3. QED BY <2>2, <3>1, <3>2 DEF TypeOK
  <2>6. QED BY <1>2, <2>3, <2>4, <2>5 DEF TypeOK, Create
<1>3. ASSUME CheckStatus(s) PROVE TypeOK'
  <2>1. sub[s] \in Submission
    BY <1>3, Kinds DEF CheckStatus, At
  <2>2. sub' \in [Submitters -> {IdleSub} \union Submission]
    BY <1>3, <2>1 DEF TypeOK, CheckStatus, Stage, Leave, Submission, SubStages
  <2>3. QED BY <1>3, <2>2 DEF TypeOK, CheckStatus
<1>4. ASSUME Enqueue(s) PROVE TypeOK'
  <2> DEFINE a == sub[s].article
  <2>1. sub[s] \in Submission
    BY <1>4, Kinds DEF Enqueue, At
  <2>2. a \in Articles
    BY <2>1 DEF Submission
  <2> HIDE DEF a
  <2>3. row[a] \in Row /\ Enqueued(a) \in Row
    BY <2>2 DEF TypeOK, Enqueued, NewRow, Row, RowStatus
  <2>4. row' \in [Articles -> Row]
    BY <1>4, <2>2, <2>3 DEF TypeOK, Enqueue, a
  <2>5. sub' \in [Submitters -> {IdleSub} \union Submission]
    BY <1>4 DEF TypeOK, Enqueue, Leave
  <2>6. QED BY <1>4, <2>4, <2>5 DEF TypeOK, Enqueue
<1>5. ASSUME SubmitFails(s) PROVE TypeOK'
  <2> DEFINE a == sub[s].article
  <2>1. sub[s] \in Submission
    BY <1>5, Kinds DEF SubmitFails, At
  <2>2. a \in Articles
    BY <2>1 DEF Submission
  <2> HIDE DEF a
  <2>3. ps' \in [Articles -> Patchset]
    BY <1>5, <2>2 DEF TypeOK, SubmitFails, FailFetching, Fail, Patchset,
                      PatchsetStatus, Reasons, a
  <2>4. sub' \in [Submitters -> {IdleSub} \union Submission] /\ faults' \in 0..MaxFaults
    BY <1>5 DEF TypeOK, SubmitFails, Leave, Fault
  <2>5. QED BY <1>5, <2>3, <2>4 DEF TypeOK, SubmitFails
<1>6. ASSUME Abandon(s) PROVE TypeOK'
  BY <1>6 DEF TypeOK, Abandon, Leave, Fault
<1>7. QED BY <1>1, <1>2, <1>3, <1>4, <1>5, <1>6 DEF Submit

LEMMA RowTypes ==
  ASSUME TypeOK, NEW a \in Articles
  PROVE  /\ row[a] \in Row /\ ps[a] \in Patchset
         /\ DropRow(a) => row' \in [Articles -> Row]
         /\ \A status \in RowStatus : SetRow(a, status) => row' \in [Articles -> Row]
         /\ \A why \in Reasons : Fail(a, why) => ps' \in [Articles -> Patchset]
         /\ \A why \in Reasons : FailFetching(a, why) => ps' \in [Articles -> Patchset]
         /\ \A status \in PatchsetStatus :
               SetStatus(a, status) => ps' \in [Articles -> Patchset]
<1>1. row[a] \in Row /\ ps[a] \in Patchset
  BY DEF TypeOK
<1>2. ASSUME NEW status \in RowStatus, SetRow(a, status)
      PROVE row' \in [Articles -> Row]
  <2>1. [row[a] EXCEPT !.status = status] \in Row
    BY <1>1 DEF Row
  <2>2. row' = [row EXCEPT ![a] = [row[a] EXCEPT !.status = status]]
    BY <1>2 DEF SetRow
  <2>3. QED BY <2>1, <2>2 DEF TypeOK
<1>3. DropRow(a) => row' \in [Articles -> Row]
  <2>1. DropRow(a) => row' = row \/ SetRow(a, "Cancelled")
    BY DEF DropRow, SetRow
  <2>2. "Cancelled" \in RowStatus
    BY DEF RowStatus
  <2>3. QED BY <1>2, <2>1, <2>2 DEF TypeOK
<1>4. ASSUME NEW why \in Reasons, Fail(a, why) PROVE ps' \in [Articles -> Patchset]
  BY <1>4 DEF TypeOK, Fail, Patchset, PatchsetStatus
<1>5. ASSUME NEW why \in Reasons, FailFetching(a, why)
      PROVE ps' \in [Articles -> Patchset]
  BY <1>5, <1>4 DEF TypeOK, FailFetching
<1>6. ASSUME NEW status \in PatchsetStatus, SetStatus(a, status)
      PROVE ps' \in [Articles -> Patchset]
  BY <1>6 DEF TypeOK, SetStatus, Patchset
<1>7. QED BY <1>1, <1>2, <1>3, <1>4, <1>5, <1>6

LEMMA ClaimTypes ==
  ASSUME TypeOK, NEW a \in Articles, Lock(a) \/ Sweep(a) \/ BackoffEnds(a)
  PROVE  TypeOK'
<1>1. ASSUME Lock(a) PROVE TypeOK'
  <2>1. WithoutCancelled \in [Articles -> Row]
    BY DEF TypeOK, WithoutCancelled, Row, RowStatus
  <2>2. row' \in [Articles -> Row]
    BY <1>1, <2>1 DEF Lock, Row, RowStatus
  <2>3. agent' \in Agent
    BY <1>1, RowTypes DEF Lock, Agent, AgentStages, Parts, Row
  <2>4. QED BY <1>1, <2>2, <2>3 DEF TypeOK, Lock
<1>2. ASSUME Sweep(a) PROVE TypeOK'
  BY <1>2, RowTypes DEF TypeOK, Sweep, RowStatus
<1>3. ASSUME BackoffEnds(a) PROVE TypeOK'
  BY <1>3 DEF TypeOK, BackoffEnds, Row
<1>4. QED BY <1>1, <1>2, <1>3

LEMMA AgentTypes ==
  ASSUME TypeOK, Works \/ Panic \/ LockNone
  PROVE  TypeOK'
<1> DEFINE a == agent.article
<1>1. agent.stage # "idle" => agent \in Agent /\ a \in Articles /\ row[a] \in Row
  BY Kinds DEF Agent, TypeOK
<1>2. ASSUME agent \in Agent, NEW stage \in AgentStages, AgentGoes(stage)
      PROVE agent' \in Agent
  BY <1>2 DEF AgentGoes, Agent
<1>3. AgentRests => agent' \in {IdleAgent} \union Agent
  BY DEF AgentRests
<1>4. ASSUME agent \in Agent, NEW p \in {Failure} \union Parts, Send(p)
      PROVE channel' \in Seq(Event)
  <2>1. [article |-> agent.article, part |-> p] \in Event
    BY <1>4 DEF Agent, Event
  <2>2. QED BY <1>4, <2>1, AppendProperties DEF TypeOK, Send
<1> HIDE DEF a
<1>5. ASSUME LockNone PROVE TypeOK'
  BY <1>5 DEF TypeOK, LockNone, WithoutCancelled, Row, RowStatus
<1>6. ASSUME Fetched PROVE TypeOK'
  <2>1. row' \in [Articles -> Row]
    BY <1>6, <1>1, RowTypes DEF TypeOK, Fetched, AgentAt, a
  <2>2. agent' \in {IdleAgent} \union Agent
    BY <1>6, <1>1, <1>2, <1>3 DEF Fetched, AgentAt, AgentStages
  <2>3. QED BY <1>6, <2>1, <2>2 DEF TypeOK, Fetched
<1>7. ASSUME FetchFails PROVE TypeOK'
  <2>1. row' \in [Articles -> Row]
    <3>1. CASE Holds(a)
      <4>1. a \in Articles /\ row[a].retry + 1 \in Nat
        BY <1>7, <1>1 DEF FetchFails, AgentAt, Row
      <4>2. [status |-> "Pending", retry |-> row[a].retry + 1, due |-> FALSE] \in Row
        BY <4>1 DEF Row, RowStatus
      <4>3. row' = [row EXCEPT ![a] = [status |-> "Pending", retry |-> row[a].retry + 1,
                                       due |-> FALSE]]
        BY <1>7, <3>1, <4>1 DEF FetchFails, TypeOK, a
      <4>4. QED BY <4>1, <4>2, <4>3 DEF TypeOK
    <3>2. CASE ~ Holds(a)
      BY <1>7, <1>1, <3>2, RowTypes DEF FetchFails, AgentAt, a
    <3>3. QED BY <3>1, <3>2
  <2>2. agent' \in {IdleAgent} \union Agent
    BY <1>7, <1>3 DEF FetchFails
  <2>3. QED BY <1>7, <2>1, <2>2 DEF TypeOK, FetchFails
<1>8. ASSUME FailsForGood PROVE TypeOK'
  <2>1. row' \in [Articles -> Row]
    BY <1>8, <1>1, RowTypes DEF FailsForGood, AgentAt, RowStatus, a
  <2>2. ps' \in [Articles -> Patchset]
    BY <1>8, <1>1, RowTypes DEF FailsForGood, AgentAt, Reasons, TypeOK, a
  <2>3. agent' \in {IdleAgent} \union Agent
    BY <1>8, <1>1, <1>2, <1>3 DEF FailsForGood, AgentAt, AgentStages
  <2>4. QED BY <1>8, <2>1, <2>2, <2>3 DEF TypeOK, FailsForGood
<1>9. ASSUME SendFailure PROVE TypeOK'
  <2>1. channel' \in Seq(Event)
    BY <1>9, <1>1, <1>4 DEF SendFailure, AgentAt
  <2>2. QED BY <1>9, <2>1, <1>3 DEF TypeOK, SendFailure
<1>10. ASSUME MarkDone PROVE TypeOK'
  <2>1. row' \in [Articles -> Row]
    <3>1. CASE Holds(a)
      <4>1. a \in Articles /\ row[a].retry \in Nat
        BY <1>10, <1>1 DEF MarkDone, AgentAt, Row
      <4>2. [status |-> "Done", retry |-> row[a].retry, due |-> TRUE] \in Row
        BY <4>1 DEF Row, RowStatus
      <4>3. row' = [row EXCEPT ![a] = [status |-> "Done", retry |-> row[a].retry,
                                       due |-> TRUE]]
        BY <1>10, <3>1, <4>1 DEF MarkDone, TypeOK, a
      <4>4. QED BY <4>1, <4>2, <4>3 DEF TypeOK
    <3>2. CASE ~ Holds(a)
      BY <1>10, <1>1, <3>2, RowTypes DEF MarkDone, AgentAt, a
    <3>3. QED BY <3>1, <3>2
  <2>2. agent' \in {IdleAgent} \union Agent
    BY <1>10, <1>1, <1>2, <1>3 DEF MarkDone, AgentAt, AgentStages
  <2>3. QED BY <1>10, <2>1, <2>2 DEF TypeOK, MarkDone
<1>11. ASSUME SendPart PROVE TypeOK'
  <2>1. agent \in Agent /\ agent.next \in Parts
    BY <1>11, <1>1 DEF SendPart, AgentAt, Agent
  <2>2. channel' \in Seq(Event)
    BY <1>11, <2>1, <1>4 DEF SendPart
  <2>3. agent' \in {IdleAgent} \union Agent
    BY <1>11, <2>1, <1>3 DEF SendPart, Agent, Parts
  <2>4. QED BY <1>11, <2>2, <2>3 DEF TypeOK, SendPart
<1>12. ASSUME Panic PROVE TypeOK'
  BY <1>12, <1>3 DEF TypeOK, Panic, Fault
<1>13. QED BY <1>5, <1>6, <1>7, <1>8, <1>9, <1>10, <1>11, <1>12 DEF Works

LEMMA IngestTypes ==
  ASSUME TypeOK, Ingests \/ IngestFails
  PROVE  TypeOK'
<1>1. channel # <<>> => Head(channel) \in Event /\ Tail(channel) \in Seq(Event)
  BY HeadIsEvent
<1>2. ASSUME IngestFailure PROVE TypeOK'
  <2> DEFINE a == Head(channel).article
  <2>1. a \in Articles /\ Tail(channel) \in Seq(Event)
    BY <1>1, <1>2 DEF IngestFailure, Receives, Event
  <2> HIDE DEF a
  <2>2. ps' \in [Articles -> Patchset]
    BY <1>2, <2>1, RowTypes DEF IngestFailure, Reasons, TypeOK, a
  <2>3. QED BY <1>2, <2>1, <2>2 DEF TypeOK, IngestFailure
<1>3. ASSUME Adopt PROVE TypeOK'
  <2> DEFINE a == Head(channel).article
  <2>1. a \in Articles /\ Tail(channel) \in Seq(Event) /\ Head(channel).part \in Parts
    BY <1>1, <1>3 DEF Adopt, Receives, Event
  <2> HIDE DEF a
  <2>2. ps' \in [Articles -> Patchset]
    <3>1. ps[a] \in Patchset
      BY <2>1 DEF TypeOK
    <3>2. \A status \in PatchsetStatus :
             [status |-> status, why |-> "none", parts |-> ps[a].parts] \in Patchset
      BY <3>1 DEF Patchset, Reasons
    <3>3. \/ ps' = ps
          \/ \E status \in PatchsetStatus :
               ps' = [ps EXCEPT ![a] = [status |-> status, why |-> "none",
                                        parts |-> ps[a].parts]]
      BY <1>3, <2>1 DEF Adopt, TypeOK, PatchsetStatus, a
    <3>4. QED BY <2>1, <3>2, <3>3 DEF TypeOK
  <2>3. ingest' \in Storing
    BY <1>3, <2>1 DEF Adopt, Storing, a
  <2>4. QED BY <1>3, <2>1, <2>2, <2>3 DEF TypeOK, Adopt
<1>4. ASSUME Store PROVE TypeOK'
  <2> DEFINE a == ingest.article
  <2>1. a \in Articles /\ ingest.part \in Parts
    BY <1>4, Kinds DEF Store, Storing
  <2>2. ps[a] \in Patchset
    BY <2>1 DEF TypeOK
  <2>3. ps[a].parts \union {ingest.part} \in SUBSET Parts
    BY <2>1, <2>2 DEF Patchset
  <2> HIDE DEF a
  <2>4. ps' \in [Articles -> Patchset]
    BY <1>4, <2>1, <2>3 DEF TypeOK, Store, Patchset, PatchsetStatus, a
  <2>5. QED BY <1>4, <2>4 DEF TypeOK, Store
<1>5. ASSUME IngestFails PROVE TypeOK'
  <2>1. faults' \in 0..MaxFaults
    BY <1>5 DEF TypeOK, IngestFails, Fault
  <2>2. CASE Receives /\ channel' = Tail(channel)
             /\ FailFetching(Head(channel).article, "fetch") /\ UNCHANGED ingest
    <3>1. Head(channel).article \in Articles /\ Tail(channel) \in Seq(Event)
      BY <1>1, <2>2 DEF Receives, Event
    <3>2. ps' \in [Articles -> Patchset]
      BY <2>2, <3>1, RowTypes DEF Reasons
    <3>3. QED BY <1>5, <2>1, <2>2, <3>1, <3>2 DEF TypeOK, IngestFails
  <2>3. CASE ingest # IdleIngest /\ ingest' = IdleIngest
             /\ FailFetching(ingest.article, "fetch") /\ UNCHANGED channel
    <3>1. ingest.article \in Articles
      BY <2>3, Kinds DEF Storing
    <3>2. ps' \in [Articles -> Patchset]
      BY <2>3, <3>1, RowTypes DEF Reasons
    <3>3. QED BY <1>5, <2>1, <2>3, <3>2 DEF TypeOK, IngestFails
  <2>4. QED BY <1>5, <2>2, <2>3 DEF IngestFails
<1>6. QED BY <1>2, <1>3, <1>4, <1>5 DEF Ingests

LEMMA PeopleTypes ==
  ASSUME TypeOK
  PROVE  /\ \A a \in Articles : Poll(a) \/ Review(a) \/ Cancel(a) \/ Rerun(a) => TypeOK'
         /\ Restart => TypeOK'
<1>1. ASSUME NEW a \in Articles, Poll(a) PROVE TypeOK'
  BY <1>1 DEF TypeOK, Poll, Stage, Submission, SubStages
<1>2. ASSUME NEW a \in Articles, Review(a) PROVE TypeOK'
  <2>1. ps' \in [Articles -> Patchset]
    BY <1>2, RowTypes DEF Review, PatchsetStatus, Reasons
  <2>2. QED BY <1>2, <2>1 DEF TypeOK, Review
<1>3. ASSUME NEW a \in Articles, Cancel(a) PROVE TypeOK'
  <2>1. ps' \in [Articles -> Patchset]
    BY <1>3, RowTypes DEF Cancel, PatchsetStatus
  <2>2. row' \in [Articles -> Row]
    BY <1>3, RowTypes DEF TypeOK, Cancel, RowStatus
  <2>3. QED BY <1>3, <2>1, <2>2 DEF TypeOK, Cancel
<1>4. ASSUME NEW a \in Articles, Rerun(a) PROVE TypeOK'
  BY <1>4 DEF TypeOK, Rerun, Patchset, PatchsetStatus, Reasons
<1>5. ASSUME Restart PROVE TypeOK'
  <2>1. row' \in [Articles -> Row]
    BY <1>5 DEF TypeOK, Restart, Resumed, Row, RowStatus
  <2>2. ps' \in [Articles -> Patchset]
    BY <1>5 DEF TypeOK, Restart, Interrupted, Patchset, PatchsetStatus, Reasons
  <2>3. faults' \in 0..MaxFaults
    BY <1>5 DEF TypeOK, Restart, Fault
  <2>4. channel' \in Seq(Event)
    BY <1>5, EmptySeq DEF Restart
  <2>5. QED BY <1>5, <2>1, <2>2, <2>3, <2>4 DEF TypeOK, Restart
<1>6. QED BY <1>1, <1>2, <1>3, <1>4, <1>5

LEMMA TypesStep ==
  ASSUME TypeOK, [Next]_vars
  PROVE  TypeOK'
<1>1. CASE UNCHANGED vars
  BY <1>1 DEF vars, TypeOK
<1>2. CASE Next
  <2>1. Hooks \subseteq Submitters
    BY DEF Submitters
  <2>2. QED BY <1>2, <2>1, SubmitTypes, ClaimTypes, AgentTypes, IngestTypes, PeopleTypes
            DEF Next
<1>3. QED BY <1>1, <1>2

-----------------------------------------------------------------------------
(* What a step does to a row.                                              *)

RowKept(a) == row'[a] = row[a]
RowRetried(a) ==
    /\ FetchFails
    /\ agent.article = a
    /\ row[a].status = "Fetching"
    /\ row'[a].status = "Pending"
    /\ row'[a].retry = row[a].retry + 1
RowEnds(a) ==
    /\ row[a].status # "none"
    /\ row'[a].status \in {"Pending", "Failed", "Cancelled"}
    /\ row'[a].retry = row[a].retry
RowLocked(a) ==
    /\ Lock(a)
    /\ row[a].status # "none"
    /\ row'[a].status = "Fetching"
    /\ row'[a].retry = row[a].retry
RowDone(a) ==
    /\ MarkDone
    /\ agent.article = a
    /\ row[a].status = "Fetching"
    /\ agent'.stage = "sending" /\ agent'.article = a
    /\ row'[a].status = "Done"
    /\ row'[a].retry = row[a].retry
RowWritten(a) ==
    \E s \in Submitters :
        /\ sub[s].article = a
        /\ \/ Create(s) /\ Ended(a) /\ row'[a] = AbsentRow
           \/ Enqueue(s) /\ row'[a] = NewRow

RowMoves(a) ==
    \/ RowKept(a) \/ RowRetried(a) \/ RowEnds(a)
    \/ RowLocked(a) \/ RowDone(a) \/ RowWritten(a)

LEMMA DropRowMoves ==
  ASSUME TypeOK, NEW a \in Articles, NEW b \in Articles, DropRow(a)
  PROVE  RowKept(b) \/ RowEnds(b)
<1>1. CASE a = b
  BY <1>1 DEF TypeOK, DropRow, RowKept, RowEnds, Row
<1>2. CASE a # b
  BY <1>2 DEF TypeOK, DropRow, RowKept
<1>3. QED BY <1>1, <1>2

LEMMA WithoutCancelledMoves ==
  ASSUME TypeOK, NEW b \in Articles, row'[b] = WithoutCancelled[b]
  PROVE  RowKept(b) \/ RowEnds(b)
BY DEF TypeOK, WithoutCancelled, RowKept, RowEnds, Row, Live

(* Every step moves every row in one of these ways.                        *)
LEMMA RowStep ==
  ASSUME TypeOK, [Next]_vars, NEW b \in Articles
  PROVE  RowMoves(b)
<1> DEFINE a == agent.article
<1>0. agent.stage # "idle" => a \in Articles
  BY Kinds DEF Agent
<1> HIDE DEF a
<1>1. ASSUME row' = row PROVE RowMoves(b)
  BY <1>1 DEF RowMoves, RowKept
<1>2. ASSUME NEW s \in Submitters, Create(s) PROVE RowMoves(b)
  <2>1. sub[s].article \in Articles
    BY <1>2, Kinds DEF Create, At, Submission
  <2>2. CASE sub[s].article = b
    <3>1. \/ row' = row
          \/ Ended(b) /\ row' = [row EXCEPT ![b] = AbsentRow]
      BY <1>2, <2>2 DEF Create
    <3>2. \/ row'[b] = row[b]
          \/ row'[b] = AbsentRow /\ Ended(b)
      BY <3>1 DEF TypeOK
    <3>3. QED BY <1>2, <2>2, <3>2 DEF RowMoves, RowWritten, RowKept
  <2>3. CASE sub[s].article # b
    BY <1>2, <2>1, <2>3 DEF Create, TypeOK, RowMoves, RowKept
  <2>4. QED BY <2>2, <2>3
<1>3. ASSUME NEW s \in Submitters, Enqueue(s) PROVE RowMoves(b)
  <2>1. sub[s].article \in Articles
    BY <1>3, Kinds DEF Enqueue, At, Submission
  <2>2. CASE sub[s].article = b
    <3>1. row'[b] = Enqueued(b)
      BY <1>3, <2>2 DEF Enqueue, TypeOK
    <3>2. CASE row[b].status = "Fetching"
      BY <3>1, <3>2 DEF Enqueued, RowMoves, RowKept
    <3>3. CASE row[b].status = "Pending"
      <4>1. RowEnds(b)
        BY <3>1, <3>3 DEF Enqueued, RowEnds, TypeOK, Row
      <4>2. QED BY <4>1 DEF RowMoves
    <3>4. CASE row[b].status \notin {"Fetching", "Pending"}
      <4>1. row'[b] = NewRow
        BY <3>1, <3>4 DEF Enqueued
      <4>2. QED BY <1>3, <2>2, <4>1 DEF RowMoves, RowWritten
    <3>5. QED BY <3>2, <3>3, <3>4
  <2>3. CASE sub[s].article # b
    BY <1>3, <2>1, <2>3 DEF Enqueue, TypeOK, RowMoves, RowKept
  <2>4. QED BY <2>2, <2>3
<1>4. ASSUME NEW c \in Articles, Lock(c) PROVE RowMoves(b)
  <2>1. CASE b = c
    <3>1. row'[b].status = "Fetching" /\ row'[b].retry = row[b].retry
      BY <1>4, <2>1 DEF Lock, WithoutCancelled, TypeOK, Row
    <3>2. row[b].status # "none"
      BY <1>4, <2>1 DEF Lock, WithoutCancelled, TypeOK, Row, Live
    <3>3. QED BY <1>4, <2>1, <3>1, <3>2 DEF RowMoves, RowLocked
  <2>2. CASE b # c
    <3>1. row'[b] = WithoutCancelled[b]
      BY <1>4, <2>2 DEF Lock, WithoutCancelled
    <3>2. QED BY <3>1, WithoutCancelledMoves DEF RowMoves
  <2>3. QED BY <2>1, <2>2
<1>5. ASSUME LockNone PROVE RowMoves(b)
  BY <1>5, WithoutCancelledMoves DEF LockNone, RowMoves
<1>6. ASSUME NEW c \in Articles, Sweep(c) PROVE RowMoves(b)
  <2>1. RowKept(b) \/ RowEnds(b)
    BY <1>6 DEF TypeOK, Sweep, SetRow, Row, RowKept, RowEnds
  <2>2. QED BY <2>1 DEF RowMoves
<1>7. ASSUME NEW c \in Articles, BackoffEnds(c) PROVE RowMoves(b)
  <2>1. RowKept(b) \/ RowEnds(b)
    BY <1>7 DEF TypeOK, BackoffEnds, Row, RowKept, RowEnds
  <2>2. QED BY <2>1 DEF RowMoves
<1>8. ASSUME Fetched PROVE RowMoves(b)
  <2>1. row' = row \/ DropRow(a)
    BY <1>8 DEF Fetched, a
  <2>2. a \in Articles
    BY <1>8, <1>0 DEF Fetched, AgentAt
  <2>3. QED BY <1>1, <2>1, <2>2, DropRowMoves DEF RowMoves
<1>9. ASSUME FetchFails PROVE RowMoves(b)
  <2>1. a \in Articles
    BY <1>9, <1>0 DEF FetchFails, AgentAt
  <2>2. CASE ~ Holds(a)
    BY <1>9, <2>1, <2>2, DropRowMoves DEF FetchFails, RowMoves, a
  <2>3. CASE Holds(a) /\ b = a
    <3>1. row'[b] = [status |-> "Pending", retry |-> row[b].retry + 1, due |-> FALSE]
      BY <1>9, <2>3 DEF FetchFails, TypeOK, a
    <3>2. QED BY <1>9, <2>3, <3>1 DEF RowMoves, RowRetried, Holds, a
  <2>4. CASE Holds(a) /\ b # a
    BY <1>9, <2>1, <2>4 DEF FetchFails, TypeOK, RowMoves, RowKept, a
  <2>5. QED BY <2>2, <2>3, <2>4
<1>10. ASSUME FailsForGood PROVE RowMoves(b)
  <2>1. a \in Articles
    BY <1>10, <1>0 DEF FailsForGood, AgentAt
  <2>2. CASE ~ Holds(a)
    BY <1>10, <2>1, <2>2, DropRowMoves DEF FailsForGood, RowMoves, a
  <2>3. CASE Holds(a)
    <3>1. row' = [row EXCEPT ![a].status = "Failed"]
      BY <1>10, <2>3 DEF FailsForGood, SetRow, a
    <3>2. RowKept(b) \/ RowEnds(b)
      BY <2>1, <2>3, <3>1 DEF TypeOK, Holds, Row, RowKept, RowEnds
    <3>3. QED BY <3>2 DEF RowMoves
  <2>4. QED BY <2>2, <2>3
<1>11. ASSUME MarkDone PROVE RowMoves(b)
  <2>1. a \in Articles /\ agent \in Agent
    BY <1>11, <1>0, Kinds DEF MarkDone, AgentAt
  <2>2. CASE ~ Holds(a)
    BY <1>11, <2>1, <2>2, DropRowMoves DEF MarkDone, RowMoves, a
  <2>3. CASE Holds(a) /\ b = a
    <3>1. row'[b] = [status |-> "Done", retry |-> row[b].retry, due |-> TRUE]
      BY <1>11, <2>3 DEF MarkDone, TypeOK, a
    <3>2. agent'.stage = "sending" /\ agent'.article = a
      BY <1>11, <2>1, <2>3 DEF MarkDone, AgentGoes, Agent, a
    <3>3. QED BY <1>11, <2>3, <3>1, <3>2 DEF RowMoves, RowDone, Holds, a
  <2>4. CASE Holds(a) /\ b # a
    BY <1>11, <2>1, <2>4 DEF MarkDone, TypeOK, RowMoves, RowKept, a
  <2>5. QED BY <2>2, <2>3, <2>4
<1>12. ASSUME NEW c \in Articles, Cancel(c) PROVE RowMoves(b)
  <2>1. RowKept(b) \/ RowEnds(b)
    BY <1>12 DEF TypeOK, Cancel, SetRow, Live, Row, RowKept, RowEnds
  <2>2. QED BY <2>1 DEF RowMoves
<1>13. ASSUME Restart PROVE RowMoves(b)
  <2>1. RowKept(b) \/ RowEnds(b)
    BY <1>13 DEF TypeOK, Restart, Resumed, Row, RowKept, RowEnds
  <2>2. QED BY <2>1 DEF RowMoves
<1>14. QED
  <2>1. CASE UNCHANGED vars
    BY <1>1, <2>1 DEF vars
  <2>2. CASE Next
    <3>1. ASSUME NEW s \in Submitters, Submit(s) \/ SubmitFails(s) \/ Abandon(s)
          PROVE RowMoves(b)
      BY <3>1, <1>1, <1>2, <1>3 DEF Submit, CheckStatus, SubmitFails, Abandon
    <3>2. ASSUME NEW s \in Hooks, NEW c \in Articles, Receive(s, c) PROVE RowMoves(b)
      BY <3>2, <1>1 DEF Receive
    <3>3. ASSUME NEW c \in Articles,
                 Poll(c) \/ Lock(c) \/ Sweep(c) \/ BackoffEnds(c) \/ Review(c)
                   \/ Cancel(c) \/ Rerun(c)
          PROVE RowMoves(b)
      BY <3>3, <1>1, <1>4, <1>6, <1>7, <1>12 DEF Poll, Review, Rerun
    <3>4. ASSUME Works \/ Panic \/ LockNone PROVE RowMoves(b)
      BY <3>4, <1>1, <1>5, <1>8, <1>9, <1>10, <1>11
         DEF Works, SendFailure, SendPart, Panic
    <3>5. ASSUME Ingests \/ IngestFails PROVE RowMoves(b)
      BY <3>5, <1>1 DEF Ingests, IngestFailure, Adopt, Store, IngestFails
    <3>6. QED BY <2>2, <3>1, <3>2, <3>3, <3>4, <3>5, <1>13 DEF Next
  <2>3. QED BY <2>1, <2>2

-----------------------------------------------------------------------------
(* What a step does to the status of a patchset.                           *)

StatusKept(a) == ps'[a].status = ps[a].status
StatusNew(a) ==
    \E s \in Submitters :
        /\ Create(s)
        /\ sub[s].article = a
        /\ ps'[a].status = "Fetching"
        /\ row'[a].status = "Done" => ps[a].status = "none" /\ row[a].status = "Done"
StatusByPeople(a) ==
    /\ Cancel(a) \/ Rerun(a) \/ Review(a)
    /\ ps[a].status # "none"
    /\ ps'[a].status \notin {"none", "Fetching"}
StatusByFetch(a) ==
    /\ ~ Decided(a)
    /\ ps[a].status # "none"
    /\ ps'[a].status \in {"Incomplete", "Pending", "Failed"}

StatusMoves(a) ==
    StatusKept(a) \/ StatusNew(a) \/ StatusByPeople(a) \/ StatusByFetch(a)

LEMMA FailMoves ==
  ASSUME TypeOK, NEW a \in Articles, NEW b \in Articles, NEW why \in Reasons,
         \/ FailFetching(a, why)
         \/ ps[a].status \in {"Fetching", "Incomplete", "Failed"} /\ Fail(a, why)
  PROVE  StatusKept(b) \/ StatusByFetch(b)
<1>1. CASE ps' = ps
  BY <1>1 DEF StatusKept
<1>2. CASE ps[a].status \in {"Fetching", "Incomplete", "Failed"} /\ Fail(a, why)
  <2>1. CASE a = b
    <3>1. ps'[b].status = "Failed"
      BY <1>2, <2>1 DEF Fail, TypeOK, Patchset
    <3>2. CASE ps[b].status = "Failed"
      BY <3>1, <3>2 DEF StatusKept
    <3>3. CASE ps[b].status # "Failed"
      BY <1>2, <2>1, <3>1, <3>3 DEF StatusByFetch, Decided
    <3>4. QED BY <3>2, <3>3
  <2>2. CASE a # b
    BY <1>2, <2>2 DEF Fail, TypeOK, StatusKept
  <2>3. QED BY <2>1, <2>2
<1>3. QED BY <1>1, <1>2 DEF FailFetching

(* Every step moves every status in one of these ways.                     *)
LEMMA StatusStep ==
  ASSUME TypeOK, [Next]_vars, NEW b \in Articles
  PROVE  StatusMoves(b)
<1>1. ASSUME ps' = ps PROVE StatusMoves(b)
  BY <1>1 DEF StatusMoves, StatusKept
<1>2. ASSUME NEW s \in Submitters, Create(s) PROVE StatusMoves(b)
  <2>1. sub[s].article \in Articles
    BY <1>2, Kinds DEF Create, At, Submission
  <2>2. CASE sub[s].article = b /\ ps' # ps
    <3>1. ps'[b].status = "Fetching"
      BY <1>2, <2>2 DEF Create, TypeOK, Patchset
    <3>2. row' = IF Ended(b) THEN [row EXCEPT ![b] = AbsentRow] ELSE row
      BY <1>2, <2>2 DEF Create
    <3>3. row'[b].status = "Done" => ps[b].status = "none" /\ row[b].status = "Done"
      BY <3>2 DEF Ended, AbsentRow, TypeOK
    <3>4. QED BY <1>2, <2>2, <3>1, <3>3 DEF StatusMoves, StatusNew
  <2>3. CASE sub[s].article # b
    BY <1>2, <2>1, <2>3 DEF Create, TypeOK, StatusMoves, StatusKept
  <2>4. QED BY <1>1, <2>2, <2>3
<1>3. ASSUME NEW s \in Submitters, SubmitFails(s) PROVE StatusMoves(b)
  <2>1. sub[s].article \in Articles
    BY <1>3, Kinds DEF SubmitFails, At, Submission
  <2>2. QED BY <1>3, <2>1, FailMoves DEF SubmitFails, StatusMoves, Reasons
<1>4. ASSUME FailsForGood PROVE StatusMoves(b)
  <2>1. agent.article \in Articles
    BY <1>4, Kinds DEF FailsForGood, AgentAt, Agent
  <2>2. \/ ps' = ps
        \/ /\ ps[agent.article].status \in {"Fetching", "Incomplete", "Failed"}
           /\ Fail(agent.article, "fetch")
    BY <1>4 DEF FailsForGood
  <2>3. QED BY <1>1, <2>1, <2>2, FailMoves DEF StatusMoves, Reasons
<1>5. ASSUME IngestFailure PROVE StatusMoves(b)
  <2> DEFINE a == Head(channel).article
  <2>1. a \in Articles
    BY <1>5, HeadIsEvent DEF IngestFailure, Receives, Event
  <2>2. \/ ps' = ps
        \/ /\ ps[a].status \in {"Fetching", "Incomplete", "Failed"}
           /\ Fail(a, "fetch")
    BY <1>5 DEF IngestFailure
  <2> HIDE DEF a
  <2>3. QED BY <1>1, <2>1, <2>2, FailMoves DEF StatusMoves, Reasons
<1>6. ASSUME Adopt PROVE StatusMoves(b)
  <2> DEFINE a == Head(channel).article
  <2>1. a \in Articles
    BY <1>6, HeadIsEvent DEF Adopt, Receives, Event
  <2>2. CASE ~ Opened(a)
    BY <1>1, <1>6, <2>2 DEF Adopt
  <2>3. CASE Opened(a)
    <3>1. \E status \in {"Pending", "Incomplete"} :
             ps' = [ps EXCEPT ![a] = [status |-> status, why |-> "none",
                                      parts |-> @.parts]]
      BY <1>6, <2>3 DEF Adopt
    <3> HIDE DEF a
    <3>2. CASE a = b
      BY <2>3, <3>1, <3>2 DEF TypeOK, Opened, Decided, StatusMoves, StatusByFetch
    <3>3. CASE a # b
      BY <3>1, <3>3 DEF TypeOK, StatusMoves, StatusKept
    <3>4. QED BY <3>2, <3>3
  <2>4. QED BY <2>2, <2>3
<1>7. ASSUME Store PROVE StatusMoves(b)
  <2> DEFINE a == ingest.article
  <2>1. a \in Articles
    BY <1>7, Kinds DEF Store, Storing
  <2>2. \/ ps'[b].status = ps[b].status
        \/ ps[b].status \in {"Incomplete", "Fetching"} /\ ps'[b].status = "Pending"
    BY <1>7, <2>1 DEF Store, TypeOK, Patchset
  <2>3. QED BY <2>2 DEF StatusMoves, StatusKept, StatusByFetch, Decided
<1>8. ASSUME IngestFails PROVE StatusMoves(b)
  <2>1. CASE Receives /\ FailFetching(Head(channel).article, "fetch")
    <3>1. Head(channel).article \in Articles
      BY <2>1, HeadIsEvent DEF Receives, Event
    <3>2. QED BY <2>1, <3>1, FailMoves DEF StatusMoves, Reasons
  <2>2. CASE ingest # IdleIngest /\ FailFetching(ingest.article, "fetch")
    <3>1. ingest.article \in Articles
      BY <2>2, Kinds DEF Storing
    <3>2. QED BY <2>2, <3>1, FailMoves DEF StatusMoves, Reasons
  <2>3. QED BY <1>8, <2>1, <2>2 DEF IngestFails
<1>9. ASSUME NEW c \in Articles, Review(c) \/ Cancel(c) \/ Rerun(c)
      PROVE StatusMoves(b)
  <2>1. /\ ps[c].status # "none"
        /\ ps'[c].status \in {"Reviewed", "Failed", "Cancelled", "Pending"}
        /\ b # c => ps'[b] = ps[b]
    BY <1>9 DEF Review, Cancel, Rerun, SetStatus, Fail, TypeOK, Patchset
  <2>2. QED BY <1>9, <2>1 DEF StatusMoves, StatusKept, StatusByPeople
<1>10. ASSUME Restart PROVE StatusMoves(b)
  <2>1. \/ ps'[b] = ps[b]
        \/ ps[b].status = "Fetching" /\ ps'[b].status = "Failed"
    BY <1>10 DEF Restart, Interrupted, TypeOK, Patchset
  <2>2. QED BY <2>1 DEF StatusMoves, StatusKept, StatusByFetch, Decided
<1>11. QED
  <2>1. CASE UNCHANGED vars
    BY <1>1, <2>1 DEF vars
  <2>2. CASE Next
    <3>1. ASSUME NEW s \in Submitters, Submit(s) \/ SubmitFails(s) \/ Abandon(s)
          PROVE StatusMoves(b)
      BY <3>1, <1>1, <1>2, <1>3 DEF Submit, CheckStatus, Enqueue, Abandon
    <3>2. ASSUME NEW s \in Hooks, NEW c \in Articles, Receive(s, c)
          PROVE StatusMoves(b)
      BY <3>2, <1>1 DEF Receive
    <3>3. ASSUME NEW c \in Articles,
                 Poll(c) \/ Lock(c) \/ Sweep(c) \/ BackoffEnds(c) \/ Review(c)
                   \/ Cancel(c) \/ Rerun(c)
          PROVE StatusMoves(b)
      BY <3>3, <1>1, <1>9 DEF Poll, Lock, Sweep, BackoffEnds
    <3>4. ASSUME Works \/ Panic \/ LockNone PROVE StatusMoves(b)
      BY <3>4, <1>1, <1>4
         DEF Works, Fetched, FetchFails, SendFailure, MarkDone, SendPart, Panic, LockNone
    <3>5. ASSUME Ingests \/ IngestFails PROVE StatusMoves(b)
      BY <3>5, <1>5, <1>6, <1>7, <1>8 DEF Ingests
    <3>6. QED BY <2>2, <3>1, <3>2, <3>3, <3>4, <3>5, <1>10 DEF Next
  <2>3. QED BY <2>1, <2>2

-----------------------------------------------------------------------------
(* The conjuncts of IInv.                                                  *)

(* A row is written only for a submission that found or made a placeholder, *)
(* and no step takes a patchset away.                                      *)
LEMMA PlaceholderStep ==
  ASSUME TypeOK, PlaceholderFirst, [Next]_vars
  PROVE  PlaceholderFirst'
<1>1. ASSUME NEW a \in Articles, ps[a].status # "none" PROVE ps'[a].status # "none"
  BY <1>1, StatusStep
     DEF StatusMoves, StatusKept, StatusNew, StatusByPeople, StatusByFetch
<1>2. ASSUME NEW a \in Articles, row'[a].status # "none" PROVE ps'[a].status # "none"
  <2>1. ps[a].status # "none"
    <3>1. CASE row[a].status # "none"
      BY <3>1 DEF PlaceholderFirst
    <3>2. CASE row[a].status = "none"
      <4>1. PICK s \in Submitters : sub[s].article = a /\ Enqueue(s)
        BY <1>2, <3>2, RowStep DEF RowMoves, RowKept, RowRetried, RowEnds, RowLocked,
                                   RowDone, RowWritten, AbsentRow
      <4>2. QED BY <4>1 DEF Enqueue, At, PlaceholderFirst
    <3>3. QED BY <3>1, <3>2
  <2>2. QED BY <1>1, <2>1
<1>3. ASSUME NEW s \in Submitters, sub'[s].stage \in {"created", "enqueuing"}
      PROVE ps'[sub'[s].article].status # "none"
  <2>1. CASE sub'[s] = sub[s]
    <3>1. sub[s].article \in Articles /\ ps[sub[s].article].status # "none"
      BY <1>3, <2>1, Kinds DEF PlaceholderFirst, Submission
    <3>2. QED BY <1>1, <2>1, <3>1
  <2>2. CASE Create(s)
    <3> DEFINE a == sub[s].article
    <3>1. a \in Articles
      BY <2>2, Kinds DEF Create, At, Submission
    <3>2. sub'[s].article = a
      BY <2>2 DEF Create, Stage, TypeOK
    <3> HIDE DEF a
    <3>3. CASE ps[a].status \in {"none", "Failed", "Fetching", "Cancelled"}
      BY <2>2, <3>1, <3>2, <3>3 DEF Create, TypeOK, Patchset, a
    <3>4. CASE ps[a].status \notin {"none", "Failed", "Fetching", "Cancelled"}
      BY <2>2, <3>2, <3>4 DEF Create, a
    <3>5. QED BY <3>3, <3>4
  <2>3. CASE CheckStatus(s)
    BY <1>3, <2>3, Kinds DEF CheckStatus, At, Stage, Leave, IdleSub, PlaceholderFirst, TypeOK
  <2>4. sub'[s] = sub[s] \/ Create(s) \/ CheckStatus(s)
    <3>1. CASE UNCHANGED vars
      BY <3>1 DEF vars
    <3>2. CASE Next
      <4>1. ASSUME NEW r \in Submitters, Submit(r) \/ SubmitFails(r) \/ Abandon(r)
            PROVE sub'[s] = sub[s] \/ Create(s) \/ CheckStatus(s)
        <5>1. Enqueue(r) \/ SubmitFails(r) \/ Abandon(r) => sub'[s] \in {sub[s], IdleSub}
          BY DEF Enqueue, SubmitFails, Abandon, Leave, TypeOK
        <5>2. Create(r) /\ r # s => sub'[s] = sub[s]
          BY DEF Create, Stage, TypeOK
        <5>3. CheckStatus(r) /\ r # s => sub'[s] = sub[s]
          BY DEF CheckStatus, Stage, Leave, TypeOK
        <5>4. QED BY <1>3, <4>1, <5>1, <5>2, <5>3 DEF Submit, IdleSub
      <4>2. ASSUME NEW c \in Articles,
                   Poll(c) \/ \E r \in Hooks : Receive(r, c)
            PROVE sub'[s] = sub[s]
        BY <1>3, <4>2 DEF Poll, Receive, Stage, TypeOK
      <4>3. Restart => sub'[s] = IdleSub
        BY DEF Restart
      <4>4. \/ \E r \in Submitters : Submit(r) \/ SubmitFails(r) \/ Abandon(r)
            \/ \E c \in Articles : Poll(c) \/ \E r \in Hooks : Receive(r, c)
            \/ Restart
            \/ UNCHANGED sub
        BY <3>2 DEF Next, Lock, Sweep, BackoffEnds, Review, Cancel, Rerun, LockNone,
                    Works, Fetched, FetchFails, FailsForGood, SendFailure, MarkDone,
                    SendPart, Panic, Ingests, IngestFailure, Adopt, Store, IngestFails
      <4>5. QED BY <1>3, <4>1, <4>2, <4>3, <4>4 DEF IdleSub
    <3>3. QED BY <3>1, <3>2
  <2>5. QED BY <2>1, <2>2, <2>3, <2>4
<1>4. QED BY <1>2, <1>3 DEF PlaceholderFirst

(* Parts that are on their way stay so until the first of them is adopted   *)
(* or dropped, and then the patchset is a placeholder no more.             *)
LEMMA OnItsWayStep ==
  ASSUME TypeOK, [Next]_vars, NEW a \in Articles, OnItsWay(a)
  PROVE  OnItsWay(a)' \/ ~ (ps'[a].status = "Fetching" /\ row'[a].status = "Done")
<1> DEFINE Carries(i) == channel[i].article = a /\ channel[i].part # Failure
<1>1. DOMAIN channel = 1..Len(channel) /\ Len(channel) \in Nat
  BY LenProperties DEF TypeOK
<1>2. ASSUME agent' = agent, channel' = channel PROVE OnItsWay(a)'
  BY <1>2 DEF OnItsWay
<1>3. ASSUME NEW p \in {Failure} \union Parts, agent \in Agent, Send(p)
      PROVE /\ Len(channel') = Len(channel) + 1
            /\ DOMAIN channel' = 1..Len(channel')
            /\ \A i \in 1..Len(channel) : channel'[i] = channel[i]
            /\ channel'[Len(channel')] = [article |-> agent.article, part |-> p]
  <2>1. [article |-> agent.article, part |-> p] \in Event
    BY <1>3 DEF Agent, Event
  <2>2. channel' \in Seq(Event)
    BY <1>3, <2>1, AppendProperties DEF TypeOK, Send
  <2>3. DOMAIN channel' = 1..Len(channel')
    BY <2>2, LenProperties
  <2>4. QED BY <1>1, <1>3, <2>1, <2>3, AppendProperties DEF TypeOK, Send
<1>4. ASSUME channel # <<>>, channel' = Tail(channel), agent' = agent,
             Head(channel).article # a \/ Head(channel).part = Failure
      PROVE OnItsWay(a)'
  <2>1. CASE agent.stage = "sending" /\ agent.article = a
    BY <1>4, <2>1 DEF OnItsWay
  <2>2. CASE ~ (agent.stage = "sending" /\ agent.article = a)
    <3>1. PICK i \in DOMAIN channel : Carries(i)
      BY <2>2 DEF OnItsWay
    <3>2. channel[1] = Head(channel)
      BY <1>4 DEF TypeOK
    <3>3. i # 1
      BY <1>4, <3>1, <3>2
    <3>4. /\ Tail(channel) \in Seq(Event)
          /\ Len(Tail(channel)) = Len(channel) - 1
          /\ \A j \in 1..Len(Tail(channel)) : Tail(channel)[j] = channel[j + 1]
      BY <1>4, HeadTailProperties DEF TypeOK
    <3>5. DOMAIN Tail(channel) = 1..Len(Tail(channel))
      BY <3>4, LenProperties
    <3>6. i - 1 \in DOMAIN Tail(channel) /\ Tail(channel)[i - 1] = channel[i]
      BY <1>1, <3>1, <3>3, <3>4, <3>5
    <3>7. QED BY <1>4, <3>1, <3>6 DEF OnItsWay
  <2>3. QED BY <2>1, <2>2
<1>5. ASSUME agent.stage # "sending", agent'.stage # "sending", channel' = channel
      PROVE OnItsWay(a)'
  BY <1>5 DEF OnItsWay
<1>6. ASSUME NEW b \in Articles, NEW why \in Reasons, FailFetching(b, why)
      PROVE b = a => ps'[a].status # "Fetching"
  <2>1. \/ ps[b].status # "Fetching" /\ ps' = ps
        \/ ps' = [ps EXCEPT ![b].status = "Failed", ![b].why = why]
    BY <1>6 DEF FailFetching, Fail
  <2>2. QED BY <2>1 DEF TypeOK, Patchset
<1> HIDE DEF Carries
<1>7. ASSUME SendFailure PROVE OnItsWay(a)'
  <2>1. agent \in Agent /\ agent.stage # "sending" /\ Send(Failure)
    BY <1>7, Kinds DEF SendFailure, AgentAt
  <2>2. PICK i \in DOMAIN channel : channel[i].article = a /\ channel[i].part # Failure
    BY <2>1 DEF OnItsWay
  <2>3. /\ Len(channel') = Len(channel) + 1
        /\ DOMAIN channel' = 1..Len(channel')
        /\ \A j \in 1..Len(channel) : channel'[j] = channel[j]
    BY <1>3, <2>1
  <2>4. i \in DOMAIN channel' /\ channel'[i] = channel[i]
    BY <1>1, <2>2, <2>3
  <2>5. QED BY <2>2, <2>4 DEF OnItsWay
<1>8. ASSUME SendPart PROVE OnItsWay(a)'
  <2>1. agent \in Agent /\ agent.next \in Parts /\ Send(agent.next)
    BY <1>8, Kinds DEF SendPart, AgentAt, Agent
  <2>2. /\ Len(channel') = Len(channel) + 1
        /\ DOMAIN channel' = 1..Len(channel')
        /\ \A j \in 1..Len(channel) : channel'[j] = channel[j]
        /\ channel'[Len(channel')] = [article |-> agent.article, part |-> agent.next]
    BY <1>3, <2>1
  <2>3. CASE agent.article = a
    <3>1. Len(channel') \in DOMAIN channel'
      BY <1>1, <2>2
    <3>2. agent.next # Failure
      BY <2>1 DEF Parts, Failure
    <3>3. QED BY <2>2, <2>3, <3>1, <3>2 DEF OnItsWay
  <2>4. CASE agent.article # a
    <3>1. PICK i \in DOMAIN channel : channel[i].article = a /\ channel[i].part # Failure
      BY <2>4 DEF OnItsWay
    <3>2. i \in DOMAIN channel' /\ channel'[i] = channel[i]
      BY <1>1, <2>2, <3>1
    <3>3. QED BY <3>1, <3>2 DEF OnItsWay
  <2>5. QED BY <2>3, <2>4
<1>9. ASSUME IngestFailure PROVE OnItsWay(a)'
  BY <1>9, <1>4 DEF IngestFailure, Receives
<1>10. ASSUME Adopt PROVE OnItsWay(a)' \/ ps'[a].status # "Fetching"
  <2>1. CASE Head(channel).article # a
    BY <1>10, <1>4, <2>1 DEF Adopt, Receives
  <2>2. CASE Head(channel).article = a
    BY <1>10, <2>2 DEF Adopt, Opened, TypeOK
  <2>3. QED BY <2>1, <2>2
<1>11. ASSUME IngestFails PROVE OnItsWay(a)' \/ ps'[a].status # "Fetching"
  <2>1. CASE Receives /\ channel' = Tail(channel)
             /\ FailFetching(Head(channel).article, "fetch") /\ UNCHANGED agent
    <3>1. Head(channel).article \in Articles
      BY <2>1, HeadIsEvent DEF Receives, Event
    <3>2. QED BY <1>4, <1>6, <2>1, <3>1 DEF Receives, Reasons
  <2>2. CASE UNCHANGED <<channel, agent>>
    BY <1>2, <2>2
  <2>3. QED BY <1>11, <2>1, <2>2 DEF IngestFails
<1>12. ASSUME Restart PROVE ~ (ps'[a].status = "Fetching" /\ row'[a].status = "Done")
  BY <1>12 DEF Restart, Resumed, Interrupted, TypeOK, Row, Patchset
<1>13. QED
  <2>1. CASE UNCHANGED vars
    BY <1>2, <2>1 DEF vars
  <2>2. CASE Next
    <3>1. ASSUME NEW s \in Submitters, Submit(s) \/ SubmitFails(s) \/ Abandon(s)
          PROVE OnItsWay(a)'
      BY <3>1, <1>2 DEF Submit, Create, CheckStatus, Enqueue, SubmitFails, Abandon
    <3>2. ASSUME NEW s \in Hooks, NEW c \in Articles, Receive(s, c) PROVE OnItsWay(a)'
      BY <3>2, <1>2 DEF Receive
    <3>3. ASSUME NEW c \in Articles,
                 Poll(c) \/ Sweep(c) \/ BackoffEnds(c) \/ Review(c)
                   \/ Cancel(c) \/ Rerun(c)
          PROVE OnItsWay(a)'
      BY <3>3, <1>2 DEF Poll, Sweep, BackoffEnds, Review, Cancel, Rerun
    <3>4. ASSUME NEW c \in Articles, Lock(c) PROVE OnItsWay(a)'
      BY <3>4, <1>5 DEF Lock, AgentAt
    <3>5. ASSUME Fetched \/ FetchFails \/ FailsForGood \/ Panic PROVE OnItsWay(a)'
      <4>1. agent.stage \in {"fetching", "extracting"} /\ agent \in Agent
        BY <3>5, Kinds DEF Fetched, FetchFails, FailsForGood, Panic, AgentAt
      <4>2. agent'.stage # "sending" /\ channel' = channel
        BY <3>5, <4>1 DEF Fetched, FetchFails, FailsForGood, Panic, AgentGoes,
                          AgentRests, IdleAgent, Agent
      <4>3. QED BY <4>1, <4>2, <1>5
    <3>6. ASSUME MarkDone PROVE OnItsWay(a)'
      BY <3>6 DEF MarkDone, AgentAt, OnItsWay
    <3>7. ASSUME LockNone \/ Store PROVE OnItsWay(a)'
      BY <3>7, <1>2 DEF LockNone, Store
    <3>8. QED BY <2>2, <3>1, <3>2, <3>3, <3>4, <3>5, <3>6, <3>7, <1>7, <1>8, <1>9,
                 <1>10, <1>11, <1>12 DEF Next, Works, Ingests
  <2>3. QED BY <2>1, <2>2

LEMMA DoneBacksStep ==
  ASSUME TypeOK, PlaceholderFirst, DoneBacksFetching, [Next]_vars
  PROVE  DoneBacksFetching'
<1> SUFFICES ASSUME NEW a \in Articles, ps'[a].status = "Fetching",
                    row'[a].status = "Done"
             PROVE  OnItsWay(a)'
  BY DEF DoneBacksFetching
<1>1. CASE RowDone(a)
  BY <1>1 DEF RowDone, OnItsWay
<1>2. CASE ~ RowDone(a)
  <2>1. row[a].status = "Done"
    BY <1>2, RowStep DEF RowMoves, RowKept, RowRetried, RowEnds, RowLocked,
                         RowWritten, AbsentRow, NewRow
  <2>2. ps[a].status = "Fetching"
    BY <2>1, StatusStep DEF StatusMoves, StatusKept, StatusNew, StatusByPeople,
                            StatusByFetch, PlaceholderFirst
  <2>3. OnItsWay(a)
    BY <2>1, <2>2 DEF DoneBacksFetching
  <2>4. QED BY <2>3, OnItsWayStep
<1>3. QED BY <1>1, <1>2

(* Only FetchFails counts, and while it holds the row its copy is right.   *)
LEMMA RetriesStep ==
  ASSUME TypeOK, RetriesAgree, [Next]_vars
  PROVE  RetriesAgree'
<1> SUFFICES ASSUME NEW a \in Articles
             PROVE  /\ row'[a].retry < MaxRetries \/ row'[a].retry = 0
                    /\ agent'.stage \in {"fetching", "extracting"}
                          /\ agent'.article = a /\ row'[a].status = "Fetching"
                       => agent'.retry = row'[a].retry
  BY DEF RetriesAgree
<1>1. row'[a].retry < MaxRetries \/ row'[a].retry = 0
  <2>1. CASE RowRetried(a)
    <3>1. agent.retry = row[a].retry /\ agent.retry + 1 < MaxRetries
      BY <2>1 DEF RowRetried, FetchFails, RetryLeft, AgentAt, RetriesAgree
    <3>2. QED BY <2>1, <3>1 DEF RowRetried
  <2>2. CASE ~ RowRetried(a)
    <3>1. row'[a].retry = row[a].retry \/ row'[a].retry = 0
      BY <2>2, RowStep DEF RowMoves, RowKept, RowEnds, RowLocked, RowDone, RowWritten,
                           AbsentRow, NewRow
    <3>2. QED BY <3>1 DEF RetriesAgree
  <2>3. QED BY <2>1, <2>2
<1>2. ASSUME agent'.stage \in {"fetching", "extracting"}, agent'.article = a,
             row'[a].status = "Fetching"
      PROVE agent'.retry = row'[a].retry
  <2>1. CASE Lock(a)
    <3>1. agent'.retry = row[a].retry
      BY <2>1 DEF Lock
    <3>2. row'[a].retry = row[a].retry
      BY <2>1, <1>2 DEF Lock, WithoutCancelled, TypeOK, Row
    <3>3. QED BY <3>1, <3>2
  <2>2. CASE ~ Lock(a)
    <3>1. row'[a] = row[a]
      BY <1>2, <2>2, RowStep DEF RowMoves, RowRetried, RowKept, RowEnds, RowLocked,
                                 RowDone, RowWritten, AbsentRow, NewRow
    <3>2. /\ agent.stage \in {"fetching", "extracting"}
          /\ agent'.article = agent.article /\ agent'.retry = agent.retry
      <4>1. CASE UNCHANGED agent
        BY <1>2, <4>1
      <4>2. CASE Fetched
        <5>1. agent.stage = "fetching" /\ agent \in Agent
          BY <4>2, Kinds DEF Fetched, AgentAt
        <5>2. QED BY <1>2, <4>2, <5>1 DEF Fetched, AgentGoes, AgentRests, IdleAgent, Agent
      <4>3. CASE \E b \in Articles : Lock(b)
        BY <1>2, <2>2, <4>3 DEF Lock
      <4>4. CASE FailsForGood \/ MarkDone
        <5>1. agent.stage # "idle" /\ agent \in Agent
          BY <4>4, Kinds DEF FailsForGood, MarkDone, AgentAt
        <5>2. agent'.stage \in {"failing", "sending", "idle"}
          BY <4>4, <5>1 DEF FailsForGood, MarkDone, AgentGoes, AgentRests, IdleAgent, Agent
        <5>3. QED BY <1>2, <5>2
      <4>5. CASE SendPart
        <5>1. agent.stage = "sending" /\ agent \in Agent
          BY <4>5, Kinds DEF SendPart, AgentAt
        <5>2. agent'.stage \in {"sending", "idle"}
          BY <4>5, <5>1 DEF SendPart, AgentRests, IdleAgent, Agent
        <5>3. QED BY <1>2, <5>2
      <4>6. CASE FetchFails \/ SendFailure \/ Panic \/ Restart
        BY <1>2, <4>6 DEF FetchFails, SendFailure, Panic, Restart, AgentRests, IdleAgent
      <4>7. QED
        <5>1. CASE UNCHANGED vars
          BY <4>1, <5>1 DEF vars
        <5>2. CASE Next
          <6>1. ASSUME NEW s \in Submitters, Submit(s) \/ SubmitFails(s) \/ Abandon(s)
                PROVE UNCHANGED agent
            BY <6>1 DEF Submit, Create, CheckStatus, Enqueue, SubmitFails, Abandon
          <6>2. ASSUME NEW s \in Hooks, NEW b \in Articles, Receive(s, b)
                PROVE UNCHANGED agent
            BY <6>2 DEF Receive
          <6>3. ASSUME NEW b \in Articles,
                       Poll(b) \/ Sweep(b) \/ BackoffEnds(b) \/ Review(b)
                         \/ Cancel(b) \/ Rerun(b)
                PROVE UNCHANGED agent
            BY <6>3 DEF Poll, Sweep, BackoffEnds, Review, Cancel, Rerun
          <6>4. ASSUME LockNone \/ Ingests \/ IngestFails PROVE UNCHANGED agent
            BY <6>4 DEF LockNone, Ingests, IngestFailure, Adopt, Store, IngestFails
          <6>5. QED BY <5>2, <6>1, <6>2, <6>3, <6>4, <4>1, <4>2, <4>3, <4>4, <4>5, <4>6
                    DEF Next, Works
        <5>3. QED BY <5>1, <5>2
    <3>3. QED BY <1>2, <3>1, <3>2 DEF RetriesAgree
  <2>3. QED BY <2>1, <2>2
<1>3. QED BY <1>1, <1>2

LEMMA InitIInv == Init => IInv
<1> SUFFICES ASSUME Init PROVE IInv
  OBVIOUS
<1>1. TypeOK
  <2>1. ps \in [Articles -> Patchset] /\ row \in [Articles -> Row]
    BY DEF Init, Patchset, PatchsetStatus, Reasons, AbsentRow, Row, RowStatus
  <2>2. channel \in Seq(Event)
    BY EmptySeq DEF Init
  <2>3. QED BY <2>1, <2>2 DEF Init, TypeOK
<1>2. PlaceholderFirst
  BY DEF Init, PlaceholderFirst, AbsentRow, IdleSub
<1>3. DoneBacksFetching
  BY DEF Init, DoneBacksFetching
<1>4. RetriesAgree
  BY DEF Init, RetriesAgree, AbsentRow, IdleAgent
<1>5. QED BY <1>1, <1>2, <1>3, <1>4 DEF IInv

LEMMA IInvStep == IInv /\ [Next]_vars => IInv'
BY TypesStep, PlaceholderStep, DoneBacksStep, RetriesStep DEF IInv

-----------------------------------------------------------------------------
(* In every reachable state the variables have their types, a row has its  *)
(* patchset, a fetch that is Done under a placeholder has parts on their   *)
(* way, and the agent's count of retries agrees with the row's.            *)
THEOREM FetchQueueInvariant == Spec => []IInv
<1>1. QED BY InitIInv, IInvStep, PTL DEF Spec

(* has_forge_pr_head_ingested may take a Done row under a placeholder for  *)
(* a pull request whose parts are coming.                                  *)
THEOREM DoneIsOnItsWay == Spec => []DoneBacksFetching
<1>1. IInv => DoneBacksFetching
  BY DEF IInv
<1>2. QED BY <1>1, FetchQueueInvariant, PTL

(* handle_db_fetch_error compares a count that is still the row's, and     *)
(* gives no row more than max_retries attempts.                            *)
THEOREM RetriesAreBounded == Spec => []RetriesAgree
<1>1. IInv => RetriesAgree
  BY DEF IInv
<1>2. QED BY <1>1, FetchQueueInvariant, PTL

(* A patchset that is handed over, that failed with all its parts or that  *)
(* was cancelled changes its status only by a submission, a person or the  *)
(* review.                                                                 *)
THEOREM DecidedIsFinal == Spec => DecidedStays
<1> DEFINE Stays ==
      \A a \in Articles :
          Decided(a) /\ ps'[a].status # ps[a].status =>
              \/ Cancel(a) \/ Rerun(a) \/ Review(a)
              \/ \E s \in Submitters : Create(s) /\ sub[s].article = a
<1>1. IInv /\ [Next]_vars => Stays
  <2> SUFFICES ASSUME TypeOK, [Next]_vars, NEW a \in Articles,
                      Decided(a), ps'[a].status # ps[a].status
               PROVE  \/ Cancel(a) \/ Rerun(a) \/ Review(a)
                      \/ \E s \in Submitters : Create(s) /\ sub[s].article = a
    BY DEF IInv
  <2>1. StatusMoves(a)
    BY StatusStep
  <2>2. StatusNew(a) \/ StatusByPeople(a)
    BY <2>1 DEF StatusMoves, StatusKept, StatusByFetch
  <2>3. QED BY <2>2 DEF StatusNew, StatusByPeople
<1>2. QED BY <1>1, FetchQueueInvariant, PTL DEF Spec, DecidedStays

(* What a step does to a status is one of the moves that are agreed.       *)
LEMMA MoveIsAgreed ==
  ASSUME TypeOK, NEW b \in Articles, StatusMoves(b)
  PROVE  Life!Move(b)
<1>1. ps[b].status \in PatchsetStatus
  BY DEF TypeOK, Patchset
<1>2. CASE StatusKept(b)
  BY <1>2 DEF StatusKept, StatusOf, Life!Move, Life!Rest
<1>3. CASE StatusNew(b)
  <2>1. \/ ps'[b].status = ps[b].status
        \/ /\ ps[b].status \in {"none", "Failed", "Fetching", "Cancelled"}
           /\ ps'[b].status = "Fetching"
    BY <1>3 DEF StatusNew, Create
  <2>2. QED BY <2>1 DEF StatusOf, Life!Move, Life!Rest, Life!Submit, Life!From
<1>4. CASE StatusByPeople(b)
  <2>1. CASE Cancel(b)
    BY <2>1 DEF Cancel, SetStatus, TypeOK, Patchset, StatusOf, Life!Move,
                Life!Cancel, Life!From
  <2>2. CASE Rerun(b)
    BY <2>2 DEF Rerun, TypeOK, Patchset, StatusOf, Life!Move, Life!Rerun
  <2>3. CASE Review(b)
    BY <2>3 DEF Review, SetStatus, Fail, TypeOK, Patchset, StatusOf, Life!Move,
                Life!Decide, Life!From
  <2>4. QED BY <1>4, <2>1, <2>2, <2>3 DEF StatusByPeople
<1>5. CASE StatusByFetch(b)
  BY <1>1, <1>5 DEF StatusByFetch, Decided, PatchsetStatus, StatusOf, Life!Move,
                    Life!Collect, Life!From
<1>6. QED BY <1>2, <1>3, <1>4, <1>5 DEF StatusMoves

(* Submissions, fetches, failures, parts that are read late and restarts   *)
(* move the status of a patchset only as the review expects them to.       *)
THEOREM FetchesMoveAsAgreed == Spec => MovesAsAgreed
<1>1. Init => Life!Init
  BY DEF Init, StatusOf, Life!Init
<1>2. TypeOK /\ [Next]_vars => [Life!Next]_StatusOf
  BY StatusStep, MoveIsAgreed DEF Life!Next
<1>3. IInv => TypeOK
  BY DEF IInv
<1>4. QED
  BY <1>1, <1>2, <1>3, FetchQueueInvariant, PTL
     DEF Spec, MovesAsAgreed, Life!Spec
=============================================================================
