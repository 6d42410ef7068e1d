---------------------------- MODULE FixCheckProofs ----------------------------
(***************************************************************************)
(* Proofs about FixCheck, for any bugs, workers, commits, limits and       *)
(* faults.  The invariant is shown to be kept action by action.  What the  *)
(* actions have in common comes first: how rows are moved behind others,   *)
(* what is known of a bug's commits, and how a sweep leaves a session.     *)
(***************************************************************************)
EXTENDS FixCheck, TLAPS

USE DEF Elsewhere, NoLease, Life, Stage

-----------------------------------------------------------------------------
(* What the actions have in common.                                        *)

(* An update leaves every bug with a set of bugs before it.                *)
LEMMA UpdatedType ==
  ASSUME TypeOK, NEW S, S \subseteq Bugs, Updated(S)
  PROVE  ahead' \in [Bugs -> SUBSET Bugs]
  BY DEF TypeOK, Updated

(* Cursors only lose bugs.                                                 *)
LEMMA PassedType ==
  ASSUME TypeOK, NEW S, passed' = [x \in Workers |-> passed[x] \ S]
  PROVE  passed' \in [Workers -> SUBSET Bugs]
  BY DEF TypeOK

(* What is known stays known.                                              *)
LEMMA KnownMore ==
  ASSUME NEW b, NEW m, NEW S, NEW T, S \subseteq T, KnownUpTo(b, m, S)
  PROVE  KnownUpTo(b, m, T)
  BY DEF KnownUpTo

(* A range begins where the knowledge ends.                                *)
LEMMA KnownWithCandidates ==
  ASSUME TypeOK, NEW b \in Bugs, NEW m \in 0..MaxHead, NEW S,
         KnownUpTo(b, verified[b], S), OnMainline(b, m)
  PROVE  KnownUpTo(b, m, S \cup Candidates(b, m))
  BY FixCheckAssumption DEF TypeOK, KnownUpTo, OnMainline, Candidates

LEMMA CandidatesType ==
  ASSUME NEW b \in Bugs, NEW m
  PROVE  Candidates(b, m) \in SUBSET (1..MaxHead)
  BY FixCheckAssumption DEF Candidates

(* Nobody loses a reading by a step that keeps the sweeps' data and        *)
(* forgets no examined commit.                                             *)
LEMMA SameReadings ==
  ASSUME ReadingsHold,
         \A x \in Workers, c \in Bugs :
            /\ c \in untouched'[x] =>
                  c \in untouched[x] /\ main'[x] = main[x]
            /\ queue'[x][c] # {} =>
                  queue'[x][c] = queue[x][c] /\ main'[x] = main[x],
         \A c \in Bugs : examined[c] \subseteq examined'[c]
  PROVE  ReadingsHold'
<1> SUFFICES ASSUME NEW x \in Workers, NEW c \in Bugs
             PROVE  /\ c \in untouched'[x] =>
                          KnownUpTo(c, main'[x], examined'[c])
                    /\ queue'[x][c] # {} =>
                          KnownUpTo(c, main'[x], examined'[c] \cup queue'[x][c])
  BY DEF ReadingsHold, KnownUpTo
<1>1. examined[c] \subseteq examined'[c]
      /\ examined[c] \cup queue[x][c] \subseteq examined'[c] \cup queue[x][c]
  OBVIOUS
<1>2. ASSUME c \in untouched'[x] PROVE KnownUpTo(c, main'[x], examined'[c])
  <2>1. KnownUpTo(c, main[x], examined[c]) /\ main'[x] = main[x]
    BY <1>2 DEF ReadingsHold
  <2> QED BY <1>1, <2>1, KnownMore
<1>3. ASSUME queue'[x][c] # {}
      PROVE  KnownUpTo(c, main'[x], examined'[c] \cup queue'[x][c])
  <2>1. KnownUpTo(c, main[x], examined[c] \cup queue[x][c])
        /\ main'[x] = main[x] /\ queue'[x][c] = queue[x][c]
    BY <1>3 DEF ReadingsHold
  <2> QED BY <1>1, <2>1, KnownMore
<1> QED BY <1>2, <1>3

(* The data of the sweeps after one of them has done with a queued bug.    *)
DequeueResult(w, b) ==
    /\ pc' \in [Workers -> Stage]
    /\ main' \in [Workers -> 0..MaxHead]
    /\ queue' \in [Workers -> [Bugs -> SUBSET (1..MaxHead)]]
    /\ pc'[w] \in {"idle", "claiming"}
    /\ main'[w] \in {0, main[w]}
    /\ queue'[w][b] = {}
    /\ pc'[w] = "idle" => \A c \in Bugs : queue'[w][c] = {}
    /\ pc'[w] # "idle" => main'[w] = main[w]
    /\ \A c \in Bugs : c # b => queue'[w][c] = queue[w][c]
    /\ \A x \in Workers : x # w =>
          pc'[x] = pc[x] /\ main'[x] = main[x] /\ queue'[x] = queue[x]

LEMMA DequeueWrites ==
  ASSUME TypeOK, NEW w \in Workers, NEW b \in Bugs, Dequeue(w, b)
  PROVE  DequeueResult(w, b)
<1>1. main' \in [Workers -> 0..MaxHead]
  BY FixCheckAssumption DEF TypeOK, Dequeue, TakeNext
<1>2. queue' \in [Workers -> [Bugs -> SUBSET (1..MaxHead)]]
  BY DEF TypeOK, Dequeue
<1>3. queue'[w][b] = {} /\ \A c \in Bugs : c # b => queue'[w][c] = queue[w][c]
  BY DEF TypeOK, Dequeue
<1>4. \A x \in Workers : x # w =>
          pc'[x] = pc[x] /\ main'[x] = main[x] /\ queue'[x] = queue[x]
  BY DEF TypeOK, Dequeue, TakeNext
<1>5. CASE Queued(w) \ {b} = {}
  <2>1. pc' = [pc EXCEPT ![w] = "idle"] /\ main' = [main EXCEPT ![w] = 0]
    BY <1>5 DEF Dequeue, TakeNext
  <2>2. \A c \in Bugs : queue'[w][c] = {}
    BY <1>3, <1>5 DEF Queued
  <2> QED BY <1>1, <1>2, <1>3, <1>4, <2>1, <2>2 DEF TypeOK, DequeueResult
<1>6. CASE Queued(w) \ {b} # {}
  <2>1. pc' = [pc EXCEPT ![w] = "claiming"] /\ main' = [main EXCEPT ![w] = main[w]]
    BY <1>6 DEF Dequeue, TakeNext
  <2> QED BY <1>1, <1>2, <1>3, <1>4, <2>1 DEF TypeOK, DequeueResult
<1> QED BY <1>5, <1>6

(* The sweep lets go of its session: what it holds, and what the others    *)
(* hold, stays as it should be.                                            *)
LEMMA LeaveScans ==
  ASSUME TypeOK, SweepShape, NEW w \in Workers, NEW b \in Bugs, session[w] = b,
         Leave(w, b), UNCHANGED <<head, left, untouched, skipped>>,
         \A c \in Bugs : life[c] # "absent" => life'[c] # "absent"
  PROVE  SweepShape'
<1>1. DequeueResult(w, b) BY DequeueWrites DEF Leave
<1>2. session'[w] = NoBug /\ \A x \in Workers : x # w => session'[x] = session[x]
  BY DEF Leave, TypeOK
<1>3. pc[w] = "session" /\ untouched[w] = {}
  BY FixCheckAssumption DEF SweepShape
<1>4. main[w] \in 0..MaxHead /\ head \in 0..MaxHead BY DEF TypeOK
<1> SUFFICES ASSUME NEW x \in Workers
             PROVE  /\ main'[x] <= head'
                    /\ pc'[x] # "listing" => untouched'[x] = {}
                    /\ pc'[x] = "idle" => \A c \in Bugs : queue'[x][c] = {}
                    /\ pc'[x] = "session" <=> session'[x] # NoBug
                    /\ \A c \in Bugs : session'[x] = c => queue'[x][c] # {}
                    /\ \A c \in Bugs : queue'[x][c] # {} => life'[c] # "absent"
  BY DEF SweepShape
<1>5. CASE x = w
  <2>1. main'[w] <= head
    BY <1>1, <1>4 DEF DequeueResult, SweepShape
  <2>2. pc'[w] # "session" /\ pc'[w] # "listing"
        /\ (pc'[w] = "idle" => \A c \in Bugs : queue'[w][c] = {})
    BY <1>1 DEF DequeueResult
  <2>3. \A c \in Bugs : queue'[w][c] # {} => life'[c] # "absent"
    BY <1>1 DEF DequeueResult, SweepShape
  <2> QED BY <1>2, <1>3, <1>5, <2>1, <2>2, <2>3, FixCheckAssumption
<1>6. CASE x # w
  BY <1>1, <1>2, <1>6 DEF DequeueResult, SweepShape
<1> QED BY <1>5, <1>6

LEMMA DequeueReadings ==
  ASSUME TypeOK, SweepShape, ReadingsHold, NEW w \in Workers, NEW b \in Bugs,
         Dequeue(w, b), pc[w] # "listing", untouched' = untouched,
         \A c \in Bugs : examined[c] \subseteq examined'[c]
  PROVE  ReadingsHold'
<1>1. DequeueResult(w, b) BY DequeueWrites
<1>2. untouched[w] = {} BY DEF SweepShape
<1>3. ASSUME NEW x \in Workers, NEW c \in Bugs
      PROVE  /\ c \in untouched'[x] => c \in untouched[x] /\ main'[x] = main[x]
             /\ queue'[x][c] # {} =>
                   queue'[x][c] = queue[x][c] /\ main'[x] = main[x]
  BY <1>1, <1>2 DEF DequeueResult
<1> QED BY <1>3, SameReadings

-----------------------------------------------------------------------------
(* The actions.                                                            *)

LEMMA StartKeeps ==
  ASSUME IInv, NEW w \in Workers, Start(w)
  PROVE  IInv'
<1>1. TypeOK'
  BY FixCheckAssumption, UpdatedType DEF IInv, TypeOK, Start, rowVars, scanVars, historyVars
<1>2. SweepShape'
  BY FixCheckAssumption DEF IInv, SweepShape, TypeOK, Start, rowVars, scanVars, historyVars
<1>3. NothingSkipped'
  BY DEF IInv, NothingSkipped, TypeOK, Start, rowVars, scanVars, historyVars
<1>4. ReadingsHold'
  <2>1. untouched[w] = {} /\ \A c \in Bugs : queue[w][c] = {}
    BY DEF IInv, SweepShape, Start
  <2>2. \A x \in Workers : x # w => main'[x] = main[x]
    BY DEF IInv, TypeOK, Start
  <2> QED BY <2>1, <2>2, SameReadings DEF IInv, Start, historyVars
<1>5. SessionsUndisturbed'
  BY FixCheckAssumption DEF IInv, SessionsUndisturbed, SweepShape, TypeOK, Start, rowVars, scanVars, historyVars
<1>6. PeopleDecide'
  BY DEF IInv, PeopleDecide, TypeOK, Start, rowVars, scanVars, historyVars
<1> QED BY <1>1, <1>2, <1>3, <1>4, <1>5, <1>6 DEF IInv

(* What a sweep makes of the rows of a chunk.                              *)
ListResult(w) ==
    /\ pc[w] = "listing" /\ untouched[w] = {}
    /\ left' \in [Workers -> 0..MaxChunks]
    /\ passed' \in [Workers -> SUBSET Bugs]
    /\ untouched' \in [Workers -> SUBSET Bugs]
    /\ skipped' \in [Workers -> SUBSET Bugs]
    /\ queue' \in [Workers -> [Bugs -> SUBSET (1..MaxHead)]]
    /\ faults' \in 0..MaxFaults
    /\ \A c \in untouched'[w] :
          OnMainline(c, main[w]) /\ Candidates(c, main[w]) = {}
    /\ \A c \in Bugs : queue'[w][c] = queue[w][c]
          \/ /\ queue'[w][c] = Candidates(c, main[w])
             /\ OnMainline(c, main[w]) /\ life[c] = "open"
    /\ \A x \in Workers : x # w =>
          untouched'[x] = untouched[x] /\ queue'[x] = queue[x]
    /\ UNCHANGED <<head, rowVars, pc, main, session, historyVars>>

LEMMA ListWrites ==
  ASSUME TypeOK, NEW w \in Workers, NEW F \in SUBSET Bugs, List(w, F)
  PROVE  ListResult(w)
<1> DEFINE C == Chunk(w)
           hit == {b \in C \ F : OnMainline(b, main[w])
                                   /\ Candidates(b, main[w]) # {}}
           late == {b \in C : Cardinality(hit \cap ahead[b])
                                  + Cardinality(Queued(w)) >= BatchSize}
           off == {b \in C : b \in F \/ ~OnMainline(b, main[w])}
           new == [b \in Bugs |-> IF b \in hit \ late
                                    THEN Candidates(b, main[w]) ELSE queue[w][b]]
<1>1. PICK D \in SUBSET late :
         /\ untouched' = [untouched EXCEPT ![w] = (C \ hit) \ (off \cup D)]
         /\ skipped' = [skipped EXCEPT ![w] = off \ D]
  BY DEF List
<1>2. /\ pc[w] = "listing" /\ untouched[w] = {} /\ left[w] > 0
      /\ left' = [left EXCEPT ![w] = @ - 1]
      /\ passed' = [passed EXCEPT ![w] = @ \cup C \cup UNION {ahead[b] : b \in C}]
      /\ queue' = [queue EXCEPT ![w] = new]
      /\ faults' = faults \/ (faults < MaxFaults /\ faults' = faults + 1)
      /\ UNCHANGED <<head, rowVars, pc, main, session, historyVars>>
  BY DEF List, Flushed
<1>3. C \subseteq {b \in Bugs : life[b] = "open"}
  BY DEF Chunk, Listed, Checkable
<1>4. off \subseteq C /\ hit \subseteq {b \in C : OnMainline(b, main[w])}
      /\ \A b \in (C \ hit) \ off :
            OnMainline(b, main[w]) /\ Candidates(b, main[w]) = {}
  OBVIOUS
<1>5. new \in [Bugs -> SUBSET (1..MaxHead)]
      /\ \A c \in Bugs : new[c] = queue[w][c]
            \/ (c \in hit /\ new[c] = Candidates(c, main[w]))
  BY CandidatesType DEF TypeOK
<1>6. ahead \in [Bugs -> SUBSET Bugs] BY DEF TypeOK
<1>7. C \cup UNION {ahead[b] : b \in C} \subseteq Bugs
  BY <1>3, <1>6
<1> HIDE DEF C, hit, late, off, new
<1>8. /\ untouched' \in [Workers -> SUBSET Bugs]
      /\ skipped' \in [Workers -> SUBSET Bugs]
  BY <1>1, <1>3, <1>4 DEF TypeOK
<1>9. passed' \in [Workers -> SUBSET Bugs]
  <2> DEFINE P == UNION {ahead[b] : b \in C}
  <2>1. C \cup P \subseteq Bugs BY <1>7
  <2>2. passed' = [passed EXCEPT ![w] = @ \cup C \cup P] BY <1>2
  <2> HIDE DEF P
  <2> QED BY <2>1, <2>2 DEF TypeOK
<1>10. left' \in [Workers -> 0..MaxChunks] /\ faults' \in 0..MaxFaults
  BY <1>2, FixCheckAssumption DEF TypeOK
<1>11. queue' \in [Workers -> [Bugs -> SUBSET (1..MaxHead)]] /\ queue'[w] = new
  BY <1>2, <1>5 DEF TypeOK
<1>12. \A x \in Workers : x # w =>
          untouched'[x] = untouched[x] /\ queue'[x] = queue[x]
  BY <1>1, <1>2 DEF TypeOK
<1>13. untouched'[w] \subseteq (C \ hit) \ off
  BY <1>1 DEF TypeOK
<1>14. \A c \in untouched'[w] :
          OnMainline(c, main[w]) /\ Candidates(c, main[w]) = {}
  BY <1>4, <1>13
<1>15. \A c \in Bugs : queue'[w][c] = queue[w][c]
          \/ /\ queue'[w][c] = Candidates(c, main[w])
             /\ OnMainline(c, main[w]) /\ life[c] = "open"
  BY <1>3, <1>4, <1>5, <1>11
<1> QED BY <1>2, <1>8, <1>9, <1>10, <1>11, <1>12, <1>14, <1>15 DEF ListResult

LEMMA ListKeeps ==
  ASSUME IInv, NEW w \in Workers, NEW F \in SUBSET Bugs, List(w, F)
  PROVE  IInv'
<1>0. ListResult(w) BY ListWrites DEF IInv
<1>1. TypeOK'
  BY <1>0 DEF IInv, TypeOK, ListResult, rowVars, historyVars
<1>2. SweepShape'
  <2> SUFFICES ASSUME NEW x \in Workers
               PROVE  /\ main[x] <= head
                      /\ pc[x] # "listing" => untouched'[x] = {}
                      /\ pc[x] = "idle" => \A c \in Bugs : queue'[x][c] = {}
                      /\ pc[x] = "session" <=> session[x] # NoBug
                      /\ \A c \in Bugs : session[x] = c => queue'[x][c] # {}
                      /\ \A c \in Bugs : queue'[x][c] # {} => life[c] # "absent"
    BY <1>0 DEF SweepShape, ListResult, rowVars, historyVars
  <2>1. CASE x = w
    BY <1>0, <2>1, FixCheckAssumption DEF IInv, SweepShape, ListResult
  <2>2. CASE x # w
    BY <1>0, <2>2 DEF IInv, SweepShape, ListResult
  <2> QED BY <2>1, <2>2
<1>3. NothingSkipped'
  BY <1>0 DEF IInv, NothingSkipped, ListResult, rowVars, historyVars
<1>4. ReadingsHold'
  <2> SUFFICES ASSUME NEW x \in Workers, NEW c \in Bugs
               PROVE  /\ c \in untouched'[x] => KnownUpTo(c, main[x], examined[c])
                      /\ queue'[x][c] # {} =>
                            KnownUpTo(c, main[x], examined[c] \cup queue'[x][c])
    BY <1>0 DEF ReadingsHold, KnownUpTo, ListResult, rowVars, historyVars
  <2>1. CASE x # w BY <1>0, <2>1 DEF IInv, ReadingsHold, ListResult
  <2>2. main[w] \in 0..MaxHead BY DEF IInv, TypeOK
  <2>3. KnownUpTo(c, verified[c], examined[c]) BY DEF IInv, NothingSkipped
  <2>4. OnMainline(c, main[w]) =>
           KnownUpTo(c, main[w], examined[c] \cup Candidates(c, main[w]))
    BY <2>2, <2>3, KnownWithCandidates DEF IInv
  <2>5. CASE x = w
    <3>1. ASSUME c \in untouched'[w] PROVE KnownUpTo(c, main[w], examined[c])
      <4>1. OnMainline(c, main[w]) /\ Candidates(c, main[w]) = {}
        BY <1>0, <3>1 DEF ListResult
      <4>2. examined[c] \cup Candidates(c, main[w]) = examined[c] BY <4>1
      <4> QED BY <2>4, <4>1, <4>2
    <3>2. ASSUME queue'[w][c] # {}
          PROVE  KnownUpTo(c, main[w], examined[c] \cup queue'[w][c])
      <4>1. CASE queue'[w][c] = queue[w][c]
        BY <3>2, <4>1 DEF IInv, ReadingsHold
      <4>2. CASE queue'[w][c] = Candidates(c, main[w]) /\ OnMainline(c, main[w])
        BY <2>4, <4>2
      <4> QED BY <1>0, <4>1, <4>2 DEF ListResult
    <3> QED BY <2>5, <3>1, <3>2
  <2> QED BY <2>1, <2>5
<1>5. SessionsUndisturbed'
  BY <1>0 DEF IInv, SessionsUndisturbed, ListResult, rowVars, historyVars
<1>6. PeopleDecide'
  BY <1>0 DEF IInv, PeopleDecide, ListResult, rowVars, historyVars
<1> QED BY <1>1, <1>2, <1>3, <1>4, <1>5, <1>6 DEF IInv

LEMMA ListEndsKeeps ==
  ASSUME IInv, NEW w \in Workers, ListEnds(w)
  PROVE  IInv'
<1>1. TypeOK'
  BY FixCheckAssumption, UpdatedType DEF IInv, TypeOK, ListEnds, TakeNext, Queued, Flushed, rowVars, scanVars, historyVars
<1>2. SweepShape'
  BY FixCheckAssumption DEF IInv, SweepShape, TypeOK, ListEnds, TakeNext, Queued, Flushed, rowVars, scanVars, historyVars
<1>3. NothingSkipped'
  BY DEF IInv, NothingSkipped, TypeOK, ListEnds, TakeNext, Queued, Flushed, rowVars, scanVars, historyVars
<1>4. ReadingsHold'
  <2>1. untouched[w] = {} BY DEF ListEnds, Flushed
  <2>2. \A x \in Workers : x # w => main'[x] = main[x]
    BY DEF IInv, TypeOK, ListEnds, TakeNext
  <2>3. (\E c \in Bugs : queue[w][c] # {}) => main'[w] = main[w]
    BY DEF IInv, TypeOK, ListEnds, TakeNext, Queued
  <2> QED BY <2>1, <2>2, <2>3, SameReadings DEF IInv, ListEnds, historyVars
<1>5. SessionsUndisturbed'
  BY FixCheckAssumption DEF IInv, SessionsUndisturbed, SweepShape, TypeOK, ListEnds, TakeNext, Queued, Flushed, rowVars, scanVars, historyVars
<1>6. PeopleDecide'
  BY DEF IInv, PeopleDecide, TypeOK, ListEnds, TakeNext, Queued, Flushed, rowVars, scanVars, historyVars
<1> QED BY <1>1, <1>2, <1>3, <1>4, <1>5, <1>6 DEF IInv

(* The advance leaves other bugs alone, and those it writes are open.      *)
LEMMA AdvanceKeeps ==
  ASSUME IInv, NEW w \in Workers, Advance(w)
  PROVE  IInv'
<1> DEFINE S == {b \in untouched[w] : Advanceable(b, main[w])}
<1>0. S \subseteq {b \in untouched[w] : life[b] = "open" /\ lease[b] <= 0}
      /\ untouched[w] \subseteq Bugs
  BY DEF IInv, TypeOK, Advanceable, Checkable
<1>a. \/ /\ verified' = [b \in Bugs |-> IF b \in S THEN main[w] ELSE verified[b]]
         /\ owner' = [b \in Bugs |-> IF b \in S THEN Nobody ELSE owner[b]]
         /\ lease' = [b \in Bugs |-> IF b \in S THEN NoLease ELSE lease[b]]
         /\ Updated(S)
         /\ passed' = [x \in Workers |-> passed[x] \ S]
         /\ UNCHANGED faults
      \/ /\ faults < MaxFaults /\ faults' = faults + 1
         /\ UNCHANGED <<verified, owner, lease, ahead, passed>>
  BY DEF Advance
<1>b. /\ untouched[w] # {}
      /\ untouched' = [untouched EXCEPT ![w] = {}]
      /\ UNCHANGED <<head, life, pc, main, left, skipped, queue, session,
                     examined, decided>>
  BY DEF Advance, historyVars
<1> HIDE DEF S
<1>c. /\ ahead' \in [Bugs -> SUBSET Bugs]
      /\ passed' \in [Workers -> SUBSET Bugs]
      /\ faults' \in 0..MaxFaults
  BY <1>0, <1>a, UpdatedType, PassedType, FixCheckAssumption DEF IInv, TypeOK
<1>d. verified' \in [Bugs -> -1..MaxHead]
  <2>1. main[w] \in -1..MaxHead /\ verified \in [Bugs -> -1..MaxHead]
    BY FixCheckAssumption DEF IInv, TypeOK
  <2> QED BY <1>a, <2>1
<1>e. /\ owner' \in [Bugs -> Workers \cup {Nobody, Analysis}]
      /\ lease' \in [Bugs -> -2..TTL]
  <2>1. NoLease \in -2..TTL BY FixCheckAssumption
  <2>2. owner \in [Bugs -> Workers \cup {Nobody, Analysis}]
        /\ lease \in [Bugs -> -2..TTL]
    BY DEF IInv, TypeOK
  <2> QED BY <1>a, <2>1, <2>2
<1>1. TypeOK'
  BY <1>b, <1>c, <1>d, <1>e DEF IInv, TypeOK
<1>2. SweepShape'
  BY <1>b DEF IInv, SweepShape, TypeOK
<1>3. NothingSkipped'
  <2> SUFFICES ASSUME NEW b \in Bugs
               PROVE  KnownUpTo(b, verified'[b], examined[b])
    BY <1>b DEF NothingSkipped, KnownUpTo
  <2>1. CASE verified'[b] = verified[b] BY <2>1 DEF IInv, NothingSkipped
  <2>2. CASE b \in S /\ verified'[b] = main[w]
    BY <1>0, <2>2 DEF IInv, ReadingsHold
  <2> QED BY <1>a, <2>1, <2>2
<1>4. ReadingsHold'
  BY <1>b, SameReadings DEF IInv, TypeOK
<1>5. SessionsUndisturbed'
  <2> SUFFICES ASSUME PromptTimers, NEW x \in Workers, NEW c \in Bugs,
                      session[x] = c, life[c] # "duplicate"
               PROVE  owner'[c] = x /\ lease'[c] > 0
    BY <1>b DEF SessionsUndisturbed
  <2>1. owner[c] = x /\ lease[c] > 0 BY DEF IInv, SessionsUndisturbed
  <2>2. lease[c] \in Int BY DEF IInv, TypeOK
  <2>3. c \notin S BY <1>0, <2>1, <2>2
  <2> QED BY <1>a, <2>1, <2>3
<1>6. PeopleDecide'
  BY <1>b DEF IInv, PeopleDecide
<1> QED BY <1>1, <1>2, <1>3, <1>4, <1>5, <1>6 DEF IInv

LEMMA TouchKeeps ==
  ASSUME IInv, NEW w \in Workers, Touch(w)
  PROVE  IInv'
<1> DEFINE S == {b \in skipped[w] : life[b] = "open" /\ lease[b] <= 0}
<1>0. S \subseteq {b \in Bugs : life[b] = "open" /\ lease[b] <= 0}
  BY DEF IInv, TypeOK
<1>a. \/ /\ owner' = [b \in Bugs |-> IF b \in S THEN Nobody ELSE owner[b]]
         /\ lease' = [b \in Bugs |-> IF b \in S THEN Cooldown ELSE lease[b]]
         /\ Updated(S)
         /\ passed' = [x \in Workers |-> passed[x] \ S]
         /\ UNCHANGED faults
      \/ /\ faults < MaxFaults /\ faults' = faults + 1
         /\ UNCHANGED <<owner, lease, ahead, passed>>
  BY DEF Touch
<1>b. /\ skipped' = [skipped EXCEPT ![w] = {}]
      /\ UNCHANGED <<head, life, verified, pc, main, left, untouched, queue,
                     session, examined, decided>>
  BY DEF Touch, historyVars
<1> HIDE DEF S
<1>c. /\ ahead' \in [Bugs -> SUBSET Bugs]
      /\ passed' \in [Workers -> SUBSET Bugs]
      /\ faults' \in 0..MaxFaults
  BY <1>0, <1>a, UpdatedType, PassedType, FixCheckAssumption DEF IInv, TypeOK
<1>d. /\ owner' \in [Bugs -> Workers \cup {Nobody, Analysis}]
      /\ lease' \in [Bugs -> -2..TTL]
  BY <1>a, FixCheckAssumption DEF IInv, TypeOK
<1>1. TypeOK'
  BY <1>b, <1>c, <1>d DEF IInv, TypeOK
<1>2. SweepShape'
  BY <1>b DEF IInv, SweepShape
<1>3. NothingSkipped'
  BY <1>b DEF IInv, NothingSkipped
<1>4. ReadingsHold'
  BY <1>b, SameReadings DEF IInv
<1>5. SessionsUndisturbed'
  <2> SUFFICES ASSUME PromptTimers, NEW x \in Workers, NEW c \in Bugs,
                      session[x] = c, life[c] # "duplicate"
               PROVE  owner'[c] = x /\ lease'[c] > 0
    BY <1>b DEF SessionsUndisturbed
  <2>1. owner[c] = x /\ lease[c] > 0 BY DEF IInv, SessionsUndisturbed
  <2>2. lease[c] \in Int BY DEF IInv, TypeOK
  <2>3. c \notin S BY <1>0, <2>1, <2>2
  <2> QED BY <1>a, <2>1, <2>3
<1>6. PeopleDecide'
  BY <1>b DEF IInv, PeopleDecide
<1> QED BY <1>1, <1>2, <1>3, <1>4, <1>5, <1>6 DEF IInv

LEMMA ClaimKeeps ==
  ASSUME IInv, NEW w \in Workers, NEW b \in Bugs, Claim(w, b)
  PROVE  IInv'
<1>1. TypeOK'
  <2>1. ahead' \in [Bugs -> SUBSET Bugs] /\ passed' \in [Workers -> SUBSET Bugs]
    BY UpdatedType, PassedType DEF IInv, Claim
  <2>2. owner' \in [Bugs -> Workers \cup {Nobody, Analysis}]
        /\ lease' \in [Bugs -> -2..TTL]
    BY FixCheckAssumption DEF IInv, TypeOK, Claim
  <2>3. pc' \in [Workers -> Stage] /\ session' \in [Workers -> Bugs \cup {NoBug}]
    BY DEF IInv, TypeOK, Claim
  <2> QED BY <2>1, <2>2, <2>3 DEF IInv, TypeOK, Claim, historyVars
<1>2. SweepShape'
  BY FixCheckAssumption DEF IInv, SweepShape, TypeOK, Claim, Checkable, Queued, rowVars, historyVars
<1>3. NothingSkipped'
  BY DEF IInv, NothingSkipped, TypeOK, Claim, Checkable, Queued, rowVars, historyVars
<1>4. ReadingsHold'
  BY SameReadings DEF IInv, TypeOK, Claim, Checkable, Queued, rowVars, historyVars
<1>5. SessionsUndisturbed'
  BY FixCheckAssumption DEF IInv, SessionsUndisturbed, SweepShape, TypeOK, Claim, Checkable, Queued, rowVars, historyVars
<1>6. PeopleDecide'
  BY DEF IInv, PeopleDecide, TypeOK, Claim, Checkable, Queued, rowVars, historyVars
<1> QED BY <1>1, <1>2, <1>3, <1>4, <1>5, <1>6 DEF IInv

LEMMA PassKeeps ==
  ASSUME IInv, NEW w \in Workers, NEW b \in Bugs, Pass(w, b)
  PROVE  IInv'
<1>0. DequeueResult(w, b) BY DequeueWrites DEF IInv, Pass
<1>1. TypeOK'
  BY <1>0, FixCheckAssumption
     DEF IInv, TypeOK, Pass, DequeueResult, rowVars, historyVars
<1>2. SweepShape'
  <2> SUFFICES ASSUME NEW x \in Workers
               PROVE  /\ main'[x] <= head
                      /\ pc'[x] # "listing" => untouched[x] = {}
                      /\ pc'[x] = "idle" => \A c \in Bugs : queue'[x][c] = {}
                      /\ pc'[x] = "session" <=> session[x] # NoBug
                      /\ \A c \in Bugs : session[x] = c => queue'[x][c] # {}
                      /\ \A c \in Bugs : queue'[x][c] # {} => life[c] # "absent"
    BY DEF SweepShape, Pass, rowVars
  <2>1. head \in 0..MaxHead /\ main[w] \in 0..MaxHead BY DEF IInv, TypeOK
  <2>2. pc[w] = "claiming" BY DEF Pass
  <2>3. CASE x = w
    <3>1. main'[w] <= head
      BY <1>0, <2>1 DEF IInv, SweepShape, DequeueResult
    <3>2. untouched[w] = {} /\ session[w] = NoBug
      BY <2>2 DEF IInv, SweepShape
    <3>3. pc'[w] # "session"
          /\ (pc'[w] = "idle" => \A c \in Bugs : queue'[w][c] = {})
      BY <1>0 DEF DequeueResult
    <3>4. \A c \in Bugs : queue'[w][c] # {} => life[c] # "absent"
      BY <1>0 DEF IInv, SweepShape, DequeueResult
    <3> QED BY <2>3, <3>1, <3>2, <3>3, <3>4, FixCheckAssumption
  <2>4. CASE x # w
    BY <1>0, <2>4 DEF IInv, SweepShape, DequeueResult
  <2> QED BY <2>3, <2>4
<1>3. NothingSkipped'
  BY DEF IInv, NothingSkipped, Pass, rowVars, historyVars
<1>4. ReadingsHold'
  BY DequeueReadings DEF IInv, Pass, historyVars
<1>5. SessionsUndisturbed'
  BY DEF IInv, SessionsUndisturbed, Pass, rowVars
<1>6. PeopleDecide'
  BY DEF IInv, PeopleDecide, Pass, rowVars, historyVars
<1> QED BY <1>1, <1>2, <1>3, <1>4, <1>5, <1>6 DEF IInv

(* A session that ends without writing its outcome, whatever the reason:   *)
(* the guard of the outcome fails, no outcome is written, or the lease is  *)
(* lost.                                                                   *)
LEMMA LeaveKeeps ==
  ASSUME IInv, NEW w \in Workers, NEW b \in Bugs, session[w] = b, Leave(w, b),
         UNCHANGED <<head, rowVars, left, passed, untouched, skipped, historyVars>>,
         faults' \in 0..MaxFaults
  PROVE  IInv'
<1>0. DequeueResult(w, b) /\ session' = [session EXCEPT ![w] = NoBug]
  BY DequeueWrites DEF IInv, Leave
<1>a. pc[w] = "session" BY FixCheckAssumption DEF IInv, SweepShape
<1>1. TypeOK'
  BY <1>0 DEF IInv, TypeOK, DequeueResult, rowVars, historyVars
<1>2. SweepShape'
  BY LeaveScans DEF IInv, rowVars
<1>3. NothingSkipped'
  BY DEF IInv, NothingSkipped, rowVars, historyVars
<1>4. ReadingsHold'
  BY <1>a, DequeueReadings DEF IInv, Leave, historyVars
<1>5. SessionsUndisturbed'
  BY <1>0, FixCheckAssumption DEF IInv, SessionsUndisturbed, TypeOK, rowVars
<1>6. PeopleDecide'
  BY DEF IInv, PeopleDecide, rowVars, historyVars
<1> QED BY <1>1, <1>2, <1>3, <1>4, <1>5, <1>6 DEF IInv

LEMMA UnwrittenKeeps ==
  ASSUME IInv, NEW w \in Workers, NEW b \in Bugs, Unwritten(w, b)
  PROVE  IInv'
<1>1. faults' \in 0..MaxFaults BY FixCheckAssumption DEF IInv, TypeOK, Unwritten
<1> QED BY <1>1, LeaveKeeps DEF Unwritten

LEMMA LoseLeaseKeeps ==
  ASSUME IInv, NEW w \in Workers, NEW b \in Bugs, LoseLease(w, b)
  PROVE  IInv'
<1>1. faults' \in 0..MaxFaults BY DEF IInv, TypeOK, LoseLease
<1> QED BY <1>1, LeaveKeeps DEF LoseLease

(* An outcome that is written: only this session is about an open bug that *)
(* this worker owns.                                                       *)
LEMMA RecordKeeps ==
  ASSUME IInv, NEW w \in Workers, NEW b \in Bugs, NEW to \in {"open", "fixed"},
         Record(w, b, to)
  PROVE  IInv'
<1>0. session[w] = b /\ Leave(w, b)
      /\ UNCHANGED <<head, left, untouched, skipped, decided, faults>>
  BY DEF Record
<1>1. CASE ~MayRecord(w, b)
  <2>1. UNCHANGED <<rowVars, passed, examined>> BY <1>1 DEF Record
  <2>2. faults' \in 0..MaxFaults BY <1>0 DEF IInv, TypeOK
  <2> QED BY <1>0, <2>1, <2>2, LeaveKeeps DEF historyVars
<1>2. CASE MayRecord(w, b)
  <2>1. /\ life' = [life EXCEPT ![b] = to]
        /\ verified' = [verified EXCEPT ![b] = main[w]]
        /\ owner' = [owner EXCEPT ![b] = Nobody]
        /\ lease' = [lease EXCEPT ![b] = NoLease]
        /\ Updated({b})
        /\ passed' = [x \in Workers |-> passed[x] \ {b}]
        /\ examined' = [examined EXCEPT ![b] = @ \cup queue[w][b]]
    BY <1>2 DEF Record
  <2>2. life[b] = "open" /\ owner[b] = w BY <1>2 DEF MayRecord
  <2>3. DequeueResult(w, b) /\ session' = [session EXCEPT ![w] = NoBug]
    BY <1>0, DequeueWrites DEF IInv, Leave
  <2>4. pc[w] = "session" /\ queue[w][b] # {}
    BY <1>0, FixCheckAssumption DEF IInv, SweepShape
  <2>5. TypeOK'
    <3>1. ahead' \in [Bugs -> SUBSET Bugs] /\ passed' \in [Workers -> SUBSET Bugs]
      BY <2>1, UpdatedType, PassedType DEF IInv
    <3>2. life' \in [Bugs -> Life] /\ verified' \in [Bugs -> -1..MaxHead]
      BY <2>1, FixCheckAssumption DEF IInv, TypeOK
    <3>3. owner' \in [Bugs -> Workers \cup {Nobody, Analysis}]
          /\ lease' \in [Bugs -> -2..TTL]
      BY <2>1, FixCheckAssumption DEF IInv, TypeOK
    <3>4. examined' \in [Bugs -> SUBSET (1..MaxHead)]
      BY <2>1 DEF IInv, TypeOK
    <3>5. session' \in [Workers -> Bugs \cup {NoBug}]
      BY <2>3 DEF IInv, TypeOK
    <3> QED BY <1>0, <2>3, <3>1, <3>2, <3>3, <3>4, <3>5
            DEF IInv, TypeOK, DequeueResult
  <2>6. SweepShape'
    <3>1. \A c \in Bugs : life[c] # "absent" => life'[c] # "absent"
      BY <2>1 DEF IInv, TypeOK
    <3> QED BY <1>0, <3>1, LeaveScans DEF IInv
  <2>7. NothingSkipped'
    <3> SUFFICES ASSUME NEW c \in Bugs
                 PROVE  KnownUpTo(c, verified'[c], examined'[c])
      BY DEF NothingSkipped, KnownUpTo
    <3>1. CASE c = b
      <4>1. KnownUpTo(b, main[w], examined[b] \cup queue[w][b])
        BY <2>4 DEF IInv, ReadingsHold
      <4>2. verified'[b] = main[w] /\ examined'[b] = examined[b] \cup queue[w][b]
        BY <2>1 DEF IInv, TypeOK
      <4> QED BY <3>1, <4>1, <4>2
    <3>2. CASE c # b
      <4>1. verified'[c] = verified[c] /\ examined'[c] = examined[c]
        BY <2>1, <3>2 DEF IInv, TypeOK
      <4> QED BY <4>1 DEF IInv, NothingSkipped
    <3> QED BY <3>1, <3>2
  <2>8. ReadingsHold'
    <3>1. \A c \in Bugs : examined[c] \subseteq examined'[c]
      BY <2>1 DEF IInv, TypeOK
    <3> QED BY <1>0, <2>4, <3>1, DequeueReadings DEF IInv, Leave
  <2>9. SessionsUndisturbed'
    BY <2>1, <2>2, <2>3, FixCheckAssumption DEF IInv, SessionsUndisturbed, TypeOK
  <2>10. PeopleDecide'
    BY <1>0, <2>1, <2>2 DEF IInv, PeopleDecide, TypeOK
  <2> QED BY <2>5, <2>6, <2>7, <2>8, <2>9, <2>10 DEF IInv
<1> QED BY <1>1, <1>2

LEMMA InconclusiveKeeps ==
  ASSUME IInv, NEW w \in Workers, NEW b \in Bugs, Inconclusive(w, b)
  PROVE  IInv'
<1>0. session[w] = b /\ Leave(w, b)
      /\ UNCHANGED <<head, life, verified, left, untouched, skipped,
                     examined, decided, faults>>
  BY DEF Inconclusive, historyVars
<1>1. CASE ~MayRecord(w, b)
  <2>1. UNCHANGED <<owner, lease, ahead, passed>> BY <1>1 DEF Inconclusive
  <2>2. faults' \in 0..MaxFaults BY <1>0 DEF IInv, TypeOK
  <2> QED BY <1>0, <2>1, <2>2, LeaveKeeps DEF rowVars, historyVars
<1>2. CASE MayRecord(w, b)
  <2>1. /\ owner' = [owner EXCEPT ![b] = Nobody]
        /\ lease' = [lease EXCEPT ![b] = Cooldown]
        /\ Updated({b})
        /\ passed' = [x \in Workers |-> passed[x] \ {b}]
    BY <1>2 DEF Inconclusive
  <2>2. life[b] = "open" /\ owner[b] = w BY <1>2 DEF MayRecord
  <2>3. DequeueResult(w, b) /\ session' = [session EXCEPT ![w] = NoBug]
    BY <1>0, DequeueWrites DEF IInv, Leave
  <2>4. pc[w] = "session" BY <1>0, FixCheckAssumption DEF IInv, SweepShape
  <2>5. TypeOK'
    <3>1. ahead' \in [Bugs -> SUBSET Bugs] /\ passed' \in [Workers -> SUBSET Bugs]
      BY <2>1, UpdatedType, PassedType DEF IInv
    <3>2. owner' \in [Bugs -> Workers \cup {Nobody, Analysis}]
          /\ lease' \in [Bugs -> -2..TTL]
      BY <2>1, FixCheckAssumption DEF IInv, TypeOK
    <3>3. session' \in [Workers -> Bugs \cup {NoBug}]
      BY <2>3 DEF IInv, TypeOK
    <3> QED BY <1>0, <2>3, <3>1, <3>2, <3>3 DEF IInv, TypeOK, DequeueResult
  <2>6. SweepShape'
    BY <1>0, LeaveScans DEF IInv
  <2>7. NothingSkipped'
    BY <1>0 DEF IInv, NothingSkipped
  <2>8. ReadingsHold'
    BY <1>0, <2>4, DequeueReadings DEF IInv, Leave
  <2>9. SessionsUndisturbed'
    BY <1>0, <2>1, <2>2, <2>3, FixCheckAssumption
       DEF IInv, SessionsUndisturbed, TypeOK
  <2>10. PeopleDecide'
    BY <1>0 DEF IInv, PeopleDecide
  <2> QED BY <2>5, <2>6, <2>7, <2>8, <2>9, <2>10 DEF IInv
<1> QED BY <1>1, <1>2

LEMMA RenewKeeps ==
  ASSUME IInv, NEW w \in Workers, NEW b \in Bugs, Renew(w, b)
  PROVE  IInv'
<1>1. TypeOK'
  BY FixCheckAssumption, UpdatedType DEF IInv, TypeOK, Renew, Holds, rowVars, scanVars, historyVars
<1>2. SweepShape'
  BY FixCheckAssumption DEF IInv, SweepShape, TypeOK, Renew, Holds, rowVars, scanVars, historyVars
<1>3. NothingSkipped'
  BY DEF IInv, NothingSkipped, TypeOK, Renew, Holds, rowVars, scanVars, historyVars
<1>4. ReadingsHold'
  BY SameReadings DEF IInv, TypeOK, Renew, Holds, rowVars, scanVars, historyVars
<1>5. SessionsUndisturbed'
  BY FixCheckAssumption DEF IInv, SessionsUndisturbed, SweepShape, TypeOK, Renew, Holds, rowVars, scanVars, historyVars
<1>6. PeopleDecide'
  BY DEF IInv, PeopleDecide, TypeOK, Renew, Holds, rowVars, scanVars, historyVars
<1> QED BY <1>1, <1>2, <1>3, <1>4, <1>5, <1>6 DEF IInv

LEMMA CrashKeeps ==
  ASSUME IInv, NEW w \in Workers, Crash(w)
  PROVE  IInv'
<1>1. TypeOK'
  BY FixCheckAssumption, UpdatedType DEF IInv, TypeOK, Crash, rowVars, scanVars, historyVars
<1>2. SweepShape'
  BY FixCheckAssumption DEF IInv, SweepShape, TypeOK, Crash, rowVars, scanVars, historyVars
<1>3. NothingSkipped'
  BY DEF IInv, NothingSkipped, TypeOK, Crash, rowVars, scanVars, historyVars
<1>4. ReadingsHold'
  <2>1. untouched'[w] = {} /\ \A c \in Bugs : queue'[w][c] = {}
    BY DEF IInv, TypeOK, Crash
  <2>2. \A x \in Workers : x # w =>
           main'[x] = main[x] /\ untouched'[x] = untouched[x] /\ queue'[x] = queue[x]
    BY DEF IInv, TypeOK, Crash
  <2> QED BY <2>1, <2>2, SameReadings DEF IInv, Crash, historyVars
<1>5. SessionsUndisturbed'
  BY FixCheckAssumption DEF IInv, SessionsUndisturbed, SweepShape, TypeOK, Crash, rowVars, scanVars, historyVars
<1>6. PeopleDecide'
  BY DEF IInv, PeopleDecide, TypeOK, Crash, rowVars, scanVars, historyVars
<1> QED BY <1>1, <1>2, <1>3, <1>4, <1>5, <1>6 DEF IInv

LEMMA FetchKeeps ==
  ASSUME IInv, Fetch
  PROVE  IInv'
<1>1. TypeOK'
  BY FixCheckAssumption, UpdatedType DEF IInv, TypeOK, Fetch, rowVars, scanVars, historyVars
<1>2. SweepShape'
  BY FixCheckAssumption DEF IInv, SweepShape, TypeOK, Fetch, rowVars, scanVars, historyVars
<1>3. NothingSkipped'
  BY DEF IInv, NothingSkipped, TypeOK, Fetch, rowVars, scanVars, historyVars
<1>4. ReadingsHold'
  BY SameReadings DEF IInv, TypeOK, Fetch, rowVars, scanVars, historyVars
<1>5. SessionsUndisturbed'
  BY FixCheckAssumption DEF IInv, SessionsUndisturbed, SweepShape, TypeOK, Fetch, rowVars, scanVars, historyVars
<1>6. PeopleDecide'
  BY DEF IInv, PeopleDecide, TypeOK, Fetch, rowVars, scanVars, historyVars
<1> QED BY <1>1, <1>2, <1>3, <1>4, <1>5, <1>6 DEF IInv

LEMMA PublishKeeps ==
  ASSUME IInv, NEW b \in Bugs, NEW v \in {Elsewhere} \cup 0..head, Publish(b, v)
  PROVE  IInv'
<1>1. TypeOK'
  BY FixCheckAssumption, UpdatedType DEF IInv, TypeOK, Publish, rowVars, historyVars
<1>2. SweepShape'
  BY FixCheckAssumption DEF IInv, SweepShape, TypeOK, Publish, rowVars, historyVars
<1>3. NothingSkipped'
  <2> SUFFICES ASSUME NEW c \in Bugs
               PROVE  KnownUpTo(c, verified'[c], examined'[c])
    BY DEF NothingSkipped, KnownUpTo
  <2>1. CASE c = b
    <3>1. verified'[b] = v /\ examined'[b] = examined[b] \cup 1..v
      BY DEF IInv, TypeOK, Publish
    <3> QED BY <2>1, <3>1 DEF KnownUpTo
  <2>2. CASE c # b
    <3>1. verified'[c] = verified[c] /\ examined'[c] = examined[c]
      BY <2>2 DEF IInv, TypeOK, Publish
    <3> QED BY <3>1 DEF IInv, NothingSkipped
  <2> QED BY <2>1, <2>2
<1>4. ReadingsHold'
  <2>1. \A c \in Bugs : examined[c] \subseteq examined'[c]
    BY DEF IInv, TypeOK, Publish
  <2> QED BY <2>1, SameReadings DEF IInv, Publish
<1>5. SessionsUndisturbed'
  BY FixCheckAssumption DEF IInv, SessionsUndisturbed, SweepShape, TypeOK, Publish, rowVars, historyVars
<1>6. PeopleDecide'
  BY DEF IInv, PeopleDecide, TypeOK, Publish, rowVars, historyVars
<1> QED BY <1>1, <1>2, <1>3, <1>4, <1>5, <1>6 DEF IInv

LEMMA RenewAnalysisKeeps ==
  ASSUME IInv, NEW b \in Bugs, RenewAnalysis(b)
  PROVE  IInv'
<1>1. TypeOK'
  BY FixCheckAssumption, UpdatedType DEF IInv, TypeOK, RenewAnalysis, rowVars, scanVars, historyVars
<1>2. SweepShape'
  BY FixCheckAssumption DEF IInv, SweepShape, TypeOK, RenewAnalysis, rowVars, scanVars, historyVars
<1>3. NothingSkipped'
  BY DEF IInv, NothingSkipped, TypeOK, RenewAnalysis, rowVars, scanVars, historyVars
<1>4. ReadingsHold'
  BY SameReadings DEF IInv, TypeOK, RenewAnalysis, rowVars, scanVars, historyVars
<1>5. SessionsUndisturbed'
  BY FixCheckAssumption DEF IInv, SessionsUndisturbed, SweepShape, TypeOK, RenewAnalysis, rowVars, scanVars, historyVars
<1>6. PeopleDecide'
  BY DEF IInv, PeopleDecide, TypeOK, RenewAnalysis, rowVars, scanVars, historyVars
<1> QED BY <1>1, <1>2, <1>3, <1>4, <1>5, <1>6 DEF IInv

LEMMA ReleaseKeeps ==
  ASSUME IInv, NEW b \in Bugs, Release(b)
  PROVE  IInv'
<1>1. TypeOK'
  BY FixCheckAssumption, UpdatedType DEF IInv, TypeOK, Release, rowVars, scanVars, historyVars
<1>2. SweepShape'
  BY FixCheckAssumption DEF IInv, SweepShape, TypeOK, Release, rowVars, scanVars, historyVars
<1>3. NothingSkipped'
  BY DEF IInv, NothingSkipped, TypeOK, Release, rowVars, scanVars, historyVars
<1>4. ReadingsHold'
  BY SameReadings DEF IInv, TypeOK, Release, rowVars, scanVars, historyVars
<1>5. SessionsUndisturbed'
  BY FixCheckAssumption DEF IInv, SessionsUndisturbed, SweepShape, TypeOK, Release, rowVars, scanVars, historyVars
<1>6. PeopleDecide'
  BY DEF IInv, PeopleDecide, TypeOK, Release, rowVars, scanVars, historyVars
<1> QED BY <1>1, <1>2, <1>3, <1>4, <1>5, <1>6 DEF IInv

LEMMA CloseKeeps ==
  ASSUME IInv, NEW b \in Bugs, Close(b)
  PROVE  IInv'
<1>1. TypeOK'
  BY FixCheckAssumption, UpdatedType DEF IInv, TypeOK, Close, rowVars, scanVars, historyVars
<1>2. SweepShape'
  BY FixCheckAssumption DEF IInv, SweepShape, TypeOK, Close, rowVars, scanVars, historyVars
<1>3. NothingSkipped'
  BY DEF IInv, NothingSkipped, TypeOK, Close, rowVars, scanVars, historyVars
<1>4. ReadingsHold'
  BY SameReadings DEF IInv, TypeOK, Close, rowVars, scanVars, historyVars
<1>5. SessionsUndisturbed'
  BY FixCheckAssumption DEF IInv, SessionsUndisturbed, SweepShape, TypeOK, Close, rowVars, scanVars, historyVars
<1>6. PeopleDecide'
  BY DEF IInv, PeopleDecide, TypeOK, Close, rowVars, scanVars, historyVars
<1> QED BY <1>1, <1>2, <1>3, <1>4, <1>5, <1>6 DEF IInv

LEMMA MarkDuplicateKeeps ==
  ASSUME IInv, NEW b \in Bugs, MarkDuplicate(b)
  PROVE  IInv'
<1>1. TypeOK'
  BY FixCheckAssumption, UpdatedType DEF IInv, TypeOK, MarkDuplicate, rowVars, scanVars, historyVars
<1>2. SweepShape'
  BY FixCheckAssumption DEF IInv, SweepShape, TypeOK, MarkDuplicate, rowVars, scanVars, historyVars
<1>3. NothingSkipped'
  BY DEF IInv, NothingSkipped, TypeOK, MarkDuplicate, rowVars, scanVars, historyVars
<1>4. ReadingsHold'
  BY SameReadings DEF IInv, TypeOK, MarkDuplicate, rowVars, scanVars, historyVars
<1>5. SessionsUndisturbed'
  BY FixCheckAssumption DEF IInv, SessionsUndisturbed, SweepShape, TypeOK, MarkDuplicate, rowVars, scanVars, historyVars
<1>6. PeopleDecide'
  BY DEF IInv, PeopleDecide, TypeOK, MarkDuplicate, rowVars, scanVars, historyVars
<1> QED BY <1>1, <1>2, <1>3, <1>4, <1>5, <1>6 DEF IInv

LEMMA AssignKeeps ==
  ASSUME IInv, NEW b \in Bugs, Assign(b)
  PROVE  IInv'
<1>1. TypeOK'
  BY FixCheckAssumption, UpdatedType DEF IInv, TypeOK, Assign, rowVars, scanVars, historyVars
<1>2. SweepShape'
  BY FixCheckAssumption DEF IInv, SweepShape, TypeOK, Assign, rowVars, scanVars, historyVars
<1>3. NothingSkipped'
  BY DEF IInv, NothingSkipped, TypeOK, Assign, rowVars, scanVars, historyVars
<1>4. ReadingsHold'
  BY SameReadings DEF IInv, TypeOK, Assign, rowVars, scanVars, historyVars
<1>5. SessionsUndisturbed'
  BY FixCheckAssumption DEF IInv, SessionsUndisturbed, SweepShape, TypeOK, Assign, rowVars, scanVars, historyVars
<1>6. PeopleDecide'
  BY DEF IInv, PeopleDecide, TypeOK, Assign, rowVars, scanVars, historyVars
<1> QED BY <1>1, <1>2, <1>3, <1>4, <1>5, <1>6 DEF IInv

LEMMA TickKeeps ==
  ASSUME IInv, Tick
  PROVE  IInv'
<1>1. TypeOK'
  BY FixCheckAssumption, UpdatedType DEF IInv, TypeOK, Tick, rowVars, scanVars, historyVars
<1>2. SweepShape'
  BY FixCheckAssumption DEF IInv, SweepShape, TypeOK, Tick, rowVars, scanVars, historyVars
<1>3. NothingSkipped'
  BY DEF IInv, NothingSkipped, TypeOK, Tick, rowVars, scanVars, historyVars
<1>4. ReadingsHold'
  BY SameReadings DEF IInv, TypeOK, Tick, rowVars, scanVars, historyVars
<1>5. SessionsUndisturbed'
  <2> SUFFICES ASSUME PromptTimers, NEW w \in Workers, NEW b \in Bugs,
                      session[w] = b, life[b] # "duplicate"
               PROVE  owner[b] = w /\ lease'[b] > 0
    BY DEF SessionsUndisturbed, Tick
  <2>1. owner[b] = w /\ lease[b] > 0
    BY DEF IInv, SessionsUndisturbed
  <2>2. pc[w] = "session" BY FixCheckAssumption DEF IInv, SweepShape
  <2>3. lease[b] > 1 BY <2>1, <2>2 DEF Tick, InTime
  <2>4. lease'[b] = lease[b] - 1 /\ lease[b] \in -2..TTL
    BY <2>1 DEF IInv, TypeOK, Tick
  <2> QED BY <2>1, <2>3, <2>4, FixCheckAssumption
<1>6. PeopleDecide'
  BY DEF IInv, PeopleDecide, TypeOK, Tick, rowVars, scanVars, historyVars
<1> QED BY <1>1, <1>2, <1>3, <1>4, <1>5, <1>6 DEF IInv

LEMMA Initially == Init => IInv
<1> SUFFICES ASSUME Init PROVE IInv
  OBVIOUS
<1>1. TypeOK BY FixCheckAssumption DEF Init, TypeOK
<1>2. SweepShape BY FixCheckAssumption DEF Init, SweepShape
<1>3. NothingSkipped BY DEF Init, NothingSkipped, KnownUpTo
<1>4. ReadingsHold BY DEF Init, ReadingsHold
<1>5. SessionsUndisturbed BY FixCheckAssumption DEF Init, SessionsUndisturbed
<1>6. PeopleDecide BY DEF Init, PeopleDecide
<1> QED BY <1>1, <1>2, <1>3, <1>4, <1>5, <1>6 DEF IInv

LEMMA EveryStep == IInv /\ [Next]_vars => IInv'
<1> SUFFICES ASSUME IInv, [Next]_vars PROVE IInv'
  OBVIOUS
<1>1. ASSUME NEW w \in Workers,
             Start(w) \/ ListEnds(w) \/ Advance(w) \/ Touch(w) \/ Crash(w)
      PROVE  IInv'
  BY <1>1, StartKeeps, ListEndsKeeps, AdvanceKeeps, TouchKeeps, CrashKeeps
<1>2. ASSUME NEW w \in Workers, NEW F \in SUBSET Bugs, List(w, F) PROVE IInv'
  BY <1>2, ListKeeps
<1>3. ASSUME NEW w \in Workers, NEW b \in Bugs,
             Claim(w, b) \/ Pass(w, b) \/ Inconclusive(w, b) \/ Unwritten(w, b)
               \/ LoseLease(w, b) \/ Renew(w, b)
      PROVE  IInv'
  BY <1>3, ClaimKeeps, PassKeeps, InconclusiveKeeps, UnwrittenKeeps,
     LoseLeaseKeeps, RenewKeeps
<1>4. ASSUME NEW w \in Workers, NEW b \in Bugs, NEW to \in {"open", "fixed"},
             Record(w, b, to)
      PROVE  IInv'
  BY <1>4, RecordKeeps
<1>5. ASSUME NEW b \in Bugs, NEW v \in {Elsewhere} \cup 0..head, Publish(b, v)
      PROVE  IInv'
  BY <1>5, PublishKeeps
<1>6. ASSUME NEW b \in Bugs,
             RenewAnalysis(b) \/ Release(b) \/ Close(b) \/ MarkDuplicate(b) \/ Assign(b)
      PROVE  IInv'
  BY <1>6, RenewAnalysisKeeps, ReleaseKeeps, CloseKeeps, MarkDuplicateKeeps, AssignKeeps
<1>7. CASE Fetch \/ Tick BY <1>7, FetchKeeps, TickKeeps
<1>8. CASE UNCHANGED vars
  <2> USE <1>8 DEF vars, rowVars, scanVars, historyVars
  <2>1. TypeOK' BY DEF IInv, TypeOK
  <2>2. SweepShape' BY DEF IInv, SweepShape
  <2>3. NothingSkipped' BY DEF IInv, NothingSkipped
  <2>4. ReadingsHold' BY SameReadings DEF IInv
  <2>5. SessionsUndisturbed' BY DEF IInv, SessionsUndisturbed
  <2>6. PeopleDecide' BY DEF IInv, PeopleDecide
  <2> QED BY <2>1, <2>2, <2>3, <2>4, <2>5, <2>6 DEF IInv
<1> QED BY <1>1, <1>2, <1>3, <1>4, <1>5, <1>6, <1>7, <1>8 DEF Next, SweepStep

(* The inductive invariant: what a sweep has read stays true until it is   *)
(* used, whatever the other sweeps, the maintainers and the clock do       *)
(* (bug_worker.rs 147-590; db.rs 6039-6410).                               *)
THEOREM Invariance == Spec => []IInv
  BY Initially, EveryStep, PTL DEF Spec

(* No commit of the mainline that may fix a bug is passed over: every one  *)
(* up to verified_on_sha was in the analysed tree or was examined.         *)
THEOREM NothingSkippedAlways == Spec => []NothingSkipped
<1>1. IInv => NothingSkipped BY DEF IInv
<1> QED BY <1>1, Invariance, PTL

(* A session with the model keeps its bug to itself while its timers work: *)
(* the guards on the lease in the claim, the batches and the watchdog.     *)
THEOREM SessionsUndisturbedAlways == Spec => []SessionsUndisturbed
<1>1. IInv => SessionsUndisturbed BY DEF IInv
<1> QED BY <1>1, Invariance, PTL

(* The decisions of maintainers are not overwritten by a verdict.          *)
THEOREM PeopleDecideAlways == Spec => []PeopleDecide
<1>1. IInv => PeopleDecide BY DEF IInv
<1> QED BY <1>1, Invariance, PTL

-----------------------------------------------------------------------------
(* What the analysis and the maintainers see.                              *)

(* The bug keeps its status, and nobody that let go of it holds it again.  *)
SameLife(b) == life'[b] = life[b] /\ (Kept(b)' => Kept(b))

LEMMA OutsideValues ==
  ASSUME NEW b \in Bugs
  PROVE  /\ [x \in Bugs |-> LifeOutside(x)][b] = LifeOutside(b)
         /\ [x \in Bugs |-> Kept(x)][b] = Kept(b)
         /\ [x \in Bugs |-> LifeOutside(x)]'[b] = LifeOutside(b)'
         /\ [x \in Bugs |-> Kept(x)]'[b] = Kept(b)'
  OBVIOUS

LEMMA SameLifeMoves ==
  ASSUME NEW b \in Bugs, SameLife(b)
  PROVE  /\ Outside!Rest(b) \/ Outside!LetGo(b)
         /\ Kept(b)' = Kept(b) => Outside!Rest(b)
<1>1. LifeOutside(b)' = LifeOutside(b)
  BY DEF SameLife, LifeOutside
<1>2. CASE Kept(b)' = Kept(b)
  BY <1>1, <1>2, OutsideValues DEF Outside!Rest, Outside!Becomes
<1>3. CASE Kept(b) /\ ~Kept(b)'
  <2>1. life[b] = "open" BY <1>3 DEF Kept
  <2>2. LifeOutside(b) = "open" BY <2>1 DEF LifeOutside
  <2>3. Kept(b)' = FALSE /\ Kept(b)' # Kept(b)
    BY <1>3 DEF Kept
  <2>4. LifeOutside(b)' = "open"
    BY <1>1, <2>2
  <2>5. Outside!LetGo(b)
    BY <2>2, <2>3, <2>4, OutsideValues, Zenon DEF Outside!LetGo, Outside!Becomes
  <2>6. QED BY <2>3, <2>5
<1>4. Kept(b) \in BOOLEAN /\ Kept(b)' \in BOOLEAN
  BY DEF Kept
<1>5. QED BY <1>2, <1>3, <1>4 DEF SameLife

(* A step of a sweep, of its timers, or its end.                           *)
Sweeps == \E w \in Workers :
             SweepStep(w) \/ Crash(w) \/ \E b \in Bugs : Renew(w, b)

(* A sweep leaves a bug as it is, or takes it in the last second of a      *)
(* lease, or fixes it.                                                     *)
LEMMA SweepMoves ==
  ASSUME TypeOK, Sweeps, NEW b \in Bugs
  PROVE  \/ SameLife(b) /\ Kept(b)' = Kept(b)
         \/ SameLife(b) /\ lease[b] = 0
         \/ life[b] = "open" /\ ~Kept(b) /\ life'[b] = "fixed"
<1> DEFINE Goal == \/ SameLife(b) /\ Kept(b)' = Kept(b)
                   \/ SameLife(b) /\ lease[b] = 0
                   \/ life[b] = "open" /\ ~Kept(b) /\ life'[b] = "fixed"
<1> USE FixCheckAssumption
<1>0. lease[b] \in -2..TTL /\ TTL \in Nat
  BY DEF TypeOK
<1>1. CASE UNCHANGED <<life, owner, lease>>
  BY <1>1 DEF SameLife, Kept
<1>2. CASE /\ life'[b] = life[b] /\ owner'[b] # Analysis
           /\ owner[b] # Analysis \/ lease[b] <= 0
  BY <1>0, <1>2 DEF SameLife, Kept
<1>3. ASSUME NEW w \in Workers, Advance(w) \/ Touch(w) PROVE Goal
  <2>1. life' = life /\ \/ UNCHANGED <<owner, lease>>
                        \/ owner'[b] = owner[b] /\ lease'[b] = lease[b]
                        \/ owner'[b] = Nobody /\ lease[b] <= 0
    BY <1>3 DEF Advance, Touch, Advanceable, Checkable, TypeOK
  <2>2. CASE owner'[b] = owner[b] /\ lease'[b] = lease[b]
    BY <2>1, <2>2 DEF SameLife, Kept
  <2>3. CASE owner'[b] = Nobody /\ lease[b] <= 0
    BY <1>2, <2>1, <2>3 DEF Nobody, Analysis
  <2>4. QED BY <1>1, <2>1, <2>2, <2>3
<1>4. ASSUME NEW w \in Workers, NEW x \in Bugs, Claim(w, x) PROVE Goal
  <2>1. life' = life /\ IF b = x THEN owner'[b] = w /\ lease[b] <= 0
                                 ELSE owner'[b] = owner[b] /\ lease'[b] = lease[b]
    BY <1>4 DEF Claim, Checkable, TypeOK
  <2>2. CASE b = x BY <1>2, <2>1, <2>2
  <2>3. CASE b # x BY <2>1, <2>3 DEF SameLife, Kept
  <2>4. QED BY <2>2, <2>3
<1>5. ASSUME NEW w \in Workers, NEW x \in Bugs, NEW to \in {"open", "fixed"},
             Record(w, x, to)
      PROVE  Goal
  <2>1. CASE ~MayRecord(w, x)
    BY <1>1, <1>5, <2>1 DEF Record, rowVars
  <2>2. CASE MayRecord(w, x)
    <3>1. /\ life[x] = "open" /\ owner[x] = w
          /\ life' = [life EXCEPT ![x] = to]
          /\ owner' = [owner EXCEPT ![x] = Nobody]
          /\ lease' = [lease EXCEPT ![x] = NoLease]
      BY <1>5, <2>2 DEF Record, MayRecord
    <3>2. CASE b # x
      BY <3>1, <3>2 DEF SameLife, Kept, TypeOK
    <3>3. CASE b = x /\ to = "open"
      BY <1>2, <3>1, <3>3 DEF TypeOK, Nobody, Analysis
    <3>4. CASE b = x /\ to = "fixed"
      BY <3>1, <3>4 DEF Kept, TypeOK
    <3>5. QED BY <3>2, <3>3, <3>4
  <2>3. QED BY <2>1, <2>2
<1>6. ASSUME NEW w \in Workers, NEW x \in Bugs, Inconclusive(w, x) PROVE Goal
  <2>1. CASE ~MayRecord(w, x)
    BY <1>1, <1>6, <2>1 DEF Inconclusive
  <2>2. CASE MayRecord(w, x)
    <3>1. /\ owner[x] = w /\ life' = life
          /\ owner' = [owner EXCEPT ![x] = Nobody]
          /\ lease' = [lease EXCEPT ![x] = Cooldown]
      BY <1>6, <2>2 DEF Inconclusive, MayRecord
    <3>2. CASE b # x
      BY <3>1, <3>2 DEF SameLife, Kept, TypeOK
    <3>3. CASE b = x
      BY <1>2, <3>1, <3>3 DEF TypeOK, Nobody, Analysis
    <3>4. QED BY <3>2, <3>3
  <2>3. QED BY <2>1, <2>2
<1>7. ASSUME NEW w \in Workers, NEW x \in Bugs, Renew(w, x) PROVE Goal
  <2>1. life' = life /\ owner' = owner /\ lease' = [lease EXCEPT ![x] = TTL]
        /\ owner[x] = w
    BY <1>7 DEF Renew, Holds
  <2>2. CASE b = x BY <1>2, <2>1, <2>2
  <2>3. CASE b # x BY <2>1, <2>3 DEF SameLife, Kept, TypeOK
  <2>4. QED BY <2>2, <2>3
<1>8. ASSUME NEW w \in Workers,
             \/ Start(w) \/ ListEnds(w) \/ Crash(w)
             \/ \E F \in SUBSET Bugs : List(w, F)
             \/ \E x \in Bugs : Pass(w, x) \/ Unwritten(w, x) \/ LoseLease(w, x)
      PROVE  Goal
  BY <1>1, <1>8 DEF Start, ListEnds, Crash, List, Pass, Unwritten, LoseLease, rowVars
<1>9. QED
  BY <1>3, <1>4, <1>5, <1>6, <1>7, <1>8 DEF Sweeps, SweepStep

LEMMA SweepsMoveAsAgreed ==
  ASSUME TypeOK, Sweeps, NEW b \in Bugs
  PROVE  \/ Outside!Rest(b) \/ Outside!Fix(b)
         \/ Outside!LetGo(b) /\ lease[b] = 0
<1>1. CASE SameLife(b) /\ Kept(b)' = Kept(b)
  BY <1>1, SameLifeMoves
<1>2. CASE SameLife(b) /\ lease[b] = 0
  BY <1>2, SameLifeMoves
<1>3. CASE life[b] = "open" /\ ~Kept(b) /\ life'[b] = "fixed"
  <2>1. LifeOutside(b) = "open" /\ LifeOutside(b)' = "fixed" /\ ~Kept(b)'
    BY <1>3 DEF LifeOutside, Kept
  <2>2. QED BY <1>3, <2>1, OutsideValues DEF Outside!Fix, Outside!Becomes
<1>4. QED BY <1>1, <1>2, <1>3, SweepMoves

LEMMA OthersMoveAsAgreed ==
  ASSUME TypeOK, Next, ~Sweeps, NEW b \in Bugs
  PROVE  Outside!Move(b)
<1> USE FixCheckAssumption DEF Outside!Move
<1>1. CASE SameLife(b)
  BY <1>1, SameLifeMoves
<1>2. CASE life'[b] \in {"closed", "duplicate"}
  <2>1. LifeOutside(b)' = "shut" /\ ~Kept(b)'
    BY <1>2 DEF LifeOutside, Kept
  <2>2. QED BY <2>1, OutsideValues DEF Outside!Shut, Outside!Becomes
<1> HIDE DEF Outside!Move
<1>3. ASSUME NEW x \in Bugs, NEW v \in {Elsewhere} \cup 0..head, Publish(x, v)
      PROVE  Outside!Move(b)
  <2>1. /\ life[x] = "absent" /\ life' = [life EXCEPT ![x] = "open"]
        /\ owner' = [owner EXCEPT ![x] = Analysis]
        /\ lease' = [lease EXCEPT ![x] = TTL]
    BY <1>3 DEF Publish
  <2>2. CASE b # x
    BY <1>1, <2>1, <2>2 DEF SameLife, Kept, TypeOK
  <2>3. CASE b = x
    <3>1. LifeOutside(b) = "absent" /\ LifeOutside(b)' = "open" /\ Kept(b)'
      BY <2>1, <2>3 DEF LifeOutside, Kept, TypeOK
    <3>2. QED BY <3>1, OutsideValues DEF Outside!Open, Outside!Becomes, Outside!Move
  <2>4. QED BY <2>2, <2>3
<1>4. ASSUME NEW x \in Bugs, RenewAnalysis(x) \/ Release(x) \/ Assign(x)
      PROVE  Outside!Move(b)
  BY <1>1, <1>4 DEF RenewAnalysis, Release, Assign, SameLife, Kept, TypeOK,
                    Nobody, Analysis
<1>5. ASSUME NEW x \in Bugs, Close(x) \/ MarkDuplicate(x)
      PROVE  Outside!Move(b)
  <2>1. CASE b = x BY <1>2, <1>5, <2>1 DEF Close, MarkDuplicate, TypeOK
  <2>2. CASE b # x
    BY <1>1, <1>5, <2>2 DEF Close, MarkDuplicate, SameLife, Kept, TypeOK
  <2>3. QED BY <2>1, <2>2
<1>6. CASE Fetch
  BY <1>1, <1>6 DEF Fetch, SameLife, Kept, rowVars
<1>7. CASE Tick
  <2>1. /\ life' = life /\ owner' = owner
        /\ lease'[b] >= 0 => lease[b] >= 0
    BY <1>7 DEF Tick, TypeOK
  <2>2. QED BY <1>1, <2>1 DEF SameLife, Kept
<1>8. QED
  BY <1>3, <1>4, <1>5, <1>6, <1>7 DEF Next, Sweeps

(* Sweeps, maintainers and the clock, in any order, do to a bug what       *)
(* attempts count on: a fix is recorded of an open bug that its analysis   *)
(* does not hold, and what a maintainer shut is not opened again           *)
(* (record_upstream_fix_check, db.rs 6280-6410).                           *)
THEOREM FixChecksMoveAsAgreed == Spec => MovesAsAgreed
<1>1. Init => Outside!Init
  <2>1. ASSUME Init, NEW b \in Bugs
        PROVE  LifeOutside(b) = "absent" /\ Kept(b) = FALSE
    BY <2>1 DEF Init, LifeOutside, Kept
  <2>2. QED BY <2>1, Zenon DEF Outside!Init
<1>2. IInv /\ [Next]_vars => [Outside!Next]_(Outside!lifeVars)
  <2> SUFFICES ASSUME IInv, [Next]_vars PROVE [Outside!Next]_(Outside!lifeVars)
    OBVIOUS
  <2>1. CASE Next
    <3>1. ASSUME NEW b \in Bugs PROVE Outside!Move(b)
      BY <2>1, SweepsMoveAsAgreed, OthersMoveAsAgreed DEF IInv, Outside!Move
    <3>2. QED BY <3>1 DEF Outside!Next
  <2>2. CASE UNCHANGED vars
    BY <2>2 DEF vars, rowVars, Outside!lifeVars, LifeOutside, Kept
  <2>3. QED BY <2>1, <2>2
<1>3. QED BY <1>1, <1>2, Invariance, PTL DEF Spec, MovesAsAgreed, Outside!Spec

(* And the sweeps by themselves do no more than BugAnalysis allows them in *)
(* TakeForFixCheck and RecordFix: they take a bug from its analysis in the *)
(* last second of the lease at most, and fix it; they do not open it, shut *)
(* it or hold it for the analysis.                                         *)
THEOREM SweepsOnlyFix ==
  Spec => [][Sweeps => \A b \in Bugs :
                \/ Outside!Rest(b) \/ Outside!Fix(b)
                \/ Outside!LetGo(b) /\ lease[b] = 0]_vars
<1> DEFINE Step == Sweeps => \A b \in Bugs :
                      \/ Outside!Rest(b) \/ Outside!Fix(b)
                      \/ Outside!LetGo(b) /\ lease[b] = 0
<1>1. IInv /\ [Next]_vars => [Step]_vars
  BY SweepsMoveAsAgreed DEF IInv
<1>2. Spec => [][Step]_vars
  <2> HIDE DEF Step
  <2>1. QED BY <1>1, Invariance, PTL DEF Spec
<1>3. QED BY <1>2
=============================================================================
