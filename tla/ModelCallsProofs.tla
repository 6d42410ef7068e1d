--------------------------- MODULE ModelCallsProofs ---------------------------
(***************************************************************************)
(* Proofs about ModelCalls, for any calls, reviews and permits.            *)
(*                                                                         *)
(* The first part is about the tracker alone: what each of its operations  *)
(* does to a balanced budget.  The second says how the counts of calls     *)
(* follow a call that moves.  The third takes the actions one by one.      *)
(***************************************************************************)
EXTENDS ModelCalls, FiniteSetTheorems, TLAPS

-----------------------------------------------------------------------------
(* The tracker.                                                            *)

(* The idle wait, if there is one, has been credited up to t.              *)
Settled(b, t) == b.since = Never \/ b.since = t

LEMMA FlushFields ==
    ASSUME NEW b \in Budget, NEW t \in Nat
    PROVE  /\ Flush(b, t) \in Budget
           /\ Flush(b, t).active = b.active
           /\ Flush(b, t).waiting = b.waiting
           /\ Flush(b, t).activeEnd = b.activeEnd
           /\ IF b.active = 0 /\ b.since # Never /\ t > b.since
              THEN /\ Flush(b, t).deadline = b.deadline + (t - b.since)
                   /\ Flush(b, t).since = t
                   /\ Flush(b, t).credited = t
              ELSE Flush(b, t) = b
<1>1. CASE b.active = 0 /\ b.since # Never /\ t > b.since
  <2>1. b.deadline + (t - b.since) \in Nat
        BY <1>1 DEF Budget, Instant, Never
  <2> DEFINE x == [b EXCEPT !.deadline = b.deadline + (t - b.since)]
  <2>2. /\ x \in Budget /\ x.deadline = b.deadline + (t - b.since)
        /\ x.active = b.active /\ x.waiting = b.waiting /\ x.activeEnd = b.activeEnd
        /\ x.since = b.since
        BY <2>1 DEF Budget
  <2> DEFINE y == [x EXCEPT !.credited = t]
  <2>3. Flush(b, t) = [y EXCEPT !.since = t]
        BY <1>1 DEF Flush, Budget
  <2> HIDE DEF x
  <2>4. /\ y \in Budget /\ y.deadline = x.deadline /\ y.active = x.active
        /\ y.waiting = x.waiting /\ y.activeEnd = x.activeEnd /\ y.credited = t
        BY <2>2 DEF Budget, Instant
  <2> HIDE DEF y
  <2>5. [y EXCEPT !.since = t] \in Budget
        BY <2>4 DEF Budget, Instant
  <2>6. QED BY <1>1, <2>2, <2>3, <2>4, <2>5 DEF Budget
<1>2. CASE ~(b.active = 0 /\ b.since # Never /\ t > b.since)
      BY <1>2 DEF Flush
<1>3. QED BY <1>1, <1>2

(* Flushing settles a balanced budget and moves its deadline to where it   *)
(* belongs.                                                                *)
LEMMA FlushBalanced ==
    ASSUME ModelCallsAssumption,
           NEW b \in Budget, NEW t \in Nat, NEW k \in Nat, Balanced(b, t, k)
    PROVE  /\ Flush(b, t) \in Budget
           /\ Balanced(Flush(b, t), t, k)
           /\ Settled(Flush(b, t), t)
           /\ Flush(b, t).deadline = Timeout + k
           /\ Flush(b, t).active = b.active
           /\ Flush(b, t).waiting = b.waiting
           /\ \A s \in Nat : Anchored(b, s) => Anchored(Flush(b, t), s)
<1> DEFINE f == Flush(b, t)
<1>1. /\ b.deadline \in Nat /\ b.active \in Nat /\ b.waiting \in Nat
      /\ b.since \in Nat \cup {-1} /\ b.credited \in Nat \cup {-1}
      /\ b.activeEnd \in Nat \cup {-1}
      BY DEF Budget, Instant, Never
<1>2. Timeout \in Nat
      BY DEF ModelCallsAssumption
<1>3. CASE b.active = 0 /\ b.since # Never /\ t > b.since
  <2>1. /\ f.deadline = b.deadline + (t - b.since) /\ f.since = t /\ f.credited = t
        /\ f \in Budget /\ f.active = b.active /\ f.waiting = b.waiting
        /\ f.activeEnd = b.activeEnd
        BY <1>3, FlushFields
  <2> HIDE DEF f
  <2>2. f.deadline = Timeout + k
        BY <1>1, <1>2, <1>3, <2>1 DEF Balanced, Never
  <2>3. Balanced(f, t, k)
        BY <1>1, <1>2, <1>3, <2>1, <2>2 DEF Balanced, Never
  <2>4. QED BY <2>1, <2>2, <2>3 DEF f, Settled, Anchored
<1>4. CASE ~(b.active = 0 /\ b.since # Never /\ t > b.since)
  <2>1. f = b
        BY <1>4 DEF Flush
  <2>2. b.since = Never \/ b.since = t
        BY <1>1, <1>4 DEF Balanced, Never
  <2>3. b.deadline = Timeout + k
        BY <1>1, <1>2, <2>2 DEF Balanced, Never
  <2>4. QED BY <2>1, <2>2, <2>3 DEF Settled
<1>5. QED BY <1>3, <1>4

(* What the other operations write, field by field.                        *)
LEMMA EnlistFields ==
    ASSUME NEW b \in Budget, NEW t \in Nat, b.credited <= t
    PROVE  /\ Enlist(b, t) \in Budget
           /\ Enlist(b, t).deadline = b.deadline
           /\ Enlist(b, t).active = b.active
           /\ Enlist(b, t).waiting = b.waiting + 1
           /\ Enlist(b, t).credited = b.credited
           /\ Enlist(b, t).activeEnd = b.activeEnd
           /\ Enlist(b, t).since = IF b.waiting = 0 /\ b.active = 0 THEN t ELSE b.since
<1> DEFINE s == IF b.waiting = 0 /\ b.active = 0 THEN Later(t, b.credited) ELSE b.since
           x == [b EXCEPT !.waiting = b.waiting + 1]
<1>1. s = IF b.waiting = 0 /\ b.active = 0 THEN t ELSE b.since
      BY DEF Later, Budget, Instant, Never
<1>2. s \in Instant
      BY <1>1 DEF Budget, Instant
<1>3. /\ x \in Budget /\ x.deadline = b.deadline /\ x.active = b.active
      /\ x.waiting = b.waiting + 1 /\ x.credited = b.credited
      /\ x.activeEnd = b.activeEnd
      BY DEF Budget
<1>4. Enlist(b, t) = [x EXCEPT !.since = s]
      BY DEF Enlist, Budget
<1> HIDE DEF x, s
<1>5. QED BY <1>1, <1>2, <1>3, <1>4 DEF Budget

LEMMA DelistFields ==
    ASSUME NEW b \in Budget
    PROVE  /\ Delist(b) \in Budget
           /\ Delist(b).deadline = b.deadline
           /\ Delist(b).active = b.active
           /\ Delist(b).waiting = Less(b.waiting)
           /\ Delist(b).credited = b.credited
           /\ Delist(b).activeEnd = b.activeEnd
           /\ Delist(b).since = IF b.waiting <= 1 THEN Never ELSE b.since
<1> DEFINE s == IF b.waiting <= 1 THEN Never ELSE b.since
           x == [b EXCEPT !.waiting = Less(b.waiting)]
<1>1. Less(b.waiting) \in Nat
      BY DEF Less, Budget
<1>2. s \in Instant
      BY DEF Budget, Instant
<1>3. /\ x \in Budget /\ x.deadline = b.deadline /\ x.active = b.active
      /\ x.waiting = Less(b.waiting) /\ x.credited = b.credited
      /\ x.activeEnd = b.activeEnd
      BY <1>1 DEF Budget
<1>4. Delist(b) = [x EXCEPT !.since = s]
      BY DEF Delist, Budget
<1> HIDE DEF x
<1>5. QED BY <1>2, <1>3, <1>4 DEF Budget

LEMMA DepartFields ==
    ASSUME NEW b \in Budget
    PROVE  /\ Depart(b) \in Budget
           /\ Depart(b).deadline = b.deadline
           /\ Depart(b).active = b.active + 1
           /\ Depart(b).waiting = b.waiting
           /\ Depart(b).credited = b.credited
           /\ Depart(b).activeEnd = b.activeEnd
           /\ Depart(b).since = Never
<1> DEFINE x == [b EXCEPT !.active = b.active + 1]
<1>1. /\ x \in Budget /\ x.deadline = b.deadline /\ x.active = b.active + 1
      /\ x.waiting = b.waiting /\ x.credited = b.credited
      /\ x.activeEnd = b.activeEnd
      BY DEF Budget
<1>2. Depart(b) = [x EXCEPT !.since = Never]
      BY DEF Depart, Budget
<1> HIDE DEF x
<1>3. QED BY <1>1, <1>2 DEF Budget, Instant

LEMMA RequestEndFields ==
    ASSUME NEW b \in Budget, NEW t \in Nat, b.credited <= t
    PROVE  /\ RequestEnd(b, t) \in Budget
           /\ RequestEnd(b, t).deadline = b.deadline
           /\ RequestEnd(b, t).active = Less(b.active)
           /\ RequestEnd(b, t).waiting = b.waiting
           /\ RequestEnd(b, t).credited = b.credited
           /\ RequestEnd(b, t).activeEnd = t
           /\ RequestEnd(b, t).since =
                 IF b.active <= 1 /\ b.waiting > 0 THEN t ELSE b.since
<1> DEFINE s == IF b.active <= 1 /\ b.waiting > 0 THEN Later(t, b.credited) ELSE b.since
           x == [b EXCEPT !.activeEnd = t]
           y == [x EXCEPT !.active = Less(b.active)]
<1>1. s = IF b.active <= 1 /\ b.waiting > 0 THEN t ELSE b.since
      BY DEF Later, Budget, Instant, Never
<1>2. s \in Instant
      BY <1>1 DEF Budget, Instant
<1>3. /\ x \in Budget /\ x.deadline = b.deadline /\ x.active = b.active
      /\ x.waiting = b.waiting /\ x.credited = b.credited /\ x.activeEnd = t
      BY DEF Budget, Instant
<1>4. RequestEnd(b, t) = [y EXCEPT !.since = s]
      BY DEF RequestEnd, Budget
<1> HIDE DEF x, s
<1>5. Less(b.active) \in Nat
      BY DEF Less, Budget
<1>6. /\ y \in Budget /\ y.deadline = b.deadline /\ y.active = Less(b.active)
      /\ y.waiting = b.waiting /\ y.credited = b.credited /\ y.activeEnd = t
      BY <1>3, <1>5 DEF Budget
<1> HIDE DEF y
<1>7. QED BY <1>1, <1>2, <1>4, <1>6 DEF Budget

(* A wait that starts.                                                     *)
LEMMA WaitStartBalanced ==
    ASSUME ModelCallsAssumption,
           NEW b \in Budget, NEW t \in Nat, NEW k \in Nat, Balanced(b, t, k)
    PROVE  /\ WaitStart(b, t) \in Budget
           /\ Balanced(WaitStart(b, t), t, k)
           /\ WaitStart(b, t).active = b.active
           /\ WaitStart(b, t).waiting = b.waiting + 1
           /\ \A s \in Nat : b.waiting > 0 /\ Anchored(b, s) => Anchored(WaitStart(b, t), s)
           /\ Anchored(WaitStart(b, t), t)
<1> DEFINE f == Flush(b, t)
           w == WaitStart(b, t)
<1>1. /\ f \in Budget /\ Balanced(f, t, k) /\ Settled(f, t)
      /\ f.active = b.active /\ f.waiting = b.waiting
      /\ \A s \in Nat : Anchored(b, s) => Anchored(f, s)
      BY FlushBalanced
<1>2. w = Enlist(f, t)
      BY DEF WaitStart
<1> HIDE DEF f, w
<1>3. /\ w \in Budget /\ w.deadline = f.deadline /\ w.active = f.active
      /\ w.waiting = f.waiting + 1 /\ w.credited = f.credited
      /\ w.activeEnd = f.activeEnd
      /\ w.since = IF f.waiting = 0 /\ f.active = 0 THEN t ELSE f.since
      BY <1>1, <1>2, EnlistFields DEF Balanced
<1>4. /\ f.active \in Nat /\ f.waiting \in Nat /\ f.deadline \in Nat
      /\ f.since \in Nat \cup {-1} /\ f.credited \in Nat \cup {-1}
      /\ f.activeEnd \in Nat \cup {-1} /\ Timeout \in Nat
      BY <1>1 DEF Budget, Instant, Never, ModelCallsAssumption
<1>5. Balanced(w, t, k)
      BY <1>1, <1>3, <1>4 DEF Balanced, Never, Settled
<1>6. w.since # Never => w.since = t \/ w.since = f.since
      BY <1>3
<1>7. Anchored(w, t)
      BY <1>1, <1>3, <1>4, <1>5 DEF Anchored, Balanced
<1>8. \A s \in Nat : b.waiting > 0 /\ Anchored(b, s) => Anchored(w, s)
      BY <1>1, <1>3, <1>4 DEF Anchored
<1>9. QED BY <1>1, <1>3, <1>5, <1>7, <1>8 DEF w

(* A wait that ends.                                                       *)
LEMMA WaitEndBalanced ==
    ASSUME ModelCallsAssumption,
           NEW b \in Budget, NEW t \in Nat, NEW k \in Nat, Balanced(b, t, k),
           b.waiting > 0
    PROVE  /\ WaitEnd(b, t) \in Budget
           /\ Balanced(WaitEnd(b, t), t, k)
           /\ Settled(WaitEnd(b, t), t)
           /\ WaitEnd(b, t).deadline = Timeout + k
           /\ WaitEnd(b, t).active = b.active
           /\ WaitEnd(b, t).waiting = b.waiting - 1
           /\ \A s \in Nat : Anchored(b, s) => Anchored(WaitEnd(b, t), s)
<1> DEFINE f == Flush(b, t)
           w == WaitEnd(b, t)
<1>1. /\ f \in Budget /\ Balanced(f, t, k) /\ Settled(f, t)
      /\ f.deadline = Timeout + k
      /\ f.active = b.active /\ f.waiting = b.waiting
      /\ \A s \in Nat : Anchored(b, s) => Anchored(f, s)
      BY FlushBalanced
<1>2. w = Delist(f)
      BY DEF WaitEnd
<1> HIDE DEF f, w
<1>3. /\ w \in Budget /\ w.deadline = f.deadline /\ w.active = f.active
      /\ w.waiting = Less(f.waiting) /\ w.credited = f.credited
      /\ w.activeEnd = f.activeEnd
      /\ w.since = IF f.waiting <= 1 THEN Never ELSE f.since
      BY <1>1, <1>2, DelistFields
<1>4. /\ f.active \in Nat /\ f.waiting \in Nat /\ f.deadline \in Nat
      /\ f.since \in Nat \cup {-1} /\ f.credited \in Nat \cup {-1}
      /\ f.activeEnd \in Nat \cup {-1} /\ Timeout \in Nat
      BY <1>1 DEF Budget, Instant, Never, ModelCallsAssumption
<1>5. w.waiting = b.waiting - 1
      BY <1>1, <1>3, <1>4 DEF Less
<1>6. Settled(w, t)
      BY <1>1, <1>3 DEF Settled
<1>7. Balanced(w, t, k)
      BY <1>1, <1>3, <1>4, <1>5, <1>6 DEF Balanced, Never, Settled
<1>8. \A s \in Nat : Anchored(b, s) => Anchored(w, s)
      BY <1>1, <1>3, <1>4 DEF Anchored
<1>9. QED BY <1>1, <1>3, <1>5, <1>6, <1>7, <1>8 DEF w

(* The end of the wait for the cooldown leaves nothing to be credited:     *)
(* what was idle in it has been, and what came before the last request     *)
(* that ended does not count.                                              *)
LEMMA NothingLeftToCredit ==
    ASSUME ModelCallsAssumption,
           NEW b \in Budget, NEW t \in Nat, NEW k \in Nat, Balanced(b, t, k),
           b.waiting > 0,
           NEW s \in Nat, s <= t, Anchored(b, s), NEW slept \in {0, t - s}
    PROVE  CreditWait(WaitEnd(b, t), t, slept) = WaitEnd(b, t)
<1> DEFINE f == Flush(b, t)
           w == WaitEnd(b, t)
<1>1. /\ b.deadline \in Nat /\ b.active \in Nat /\ b.waiting \in Nat
      /\ b.since \in Nat \cup {-1} /\ b.credited \in Nat \cup {-1}
      /\ b.activeEnd \in Nat \cup {-1}
      BY DEF Budget, Instant, Never
<1>2. /\ f \in Budget /\ f.active = b.active /\ f.activeEnd = b.activeEnd
      /\ IF b.active = 0 /\ b.since # Never /\ t > b.since
         THEN f.credited = t
         ELSE f = b
      BY FlushFields
<1>3. w = Delist(f)
      BY DEF WaitEnd
<1> HIDE DEF f, w
<1>4. /\ w.active = f.active /\ w.credited = f.credited /\ w.activeEnd = f.activeEnd
      BY <1>2, <1>3, DelistFields
<1>5. CASE slept = 0 \/ w.active > 0
      BY <1>5 DEF CreditWait, w
<1>6. CASE slept # 0 /\ w.active = 0
  <2>1. b.active = 0 /\ b.since # Never
        BY <1>1, <1>2, <1>4, <1>6 DEF Balanced
  <2>2. w.credited = t \/ w.activeEnd = t
    <3>1. CASE t > b.since
          BY <2>1, <1>2, <1>4, <3>1
    <3>2. CASE ~(t > b.since)
          BY <1>1, <1>2, <1>4, <1>6, <2>1, <3>2 DEF Balanced, Anchored, Never
    <3>3. QED BY <3>1, <3>2
  <2>3. w.credited \in Int /\ w.activeEnd \in Int /\ t - slept \in Int
        BY <1>1, <1>2, <1>4
  <2>4. ~(t > Later(Later(t - slept, w.credited), w.activeEnd))
        BY <2>2, <2>3 DEF Later
  <2>5. QED BY <2>4, <1>6 DEF CreditWait, Grant, w
<1>7. QED BY <1>1, <1>2, <1>4, <1>5, <1>6

(* A request that starts when no idle wait is left to be credited.         *)
LEMMA RequestStartBalanced ==
    ASSUME ModelCallsAssumption,
           NEW b \in Budget, NEW t \in Nat, NEW k \in Nat, Balanced(b, t, k)
    PROVE  /\ RequestStart(b, t) \in Budget
           /\ Balanced(RequestStart(b, t), t, k)
           /\ RequestStart(b, t).active = b.active + 1
           /\ RequestStart(b, t).waiting = b.waiting
           /\ \A s \in Nat : Anchored(RequestStart(b, t), s)
<1> DEFINE f == Flush(b, t)
           w == RequestStart(b, t)
<1>1. /\ f \in Budget /\ Balanced(f, t, k)
      /\ f.deadline = Timeout + k
      /\ f.active = b.active /\ f.waiting = b.waiting
      BY FlushBalanced
<1>2. w = Depart(f)
      BY DEF RequestStart
<1> HIDE DEF f, w
<1>3. /\ w \in Budget /\ w.deadline = f.deadline /\ w.active = f.active + 1
      /\ w.waiting = f.waiting /\ w.credited = f.credited
      /\ w.activeEnd = f.activeEnd /\ w.since = Never
      BY <1>1, <1>2, DepartFields
<1>4. Balanced(w, t, k)
      BY <1>1, <1>3 DEF Balanced, Budget, Never, ModelCallsAssumption, Instant
<1>5. QED BY <1>1, <1>3, <1>4 DEF w, Anchored

(* A request that ends.                                                    *)
LEMMA RequestEndBalanced ==
    ASSUME ModelCallsAssumption,
           NEW b \in Budget, NEW t \in Nat, NEW k \in Nat, Balanced(b, t, k),
           b.active > 0
    PROVE  /\ RequestEnd(b, t) \in Budget
           /\ Balanced(RequestEnd(b, t), t, k)
           /\ RequestEnd(b, t).active = b.active - 1
           /\ RequestEnd(b, t).waiting = b.waiting
           /\ \A s \in Nat : Anchored(RequestEnd(b, t), s)
<1> DEFINE w == RequestEnd(b, t)
<1>1. /\ b.deadline \in Nat /\ b.active \in Nat /\ b.waiting \in Nat
      /\ b.since \in Nat \cup {-1} /\ b.credited \in Nat \cup {-1}
      /\ b.activeEnd \in Nat \cup {-1} /\ Timeout \in Nat
      BY DEF Budget, Instant, Never, ModelCallsAssumption
<1>2. /\ w \in Budget /\ w.deadline = b.deadline /\ w.active = Less(b.active)
      /\ w.waiting = b.waiting /\ w.credited = b.credited
      /\ w.activeEnd = t
      /\ w.since = IF b.active <= 1 /\ b.waiting > 0 THEN t ELSE b.since
      BY RequestEndFields DEF Balanced
<1> HIDE DEF w
<1>3. w.active = b.active - 1
      BY <1>1, <1>2 DEF Less
<1>4. b.since = Never
      BY <1>1 DEF Balanced
<1>5. Balanced(w, t, k)
      BY <1>1, <1>2, <1>3, <1>4 DEF Balanced, Never
<1>6. QED BY <1>2, <1>3, <1>4, <1>5 DEF w, Anchored

-----------------------------------------------------------------------------
(* Calls and what is counted of them.                                      *)

One(p) == IF p THEN 1 ELSE 0

(* The calls of r that stand, by st, in one of the stages of S.            *)
Standing(r, st, S) == {c \in Own(r) : st[c] \in S}

LEMMA StandingIsFinite ==
    ASSUME ModelCallsAssumption, NEW r, NEW st, NEW S
    PROVE  /\ IsFiniteSet(Standing(r, st, S))
           /\ Cardinality(Standing(r, st, S)) \in Nat
<1>1. Standing(r, st, S) \subseteq Calls
      BY DEF Standing, Own
<1>2. IsFiniteSet(Standing(r, st, S))
      BY <1>1, FS_Subset DEF ModelCallsAssumption
<1>3. QED BY <1>2, FS_CardinalityType

(* A call that moves is counted out and in.                                *)
LEMMA CountMoves ==
    ASSUME ModelCallsAssumption, stage \in [Calls -> Stage],
           NEW c \in Calls, NEW to \in Stage, NEW S,
           stage' = [stage EXCEPT ![c] = to]
    PROVE  Cardinality(Standing(ReviewOf[c], stage', S)) + One(stage[c] \in S)
              = Cardinality(Standing(ReviewOf[c], stage, S)) + One(to \in S)
<1> DEFINE r == ReviewOf[c]
           A == Standing(r, stage, S)
           B == Standing(r, stage', S)
<1>1. /\ stage'[c] = to
      /\ \A x \in Calls : x # c => stage'[x] = stage[x]
      OBVIOUS
<1> HIDE DEF r
<1>2. /\ IsFiniteSet(A) /\ IsFiniteSet(B)
      /\ Cardinality(A) \in Nat /\ Cardinality(B) \in Nat
      BY StandingIsFinite
<1>3. CASE stage[c] \in S <=> to \in S
  <2>1. A = B
        BY <1>1, <1>3 DEF Standing, Own, r
  <2>2. QED BY <1>2, <1>3, <2>1 DEF One, r
<1>4. CASE stage[c] \notin S /\ to \in S
  <2>1. B = A \cup {c} /\ c \notin A
        BY <1>1, <1>4 DEF Standing, Own, r
  <2>2. Cardinality(B) = Cardinality(A) + 1
        BY <1>2, <2>1, FS_AddElement
  <2>3. QED BY <1>2, <1>4, <2>2 DEF One, r
<1>5. CASE stage[c] \in S /\ to \notin S
  <2>1. B = A \ {c} /\ c \in A
        BY <1>1, <1>5 DEF Standing, Own, r
  <2> HIDE DEF A, B
  <2>2. Cardinality(B) = Cardinality(A) - 1
        BY <1>2, <2>1, FS_RemoveElement
  <2>3. QED BY <1>2, <1>5, <2>2 DEF One, A, B, r
<1>6. QED BY <1>3, <1>4, <1>5

LEMMA SomeoneStands ==
    ASSUME ModelCallsAssumption, NEW st, NEW r, NEW S,
           NEW c \in Own(r), st[c] \in S
    PROVE  Cardinality(Standing(r, st, S)) > 0
<1>1. IsFiniteSet(Standing(r, st, S)) /\ Cardinality(Standing(r, st, S)) \in Nat
      BY StandingIsFinite
<1>2. c \in Standing(r, st, S)
      BY DEF Standing
<1>3. Standing(r, st, S) # {}
      BY <1>2
<1>4. Cardinality(Standing(r, st, S)) # 0
      BY <1>1, <1>3, FS_EmptySet
<1>5. QED BY <1>1, <1>4

(* The sets that the counts and the ghost are about.                       *)
LEMMA StandingSets ==
    ASSUME NEW r
    PROVE  /\ Active(r) = Standing(r, stage, {"active"})
           /\ Parked(r) = Standing(r, stage, Waiting)
    BY DEF Active, Parked, Standing

LEMMA StandingSetsNext ==
    ASSUME NEW r
    PROVE  /\ Active(r)' = Standing(r, stage', {"active"})
           /\ Parked(r)' = Standing(r, stage', Waiting)
    BY DEF Active, Parked, Standing, Own

-----------------------------------------------------------------------------
(* One call moves.                                                         *)

(* The stages in which a call has the gate.                                *)
AtTheGate(st) == st \in AtGate \/ (st = "cleared" /\ limits # {})

(* The stages of the pacing.                                               *)
Pacing(st) == st \in AtGate \cup {"gated"}

LEMMA GateFollows ==
    ASSUME ModelCallsAssumption, TypeOK, GateIsHeld,
           NEW c \in Calls, NEW to \in Stage,
           stage' = [stage EXCEPT ![c] = to], limits' = limits,
           IF AtTheGate(to)
           THEN gate' = c /\ gate \in {None, c}
           ELSE gate' = IF gate = c THEN None ELSE gate
    PROVE  GateIsHeld'
<1>1. stage'[c] = to /\ \A x \in Calls : x # c => stage'[x] = stage[x]
      BY DEF TypeOK
<1>2. ASSUME NEW x \in Calls
      PROVE  gate' = x <=> stage'[x] \in AtGate \/ (stage'[x] = "cleared" /\ limits' # {})
  <2>1. gate = x <=> AtTheGate(stage[x])
        BY DEF GateIsHeld, AtTheGate
  <2>2. None # x
        BY DEF ModelCallsAssumption
  <2>3. gate' = x <=> AtTheGate(stage'[x])
        BY <1>1, <2>1, <2>2
  <2>4. QED BY <2>3 DEF AtTheGate
<1>3. QED BY <1>2 DEF GateIsHeld

LEMMA HoldersFollow ==
    ASSUME ModelCallsAssumption, TypeOK, PermitsAreHeld,
           NEW c \in Calls, NEW to \in Stage,
           stage' = [stage EXCEPT ![c] = to], permits' = permits,
           holders' = IF to \in Holding THEN holders \cup {c} ELSE holders \ {c},
           to \in Holding /\ stage[c] \notin Holding => Cardinality(holders) < permits
    PROVE  PermitsAreHeld'
<1>1. stage'[c] = to /\ \A x \in Calls : x # c => stage'[x] = stage[x]
      BY DEF TypeOK
<1>2. holders' = {x \in Calls : stage'[x] \in Holding}
      BY <1>1 DEF PermitsAreHeld
<1>3. IsFiniteSet(holders) /\ Cardinality(holders) \in Nat /\ permits \in Nat
      BY FS_Subset, FS_CardinalityType DEF ModelCallsAssumption, TypeOK
<1>4. Cardinality(holders') <= permits
  <2>1. CASE to \in Holding /\ c \in holders
    <3>1. holders' = holders
          BY <2>1
    <3>2. QED BY <3>1 DEF PermitsAreHeld
  <2>2. CASE to \in Holding /\ c \notin holders
    <3>1. Cardinality(holders') = Cardinality(holders) + 1
          BY <1>3, <2>2, FS_AddElement
    <3>2. Cardinality(holders) < permits
          BY <2>2 DEF PermitsAreHeld
    <3>3. QED BY <1>3, <3>1, <3>2
  <2>3. CASE to \notin Holding
    <3>1. Cardinality(holders') <= Cardinality(holders)
          BY <1>3, <2>3, FS_Subset, holders' \subseteq holders
    <3>2. Cardinality(holders') \in Nat
          BY <1>3, <2>3, FS_Subset, FS_CardinalityType, holders' \subseteq holders
    <3>3. QED BY <1>3, <3>1, <3>2 DEF PermitsAreHeld
  <2>4. QED BY <2>1, <2>2, <2>3
<1>5. QED BY <1>2, <1>4 DEF PermitsAreHeld

(* What a call of r that moves must do to the budget of r.                 *)
Accounted(c, to, nb) ==
    LET b == budget[ReviewOf[c]] IN
    /\ nb \in Budget
    /\ nb.active + One(stage[c] = "active") = b.active + One(to = "active")
    /\ nb.waiting + One(stage[c] \in Waiting) = b.waiting + One(to \in Waiting)
    /\ Balanced(nb, now, idle[ReviewOf[c]])
    /\ \A x \in Own(ReviewOf[c]) :
          x # c /\ stage[x] = "cooling" => Anchored(nb, since[x])
    /\ to = "cooling" => since'[c] <= now /\ Anchored(nb, since'[c])

LEMMA TrackersFollow ==
    ASSUME ModelCallsAssumption, IInv,
           NEW c \in Calls, NEW to \in Stage, NEW nb,
           stage' = [stage EXCEPT ![c] = to],
           now' = now, timed' = timed, over' = over, idle' = idle,
           budget' = (IF timed THEN [budget EXCEPT ![ReviewOf[c]] = nb] ELSE budget),
           \A x \in Calls : x # c => since'[x] = since[x],
           timed /\ ~over[ReviewOf[c]] => Accounted(c, to, nb)
    PROVE  CountsAreRight' /\ TrackersAreRight'
<1>1. stage'[c] = to /\ \A x \in Calls : x # c => stage'[x] = stage[x]
      BY DEF IInv, TypeOK
<1>2. ASSUME NEW r \in Reviews, timed, ~over[r], r # ReviewOf[c]
      PROVE  /\ budget'[r] = budget[r]
             /\ Cardinality(Active(r)') = Cardinality(Active(r))
             /\ Cardinality(Parked(r)') = Cardinality(Parked(r))
             /\ \A x \in Own(r) : stage'[x] = stage[x] /\ since'[x] = since[x]
  <2>1. budget'[r] = budget[r]
        BY <1>2 DEF IInv, TypeOK
  <2>2. \A x \in Own(r) : x \in Calls /\ x # c
        BY <1>2 DEF Own
  <2>3. Active(r)' = Active(r) /\ Parked(r)' = Parked(r)
        BY <1>1, <2>2 DEF Active, Parked, Own
  <2>4. QED BY <1>1, <2>1, <2>2, <2>3
<1>3. ASSUME timed, ~over[ReviewOf[c]]
      PROVE  /\ budget'[ReviewOf[c]] = nb
             /\ nb.active = Cardinality(Active(ReviewOf[c])')
             /\ nb.waiting = Cardinality(Parked(ReviewOf[c])')
  <2> DEFINE r == ReviewOf[c]
  <2>b. stage \in [Calls -> Stage]
        BY DEF IInv, TypeOK
  <2>c. ASSUME NEW S
        PROVE  Cardinality(Standing(ReviewOf[c], stage', S)) + One(stage[c] \in S)
                 = Cardinality(Standing(ReviewOf[c], stage, S)) + One(to \in S)
        BY <2>b, CountMoves DEF One
  <2>a. /\ Cardinality(Standing(r, stage', {"active"})) + One(stage[c] \in {"active"})
              = Cardinality(Standing(r, stage, {"active"})) + One(to \in {"active"})
        /\ Cardinality(Standing(r, stage', Waiting)) + One(stage[c] \in Waiting)
              = Cardinality(Standing(r, stage, Waiting)) + One(to \in Waiting)
        BY <2>c
  <2>1. r \in Reviews
        BY DEF ModelCallsAssumption
  <2>2. budget'[r] = nb
        BY <1>3, <2>1 DEF IInv, TypeOK
  <2>4. /\ budget[r].active = Cardinality(Standing(r, stage, {"active"}))
        /\ budget[r].waiting = Cardinality(Standing(r, stage, Waiting))
        BY <1>3, <2>1, StandingSets DEF IInv, CountsAreRight
  <2>5. /\ Active(r)' = Standing(r, stage', {"active"})
        /\ Parked(r)' = Standing(r, stage', Waiting)
        BY StandingSetsNext
  <2>6. Cardinality(Standing(r, stage', {"active"})) + One(stage[c] = "active")
           = Cardinality(Standing(r, stage, {"active"})) + One(to = "active")
    <3>1. Cardinality(Standing(r, stage', {"active"})) + One(stage[c] \in {"active"})
             = Cardinality(Standing(r, stage, {"active"})) + One(to \in {"active"})
          BY <2>a
    <3>2. (stage[c] \in {"active"} <=> stage[c] = "active")
          /\ (to \in {"active"} <=> to = "active")
          OBVIOUS
    <3>3. QED BY <3>1, <3>2 DEF One
  <2>7. Cardinality(Standing(r, stage', Waiting)) + One(stage[c] \in Waiting)
           = Cardinality(Standing(r, stage, Waiting)) + One(to \in Waiting)
        BY <2>a
  <2>8. /\ Cardinality(Standing(r, stage', {"active"})) \in Nat
        /\ Cardinality(Standing(r, stage', Waiting)) \in Nat
        BY StandingIsFinite
  <2>9. /\ nb.active + One(stage[c] = "active") = budget[r].active + One(to = "active")
        /\ nb.waiting + One(stage[c] \in Waiting) = budget[r].waiting + One(to \in Waiting)
        /\ nb.active \in Nat /\ nb.waiting \in Nat
        BY <1>3 DEF Accounted, Budget
  <2>10. /\ One(stage[c] = "active") \in Nat /\ One(to = "active") \in Nat
         /\ One(stage[c] \in Waiting) \in Nat /\ One(to \in Waiting) \in Nat
         BY DEF One
  <2> HIDE DEF r
  <2>11. /\ nb.active = Cardinality(Standing(r, stage', {"active"}))
         /\ nb.waiting = Cardinality(Standing(r, stage', Waiting))
         BY <2>4, <2>6, <2>7, <2>8, <2>9, <2>10
  <2>12. QED BY <2>2, <2>5, <2>11 DEF r
<1>4. CountsAreRight'
  <2> SUFFICES ASSUME NEW r \in Reviews, timed, ~over[r]
               PROVE  /\ budget'[r].active = Cardinality(Active(r)')
                      /\ budget'[r].waiting = Cardinality(Parked(r)')
      BY DEF CountsAreRight
  <2>1. CASE r = ReviewOf[c]
        BY <1>3, <2>1
  <2>2. CASE r # ReviewOf[c]
        BY <1>2, <2>2 DEF IInv, CountsAreRight
  <2>3. QED BY <2>1, <2>2
<1>5. TrackersAreRight'
  <2> SUFFICES ASSUME NEW r \in Reviews, timed, ~over[r]
               PROVE  /\ Balanced(budget'[r], now, idle[r])
                      /\ \A x \in Own(r) : stage'[x] = "cooling" =>
                            since'[x] <= now /\ Anchored(budget'[r], since'[x])
      BY DEF TrackersAreRight, Own, Balanced, Anchored
  <2>1. /\ Balanced(budget[r], now, idle[r])
        /\ \A x \in Own(r) : stage[x] = "cooling" =>
              since[x] <= now /\ Anchored(budget[r], since[x])
        BY DEF IInv, TrackersAreRight
  <2>2. CASE r = ReviewOf[c]
    <3>1. budget'[r] = nb /\ Accounted(c, to, nb)
          BY <1>3, <2>2
    <3>2. ASSUME NEW x \in Own(r), stage'[x] = "cooling"
          PROVE  since'[x] <= now /\ Anchored(nb, since'[x])
      <4>1. CASE x = c
            BY <1>1, <3>1, <3>2, <4>1 DEF Accounted
      <4>2. CASE x # c
        <5>1. x \in Calls /\ since'[x] = since[x] /\ stage[x] = "cooling"
              BY <1>1, <3>2, <4>2 DEF Own
        <5>2. QED BY <2>1, <2>2, <3>1, <4>2, <5>1 DEF Accounted
      <4>3. QED BY <4>1, <4>2
    <3>3. QED BY <2>2, <3>1, <3>2 DEF Accounted
  <2>3. CASE r # ReviewOf[c]
        BY <1>2, <2>1, <2>3
  <2>4. QED BY <2>2, <2>3
<1>6. QED BY <1>4, <1>5

(* What a step in which call c moves does to the rest.                     *)
Moved(c, to, nb) ==
    /\ stage' = [stage EXCEPT ![c] = to] /\ ~over[ReviewOf[c]]
    /\ configVars' = configVars /\ now' = now /\ over' = over /\ idle' = idle
    /\ budget' = IF timed THEN [budget EXCEPT ![ReviewOf[c]] = nb] ELSE budget
    /\ \A x \in Calls : x # c => since'[x] = since[x]
    /\ timed => Accounted(c, to, nb)
    /\ IF AtTheGate(to)
       THEN gate' = c /\ gate \in {None, c}
       ELSE gate' = IF gate = c THEN None ELSE gate
    /\ holders' = IF to \in Holding THEN holders \cup {c} ELSE holders \ {c}
    /\ to \in Holding /\ stage[c] \notin Holding => Cardinality(holders) < permits
    /\ Pacing(to) => limits # {}

(* The whole of the invariant but the types, for a call that moves.        *)
LEMMA CallMoves ==
    ASSUME ModelCallsAssumption, IInv,
           NEW c \in Calls, NEW to \in Stage, NEW nb, Moved(c, to, nb),
           SlotIsKept'
    PROVE  /\ PermitsAreHeld' /\ GateIsHeld' /\ PacingHasLimits' /\ SlotIsKept'
           /\ CountsAreRight' /\ TrackersAreRight' /\ OverMeansEnded'
<1>1. /\ limits' = limits /\ timed' = timed /\ permits' = permits
      /\ stage' = [stage EXCEPT ![c] = to] /\ ~over[ReviewOf[c]]
      /\ now' = now /\ over' = over /\ idle' = idle
      BY DEF Moved, configVars
<1>2. PermitsAreHeld'
      BY <1>1, HoldersFollow DEF IInv, Moved
<1>3. GateIsHeld'
      BY <1>1, GateFollows DEF IInv, Moved
<1>4. CountsAreRight' /\ TrackersAreRight'
      BY <1>1, TrackersFollow DEF Moved
<1>5. OverMeansEnded'
      BY <1>1 DEF IInv, TypeOK, OverMeansEnded
<1>6. PacingHasLimits'
      BY <1>1 DEF IInv, TypeOK, PacingHasLimits, Pacing, Moved
<1>7. QED BY <1>2, <1>3, <1>4, <1>5, <1>6

(* A call that does not come to a slot leaves the slots as they are, unless*)
(* a slot is taken.                                                        *)
LEMMA SlotStays ==
    ASSUME IInv, NEW c \in Calls, NEW to \in Stage,
           stage' = [stage EXCEPT ![c] = to], limits' = limits,
           paced' = paced, to = "cleared" => ~paced \/ limits = {}
    PROVE  SlotIsKept'
    BY DEF IInv, TypeOK, SlotIsKept

-----------------------------------------------------------------------------
(* What each kind of move does to the budget.                              *)

LEMMA BudgetOf ==
    ASSUME ModelCallsAssumption, IInv, NEW c \in Calls, timed, ~over[ReviewOf[c]]
    PROVE  LET r == ReviewOf[c]
               b == budget[r]
           IN /\ r \in Reviews /\ b \in Budget
              /\ now \in Nat /\ idle[r] \in Nat /\ since[c] \in Nat
              /\ Balanced(b, now, idle[r])
              /\ stage[c] \in Waiting => b.waiting > 0
              /\ stage[c] = "active" => b.active > 0
              /\ \A x \in Own(r) : stage[x] = "cooling" =>
                    since[x] \in Nat /\ since[x] <= now /\ Anchored(b, since[x])
<1> DEFINE r == ReviewOf[c]
<1>1. r \in Reviews /\ c \in Own(r)
      BY DEF ModelCallsAssumption, Own
<1>2. /\ budget[r] \in Budget /\ now \in Nat /\ idle[r] \in Nat
      /\ \A x \in Calls : since[x] \in Nat
      BY <1>1 DEF IInv, TypeOK
<1>3. /\ Balanced(budget[r], now, idle[r])
      /\ \A x \in Own(r) : stage[x] = "cooling" =>
            since[x] <= now /\ Anchored(budget[r], since[x])
      BY <1>1 DEF IInv, TrackersAreRight
<1>4. /\ budget[r].active = Cardinality(Standing(r, stage, {"active"}))
      /\ budget[r].waiting = Cardinality(Standing(r, stage, Waiting))
      BY <1>1, StandingSets DEF IInv, CountsAreRight
<1>5. stage[c] \in Waiting => budget[r].waiting > 0
      BY <1>1, <1>4, SomeoneStands
<1>6. stage[c] = "active" => budget[r].active > 0
      BY <1>1, <1>4, SomeoneStands, stage[c] = "active" => stage[c] \in {"active"}
<1>7. \A x \in Own(r) : x \in Calls
      BY DEF Own
<1>8. QED BY <1>1, <1>2, <1>3, <1>5, <1>6, <1>7

(* Two calls that wait are two.                                            *)
LEMMA TwoWait ==
    ASSUME ModelCallsAssumption, IInv, NEW c \in Calls, timed, ~over[ReviewOf[c]],
           stage[c] \in Waiting,
           NEW x \in Own(ReviewOf[c]), x # c, stage[x] \in Waiting
    PROVE  budget[ReviewOf[c]].waiting - 1 > 0
<1> DEFINE r == ReviewOf[c]
           A == Standing(r, stage, Waiting)
<1>1. r \in Reviews
      BY DEF ModelCallsAssumption
<1>2. budget[r].waiting = Cardinality(A)
      BY <1>1, StandingSets DEF IInv, CountsAreRight
<1>3. c \in A /\ x \in A \ {c}
      BY DEF Standing, Own
<1>4. IsFiniteSet(A) /\ Cardinality(A) \in Nat
      BY StandingIsFinite
<1> HIDE DEF A
<1>5. /\ Cardinality(A \ {c}) = Cardinality(A) - 1
      /\ IsFiniteSet(A \ {c})
      BY <1>3, <1>4, FS_RemoveElement
<1>6. Cardinality(A \ {c}) \in Nat /\ Cardinality(A \ {c}) # 0
      BY <1>3, <1>5, FS_CardinalityType, FS_EmptySet
<1>7. QED BY <1>2, <1>4, <1>5, <1>6

LEMMA StillAccounted ==
    ASSUME ModelCallsAssumption, IInv, NEW c \in Calls, timed, ~over[ReviewOf[c]],
           NEW to \in Stage, to # "cooling",
           stage[c] \in Waiting <=> to \in Waiting,
           stage[c] = "active" <=> to = "active"
    PROVE  /\ Accounted(c, to, budget[ReviewOf[c]])
           /\ Accounted(c, to, Flush(budget[ReviewOf[c]], now))
<1> DEFINE b == budget[ReviewOf[c]]
           k == idle[ReviewOf[c]]
<1>1. /\ b \in Budget /\ now \in Nat /\ k \in Nat /\ Balanced(b, now, k)
      /\ \A x \in Own(ReviewOf[c]) : stage[x] = "cooling" =>
            since[x] \in Nat /\ Anchored(b, since[x])
      BY BudgetOf
<1>2. Accounted(c, to, b)
      BY <1>1 DEF Accounted, One
<1> DEFINE f == Flush(b, now)
<1>3. /\ f \in Budget /\ Balanced(f, now, k)
      /\ f.active = b.active /\ f.waiting = b.waiting
      /\ \A s \in Nat : Anchored(b, s) => Anchored(f, s)
      BY <1>1, FlushBalanced
<1>4. Accounted(c, to, f)
      BY <1>1, <1>3 DEF Accounted, One
<1>5. QED BY <1>2, <1>4

LEMMA BeginAccounted ==
    ASSUME ModelCallsAssumption, IInv, NEW c \in Calls, timed, ~over[ReviewOf[c]],
           stage[c] \in {"unmade", "new"}, since'[c] = now
    PROVE  Accounted(c, "cooling", WaitStart(budget[ReviewOf[c]], now))
<1> DEFINE b == budget[ReviewOf[c]]
           k == idle[ReviewOf[c]]
           w == WaitStart(b, now)
<1>1. /\ b \in Budget /\ now \in Nat /\ k \in Nat /\ Balanced(b, now, k)
      /\ \A x \in Own(ReviewOf[c]) : stage[x] = "cooling" =>
            since[x] \in Nat /\ Anchored(b, since[x])
      BY BudgetOf
<1>2. \A x \in Own(ReviewOf[c]) : stage[x] = "cooling" => b.waiting > 0
  <2> SUFFICES ASSUME NEW x \in Own(ReviewOf[c]), stage[x] = "cooling"
               PROVE  b.waiting > 0
      OBVIOUS
  <2>1. x \in Calls /\ ReviewOf[x] = ReviewOf[c] /\ stage[x] \in Waiting
        BY DEF Own, Waiting
  <2>2. QED BY <2>1, BudgetOf
<1>3. /\ w \in Budget /\ Balanced(w, now, k)
      /\ w.active = b.active /\ w.waiting = b.waiting + 1
      /\ \A s \in Nat : b.waiting > 0 /\ Anchored(b, s) => Anchored(w, s)
      /\ Anchored(w, now)
      BY <1>1, WaitStartBalanced
<1>4. /\ stage[c] \notin Waiting /\ stage[c] # "active"
      /\ "cooling" \in Waiting
      BY DEF Waiting
<1> HIDE DEF w
<1>5. \A x \in Own(ReviewOf[c]) : x # c /\ stage[x] = "cooling" => Anchored(w, since[x])
      BY <1>1, <1>2, <1>3
<1>6. w.active + One(stage[c] = "active") = b.active + One("cooling" = "active")
      BY <1>1, <1>3, <1>4 DEF One, Budget
<1>7. w.waiting + One(stage[c] \in Waiting) = b.waiting + One("cooling" \in Waiting)
      BY <1>1, <1>3, <1>4 DEF One, Budget
<1>8. since'[c] <= now /\ Anchored(w, since'[c])
      BY <1>1, <1>3
<1>9. QED BY <1>3, <1>5, <1>6, <1>7, <1>8 DEF Accounted, w

LEMMA WaitEndAccounted ==
    ASSUME ModelCallsAssumption, IInv, NEW c \in Calls, timed, ~over[ReviewOf[c]],
           stage[c] \in Waiting
    PROVE  Accounted(c, "ended", WaitEnd(budget[ReviewOf[c]], now))
<1> DEFINE b == budget[ReviewOf[c]]
           k == idle[ReviewOf[c]]
           w == WaitEnd(b, now)
<1>1. /\ b \in Budget /\ now \in Nat /\ k \in Nat /\ Balanced(b, now, k)
      /\ b.waiting > 0
      /\ \A x \in Own(ReviewOf[c]) : stage[x] = "cooling" =>
            since[x] \in Nat /\ Anchored(b, since[x])
      BY BudgetOf
<1>2. /\ w \in Budget /\ Balanced(w, now, k)
      /\ w.active = b.active /\ w.waiting = b.waiting - 1
      /\ \A s \in Nat : Anchored(b, s) => Anchored(w, s)
      BY <1>1, WaitEndBalanced
<1>3. stage[c] # "active" /\ "ended" \notin Waiting
      BY DEF Waiting
<1> HIDE DEF w
<1>4. w.active + One(stage[c] = "active") = b.active + One("ended" = "active")
      BY <1>1, <1>2, <1>3 DEF One, Budget
<1>5. w.waiting + One(stage[c] \in Waiting) = b.waiting + One("ended" \in Waiting)
      BY <1>1, <1>2, <1>3 DEF One, Budget
<1>6. QED BY <1>1, <1>2, <1>4, <1>5 DEF Accounted, w

(* From one wait to the next.                                              *)
LEMMA WaitAgainAccounted ==
    ASSUME ModelCallsAssumption, IInv, NEW c \in Calls, timed, ~over[ReviewOf[c]],
           stage[c] \in Waiting
    PROVE  Accounted(c, "calm", WaitStart(WaitEnd(budget[ReviewOf[c]], now), now))
<1> DEFINE b == budget[ReviewOf[c]]
           k == idle[ReviewOf[c]]
           e == WaitEnd(b, now)
           w == WaitStart(e, now)
<1>1. /\ b \in Budget /\ now \in Nat /\ k \in Nat /\ Balanced(b, now, k)
      /\ b.waiting > 0
      /\ \A x \in Own(ReviewOf[c]) : stage[x] = "cooling" =>
            since[x] \in Nat /\ Anchored(b, since[x])
      BY BudgetOf
<1>2. /\ e \in Budget /\ Balanced(e, now, k)
      /\ e.active = b.active /\ e.waiting = b.waiting - 1
      /\ \A s \in Nat : Anchored(b, s) => Anchored(e, s)
      BY <1>1, WaitEndBalanced
<1> HIDE DEF e
<1>3. /\ w \in Budget /\ Balanced(w, now, k)
      /\ w.active = e.active /\ w.waiting = e.waiting + 1
      /\ \A s \in Nat : e.waiting > 0 /\ Anchored(e, s) => Anchored(w, s)
      BY <1>1, <1>2, WaitStartBalanced
<1> HIDE DEF w
<1>4. \A x \in Own(ReviewOf[c]) :
         x # c /\ stage[x] = "cooling" => b.waiting - 1 > 0
  <2> SUFFICES ASSUME NEW x \in Own(ReviewOf[c]), x # c, stage[x] = "cooling"
               PROVE  b.waiting - 1 > 0
      OBVIOUS
  <2>1. stage[x] \in Waiting
        BY DEF Waiting
  <2>2. QED BY <2>1, TwoWait
<1>5. \A x \in Own(ReviewOf[c]) : x # c /\ stage[x] = "cooling" => Anchored(w, since[x])
      BY <1>1, <1>2, <1>3, <1>4
<1>6. stage[c] # "active" /\ "calm" \in Waiting
      BY DEF Waiting
<1>7. w.active + One(stage[c] = "active") = b.active + One("calm" = "active")
      BY <1>1, <1>2, <1>3, <1>6 DEF One, Budget
<1>8. w.waiting + One(stage[c] \in Waiting) = b.waiting + One("calm" \in Waiting)
      BY <1>1, <1>2, <1>3, <1>6 DEF One, Budget
<1>9. QED BY <1>3, <1>5, <1>7, <1>8 DEF Accounted, w, e

LEMMA DispatchAccounted ==
    ASSUME ModelCallsAssumption, IInv, NEW c \in Calls, timed, ~over[ReviewOf[c]],
           stage[c] \in Waiting
    PROVE  Accounted(c, "active", RequestStart(WaitEnd(budget[ReviewOf[c]], now), now))
<1> DEFINE b == budget[ReviewOf[c]]
           k == idle[ReviewOf[c]]
           e == WaitEnd(b, now)
           w == RequestStart(e, now)
<1>1. /\ b \in Budget /\ now \in Nat /\ k \in Nat /\ Balanced(b, now, k)
      /\ b.waiting > 0
      /\ \A x \in Own(ReviewOf[c]) : stage[x] = "cooling" => since[x] \in Nat
      BY BudgetOf
<1>2. /\ e \in Budget /\ Balanced(e, now, k)
      /\ e.active = b.active /\ e.waiting = b.waiting - 1
      BY <1>1, WaitEndBalanced
<1> HIDE DEF e
<1>3. /\ w \in Budget /\ Balanced(w, now, k)
      /\ w.active = e.active + 1 /\ w.waiting = e.waiting
      /\ \A s \in Nat : Anchored(w, s)
      BY <1>1, <1>2, RequestStartBalanced
<1> HIDE DEF w
<1>4. stage[c] # "active" /\ "active" \notin Waiting
      BY DEF Waiting
<1>5. w.active + One(stage[c] = "active") = b.active + One("active" = "active")
      BY <1>1, <1>2, <1>3, <1>4 DEF One, Budget
<1>6. w.waiting + One(stage[c] \in Waiting) = b.waiting + One("active" \in Waiting)
      BY <1>1, <1>2, <1>3, <1>4 DEF One, Budget
<1>7. QED BY <1>1, <1>3, <1>5, <1>6 DEF Accounted, w, e

LEMMA AnswerAccounted ==
    ASSUME ModelCallsAssumption, IInv, NEW c \in Calls, timed, ~over[ReviewOf[c]],
           stage[c] = "active",
           NEW to \in {"succeeded", "limited", "resting", "ended"}
    PROVE  Accounted(c, to, RequestEnd(budget[ReviewOf[c]], now))
<1> DEFINE b == budget[ReviewOf[c]]
           k == idle[ReviewOf[c]]
           w == RequestEnd(b, now)
<1>1. /\ b \in Budget /\ now \in Nat /\ k \in Nat /\ Balanced(b, now, k)
      /\ b.active > 0
      /\ \A x \in Own(ReviewOf[c]) : stage[x] = "cooling" => since[x] \in Nat
      BY BudgetOf
<1>2. /\ w \in Budget /\ Balanced(w, now, k)
      /\ w.active = b.active - 1 /\ w.waiting = b.waiting
      /\ \A s \in Nat : Anchored(w, s)
      BY <1>1, RequestEndBalanced
<1> HIDE DEF w
<1>3. /\ stage[c] \notin Waiting /\ to \notin Waiting /\ to # "active"
      /\ to # "cooling"
      BY DEF Waiting
<1>4. w.active + One(stage[c] = "active") = b.active + One(to = "active")
      BY <1>1, <1>2, <1>3 DEF One, Budget
<1>5. w.waiting + One(stage[c] \in Waiting) = b.waiting + One(to \in Waiting)
      BY <1>1, <1>2, <1>3 DEF One, Budget
<1>6. QED BY <1>1, <1>2, <1>3, <1>4, <1>5 DEF Accounted, w

-----------------------------------------------------------------------------
(* The actions.  LiveCall says that the call of a step is not of a review  *)
(* that is over.                                                           *)

LEMMA LiveCall ==
    ASSUME IInv, NEW c \in Calls, stage[c] # "ended"
    PROVE  ~over[ReviewOf[c]]
    BY DEF IInv, OverMeansEnded

(* What a booking leaves in the budgets.                                   *)
LEMMA Booked ==
    ASSUME ModelCallsAssumption, TypeOK, NEW c \in Calls, NEW nb,
           Book(ReviewOf[c], nb), timed => nb \in Budget
    PROVE  /\ budget' = IF timed THEN [budget EXCEPT ![ReviewOf[c]] = nb] ELSE budget
           /\ budget' \in [Reviews -> Budget]
    BY DEF Book, TypeOK, ModelCallsAssumption

LEMMA NotBooked ==
    ASSUME ModelCallsAssumption, TypeOK, NEW c \in Calls, budget' = budget
    PROVE  budget' = IF timed THEN [budget EXCEPT ![ReviewOf[c]] = budget[ReviewOf[c]]]
                              ELSE budget
    BY DEF TypeOK, ModelCallsAssumption

LEMMA BeginInv ==
    ASSUME ModelCallsAssumption, IInv, NEW c \in Calls,
           NEW from \in {"unmade", "new"}, Begin(c, from)
    PROVE  IInv'
<1> DEFINE nb == WaitStart(budget[ReviewOf[c]], now)
<1>1. /\ stage[c] = from /\ stage' = [stage EXCEPT ![c] = "cooling"]
      /\ ~over[ReviewOf[c]] /\ since' = [since EXCEPT ![c] = now]
      /\ Book(ReviewOf[c], nb)
      /\ UNCHANGED <<configVars, quotaVars, now, holders, gate, tries, over, errors, idle>>
      BY DEF Begin, Move
<1>2. since'[c] = now /\ \A x \in Calls : x # c => since'[x] = since[x]
      BY <1>1 DEF IInv, TypeOK
<1>3. timed => Accounted(c, "cooling", nb)
      BY <1>1, <1>2, BeginAccounted
<1> HIDE DEF nb
<1>4. /\ budget' = IF timed THEN [budget EXCEPT ![ReviewOf[c]] = nb] ELSE budget
      /\ budget' \in [Reviews -> Budget]
      BY <1>1, <1>3, Booked DEF IInv, Accounted
<1>5. TypeOK'
      BY <1>1, <1>4 DEF IInv, TypeOK, configVars, quotaVars, Stage, Waiting
<1>6. SlotIsKept'
      BY <1>1, SlotStays DEF configVars, quotaVars, Stage, Waiting
<1>7. gate # c /\ c \notin holders
      BY <1>1 DEF IInv, GateIsHeld, PermitsAreHeld, AtGate, Holding
<1>8. ~AtTheGate("cooling") /\ ~Pacing("cooling") /\ "cooling" \notin Holding /\ "cooling" \in Stage
      BY DEF AtTheGate, Pacing, AtGate, Holding, Stage, Waiting
<1>9. gate' = (IF gate = c THEN None ELSE gate) /\ holders' = holders \ {c}
      BY <1>1, <1>7
<1>10. configVars' = configVars /\ now' = now /\ over' = over /\ idle' = idle
      BY <1>1
<1>11. Moved(c, "cooling", nb)
       BY <1>1, <1>2, <1>3, <1>4, <1>8, <1>9, <1>10 DEF Moved
<1>12. QED BY <1>5, <1>6, <1>8, <1>11, CallMoves DEF IInv

(* Who has the gate and a permit, read off the stage.                      *)
LEMMA WhoHas ==
    ASSUME ModelCallsAssumption, IInv, NEW c \in Calls
    PROVE  /\ gate = c <=> AtTheGate(stage[c])
           /\ c \in holders <=> stage[c] \in Holding
           /\ gate \in Calls \cup {None} /\ None # c
           /\ holders \subseteq Calls
    BY DEF IInv, TypeOK, GateIsHeld, PermitsAreHeld, AtTheGate, ModelCallsAssumption

(* The steps that leave the shared quota, the tries and the clock alone.   *)
LEMMA KeepInv ==
    ASSUME ModelCallsAssumption, IInv, NEW c \in Calls, NEW to \in Stage, NEW nb,
           stage[c] # "ended",
           stage' = [stage EXCEPT ![c] = to], Keep, Book(ReviewOf[c], nb),
           timed => Accounted(c, to, nb),
           IF AtTheGate(to)
           THEN gate' = c /\ gate \in {None, c}
           ELSE gate' = IF gate = c THEN None ELSE gate,
           holders' = IF to \in Holding THEN holders \cup {c} ELSE holders \ {c},
           to \in Holding /\ stage[c] \notin Holding => Cardinality(holders) < permits,
           Pacing(to) => limits # {},
           to = "cleared" => ~paced \/ limits = {}
    PROVE  IInv'
<1>1. /\ budget' = IF timed THEN [budget EXCEPT ![ReviewOf[c]] = nb] ELSE budget
      /\ budget' \in [Reviews -> Budget]
      BY Booked DEF IInv, Accounted
<1>2. UNCHANGED <<configVars, quotaVars, now, since, tries, over, errors, idle>>
      BY DEF Keep
<1>3. /\ limits' = limits /\ timed' = timed /\ permits' = permits
      /\ cooldown' = cooldown /\ paced' = paced /\ full' = full
      BY <1>2 DEF configVars, quotaVars
<1>4. gate' \in Calls \cup {None} /\ holders' \subseteq Calls
      BY WhoHas
<1>5. stage' \in [Calls -> Stage]
      BY DEF IInv, TypeOK
<1>6. TypeOK'
      BY <1>1, <1>2, <1>3, <1>4, <1>5 DEF IInv, TypeOK
<1>7. SlotIsKept'
      BY <1>3, SlotStays
<1>8. ~over[ReviewOf[c]]
      BY LiveCall
<1>9. /\ configVars' = configVars /\ now' = now /\ over' = over /\ idle' = idle
      /\ \A x \in Calls : x # c => since'[x] = since[x]
      BY <1>2
<1>10. Moved(c, to, nb)
       BY <1>1, <1>8, <1>9 DEF Moved
<1>11. QED BY <1>6, <1>7, <1>10, CallMoves DEF IInv

LEMMA GiveUpInv ==
    ASSUME ModelCallsAssumption, IInv, NEW c \in Calls,
           NEW from \in {"calm", "gated", "sleeping"}, GiveUp(c, from)
    PROVE  IInv'
<1> DEFINE nb == WaitEnd(budget[ReviewOf[c]], now)
<1>1. /\ stage[c] = from /\ stage' = [stage EXCEPT ![c] = "ended"]
      /\ holders' = holders \ {c} /\ gate' = (IF gate = c THEN None ELSE gate)
      /\ Book(ReviewOf[c], nb) /\ Keep
      BY DEF GiveUp, Move
<1>2. stage[c] \in Waiting /\ stage[c] # "ended"
      BY <1>1 DEF Waiting
<1>3. timed => Accounted(c, "ended", nb)
      BY <1>2, LiveCall, WaitEndAccounted
<1> HIDE DEF nb
<1>4. ~AtTheGate("ended") /\ ~Pacing("ended") /\ "ended" \notin Holding /\ "ended" \in Stage
      BY DEF AtTheGate, Pacing, AtGate, Holding, Stage
<1>5. QED BY <1>1, <1>2, <1>3, <1>4, KeepInv

LEMMA LeaveCooldownInv ==
    ASSUME ModelCallsAssumption, IInv, NEW c \in Calls, LeaveCooldown(c)
    PROVE  IInv'
<1> DEFINE r == ReviewOf[c]
           out == WaitEnd(budget[r], now)
<1>1. PICK slept \in {0, now - since[c]} :
         LET b == CreditWait(out, now, slept) IN
         \/ Move(c, "cooling", "ended") /\ Book(r, b)
         \/ Move(c, "cooling", "calm") /\ Book(r, WaitStart(b, now))
      BY DEF LeaveCooldown
<1>2. stage[c] = "cooling" /\ UNCHANGED <<holders, gate>> /\ Keep
      BY DEF LeaveCooldown
<1>3. stage[c] \in Waiting /\ stage[c] # "ended" /\ ~over[r]
      BY <1>2, LiveCall DEF Waiting
<1>4. timed => CreditWait(out, now, slept) = out
  <2> SUFFICES ASSUME timed
               PROVE  CreditWait(out, now, slept) = out
      OBVIOUS
  <2>1. c \in Own(r)
        BY DEF Own
  <2>2. /\ budget[r] \in Budget /\ now \in Nat /\ idle[r] \in Nat /\ since[c] \in Nat
        /\ Balanced(budget[r], now, idle[r]) /\ budget[r].waiting > 0
        /\ since[c] <= now /\ Anchored(budget[r], since[c])
        BY <1>2, <1>3, <2>1, BudgetOf
  <2>3. QED BY <2>2, NothingLeftToCredit
<1>5. /\ gate # c /\ c \notin holders
      BY <1>2, WhoHas DEF AtTheGate, AtGate, Holding
<1>6. holders' = holders \ {c} /\ gate' = (IF gate = c THEN None ELSE gate)
      BY <1>2, <1>5
<1>7. /\ ~AtTheGate("ended") /\ ~Pacing("ended") /\ "ended" \notin Holding /\ "ended" \in Stage
      /\ ~AtTheGate("calm") /\ ~Pacing("calm") /\ "calm" \notin Holding /\ "calm" \in Stage
      BY DEF AtTheGate, Pacing, AtGate, Holding, Stage, Waiting
<1>8. /\ timed => Accounted(c, "ended", out)
      /\ timed => Accounted(c, "calm", WaitStart(out, now))
      BY <1>3, WaitEndAccounted, WaitAgainAccounted
<1> DEFINE e == CreditWait(out, now, slept)
           w == WaitStart(e, now)
<1>9. /\ timed => Accounted(c, "ended", e)
      /\ timed => Accounted(c, "calm", w)
      BY <1>4, <1>8
<1>10. \/ Move(c, "cooling", "ended") /\ Book(r, e)
       \/ Move(c, "cooling", "calm") /\ Book(r, w)
       BY <1>1
<1> HIDE DEF e, w
<1>11. CASE Move(c, "cooling", "ended") /\ Book(r, e)
       BY <1>2, <1>3, <1>6, <1>7, <1>9, <1>11, KeepInv DEF Move
<1>12. CASE Move(c, "cooling", "calm") /\ Book(r, w)
       BY <1>2, <1>3, <1>6, <1>7, <1>9, <1>12, KeepInv DEF Move
<1>13. QED BY <1>10, <1>11, <1>12

LEMMA CalmInv ==
    ASSUME ModelCallsAssumption, IInv, NEW c \in Calls, Calm(c)
    PROVE  IInv'
<1>1. CASE GiveUp(c, "calm")
      BY <1>1, GiveUpInv
<1>2. CASE /\ Checked(c) /\ Move(c, "calm", "queued")
           /\ UNCHANGED <<holders, gate>> /\ Keep
  <2> DEFINE nb == Flush(budget[ReviewOf[c]], now)
  <2>1. stage[c] = "calm" /\ stage' = [stage EXCEPT ![c] = "queued"] /\ Book(ReviewOf[c], nb)
        BY <1>2 DEF Move, Checked
  <2>2. /\ stage[c] \in Waiting /\ "queued" \in Waiting /\ "queued" \in Stage
        /\ stage[c] # "ended"
        BY <2>1 DEF Waiting, Stage
  <2>3. timed => Accounted(c, "queued", nb)
        BY <2>1, <2>2, LiveCall, StillAccounted
  <2> HIDE DEF nb
  <2>4. gate # c /\ c \notin holders /\ ~AtTheGate("queued") /\ "queued" \notin Holding
        /\ ~Pacing("queued")
        BY <2>1, WhoHas DEF AtTheGate, Pacing, AtGate, Holding
  <2>5. holders' = holders \ {c} /\ gate' = (IF gate = c THEN None ELSE gate)
        BY <1>2, <2>4
  <2>6. Keep
        BY <1>2
  <2>7. QED BY <2>1, <2>2, <2>3, <2>4, <2>5, <2>6, KeepInv
<1>3. QED BY <1>1, <1>2 DEF Calm

LEMMA AcquireInv ==
    ASSUME ModelCallsAssumption, IInv, NEW c \in Calls, Acquire(c)
    PROVE  IInv'
<1> DEFINE to == IF limits = {} THEN "cleared" ELSE "gated"
           nb == budget[ReviewOf[c]]
<1>1. /\ stage[c] = "queued" /\ stage' = [stage EXCEPT ![c] = to]
      /\ Cardinality(holders) < permits /\ holders' = holders \cup {c}
      /\ UNCHANGED <<gate, budget>> /\ Keep
      BY DEF Acquire, Move
<1>2. /\ stage[c] \in Waiting /\ to \in Waiting /\ to \in Stage /\ stage[c] # "ended"
      /\ to \in Holding /\ to # "cooling" /\ to # "active" /\ stage[c] # "active"
      BY <1>1 DEF Waiting, Stage, Holding
<1>3. timed => Accounted(c, to, nb)
      BY <1>2, LiveCall, StillAccounted
<1>4. ~AtTheGate(to) /\ gate # c /\ (Pacing(to) => limits # {})
      BY <1>1, WhoHas DEF AtTheGate, Pacing, AtGate
<1>5. to = "cleared" => limits = {}
      OBVIOUS
<1>6. Book(ReviewOf[c], nb)
      BY <1>1, NotBooked DEF Book, IInv
<1> HIDE DEF to, nb
<1>7. QED BY <1>1, <1>2, <1>3, <1>4, <1>5, <1>6, KeepInv

LEMMA BackInv ==
    ASSUME ModelCallsAssumption, IInv, NEW c \in Calls,
           NEW from \in {"gated", "pacing"}, Back(c, from), Keep,
           NEW nb \in {budget[ReviewOf[c]], Flush(budget[ReviewOf[c]], now)},
           Book(ReviewOf[c], nb)
    PROVE  IInv'
<1>1. /\ stage[c] = from /\ stage' = [stage EXCEPT ![c] = "calm"]
      /\ holders' = holders \ {c} /\ gate' = (IF gate = c THEN None ELSE gate)
      BY DEF Back, Move
<1>2. /\ stage[c] \in Waiting /\ "calm" \in Waiting /\ "calm" \in Stage
      /\ stage[c] # "ended" /\ stage[c] # "active"
      BY <1>1 DEF Waiting, Stage
<1>3. timed => Accounted(c, "calm", nb)
      BY <1>2, LiveCall, StillAccounted
<1>4. ~AtTheGate("calm") /\ ~Pacing("calm") /\ "calm" \notin Holding
      BY DEF AtTheGate, Pacing, AtGate, Holding
<1>5. QED BY <1>1, <1>2, <1>3, <1>4, KeepInv

LEMMA TakeGateInv ==
    ASSUME ModelCallsAssumption, IInv, NEW c \in Calls, TakeGate(c)
    PROVE  IInv'
<1> DEFINE nb == Flush(budget[ReviewOf[c]], now)
<1>1. CASE GiveUp(c, "gated")
      BY <1>1, GiveUpInv
<1>2. CASE Checked(c) /\ Back(c, "gated") /\ Keep
      BY <1>2, BackInv DEF Checked
<1>3. CASE /\ Checked(c) /\ Move(c, "gated", "pacing")
           /\ gate' = c /\ UNCHANGED holders /\ Keep
  <2>1. /\ stage[c] = "gated" /\ stage' = [stage EXCEPT ![c] = "pacing"]
        /\ Book(ReviewOf[c], nb) /\ gate = None
        BY <1>3 DEF Move, Checked, TakeGate, GateIsFree
  <2>2. /\ stage[c] \in Waiting /\ "pacing" \in Waiting /\ "pacing" \in Stage
        /\ stage[c] # "ended" /\ stage[c] # "active"
        /\ stage[c] \in Holding /\ "pacing" \in Holding /\ AtTheGate("pacing")
        BY <2>1 DEF Waiting, Stage, Holding, AtTheGate, AtGate
  <2>3. timed => Accounted(c, "pacing", nb)
        BY <2>2, LiveCall, StillAccounted
  <2> HIDE DEF nb
  <2>4. holders' = holders \cup {c}
        BY <1>3, <2>2, WhoHas
  <2>5. limits # {}
        BY <2>1 DEF IInv, PacingHasLimits
  <2>6. QED BY <1>3, <2>1, <2>2, <2>3, <2>4, <2>5, KeepInv
<1>4. QED BY <1>1, <1>2, <1>3 DEF TakeGate

LEMMA PaceInv ==
    ASSUME ModelCallsAssumption, IInv, NEW c \in Calls, Pace(c)
    PROVE  IInv'
<1> DEFINE nb == budget[ReviewOf[c]]
           to == IF paced \/ full THEN "sleeping" ELSE "cleared"
<1>1. stage[c] = "pacing" /\ UNCHANGED budget /\ Keep
      BY DEF Pace
<1>2. Book(ReviewOf[c], nb)
      BY <1>1, NotBooked DEF Book, IInv
<1>3. CASE Back(c, "pacing")
      BY <1>1, <1>2, <1>3, BackInv
<1>4. CASE Move(c, "pacing", to) /\ UNCHANGED <<holders, gate>>
  <2>1. /\ stage[c] \in Waiting /\ to \in Waiting /\ to \in Stage
        /\ stage[c] # "ended" /\ stage[c] # "active" /\ to # "active" /\ to # "cooling"
        /\ stage[c] \in Holding /\ to \in Holding
        BY <1>1 DEF Waiting, Stage, Holding
  <2>2. gate = c /\ c \in holders
        BY <1>1, <2>1, WhoHas DEF AtTheGate, AtGate
  <2>3. timed => Accounted(c, to, nb)
        BY <2>1, LiveCall, StillAccounted
  <2>4. AtTheGate(to) \/ limits = {}
        BY DEF AtTheGate, AtGate
  <2>5. limits # {}
        BY <1>1 DEF IInv, PacingHasLimits, AtGate
  <2>6. to = "cleared" => ~paced
        OBVIOUS
  <2>7. stage' = [stage EXCEPT ![c] = to] /\ Keep
        BY <1>1, <1>4 DEF Move
  <2>8. holders' = holders \cup {c} /\ gate' = c
        BY <1>4, <2>2
  <2> HIDE DEF to, nb
  <2>9. QED BY <1>2, <2>1, <2>2, <2>3, <2>4, <2>5, <2>6, <2>7, <2>8, KeepInv
<1>5. QED BY <1>3, <1>4 DEF Pace

LEMMA WakeInv ==
    ASSUME ModelCallsAssumption, IInv, NEW c \in Calls, Wake(c)
    PROVE  IInv'
<1> DEFINE nb == Flush(budget[ReviewOf[c]], now)
<1>1. CASE GiveUp(c, "sleeping")
      BY <1>1, GiveUpInv
<1>2. CASE /\ Checked(c) /\ Move(c, "sleeping", "pacing")
           /\ UNCHANGED <<holders, gate>> /\ Keep
  <2>1. /\ stage[c] = "sleeping" /\ stage' = [stage EXCEPT ![c] = "pacing"]
        /\ Book(ReviewOf[c], nb)
        BY <1>2 DEF Move, Checked
  <2>2. /\ stage[c] \in Waiting /\ "pacing" \in Waiting /\ "pacing" \in Stage
        /\ stage[c] # "ended" /\ stage[c] # "active"
        /\ stage[c] \in Holding /\ "pacing" \in Holding
        /\ AtTheGate("pacing") /\ AtTheGate(stage[c])
        BY <2>1 DEF Waiting, Stage, Holding, AtTheGate, AtGate
  <2>3. timed => Accounted(c, "pacing", nb)
        BY <2>2, LiveCall, StillAccounted
  <2> HIDE DEF nb
  <2>4. gate = c /\ holders = holders \cup {c}
        BY <2>2, WhoHas
  <2>5. limits # {}
        BY <2>1 DEF IInv, PacingHasLimits, AtGate
  <2>6. QED BY <1>2, <2>1, <2>2, <2>3, <2>4, <2>5, KeepInv
<1>3. QED BY <1>1, <1>2 DEF Wake

LEMMA RestedInv ==
    ASSUME ModelCallsAssumption, IInv, NEW c \in Calls, Rested(c)
    PROVE  IInv'
<1> DEFINE nb == budget[ReviewOf[c]]
<1>1. /\ stage[c] = "resting" /\ stage' = [stage EXCEPT ![c] = "new"]
      /\ UNCHANGED <<holders, gate, budget>> /\ Keep
      BY DEF Rested, Move
<1>2. /\ stage[c] \notin Waiting /\ "new" \notin Waiting /\ "new" \in Stage
      /\ stage[c] # "ended" /\ stage[c] # "active"
      BY <1>1 DEF Waiting, Stage
<1>3. timed => Accounted(c, "new", nb)
      BY <1>2, LiveCall, StillAccounted
<1>4. gate # c /\ c \notin holders /\ ~AtTheGate("new") /\ "new" \notin Holding
      /\ ~Pacing("new")
      BY <1>1, WhoHas DEF AtTheGate, Pacing, AtGate, Holding
<1>5. Book(ReviewOf[c], nb)
      BY <1>1, NotBooked DEF Book, IInv
<1> HIDE DEF nb
<1>6. holders' = holders \ {c} /\ gate' = (IF gate = c THEN None ELSE gate)
      BY <1>1, <1>4
<1>7. Keep
      BY <1>1
<1>8. QED BY <1>1, <1>2, <1>3, <1>4, <1>5, <1>6, <1>7, KeepInv

(* Any step in which call c moves, from the slots and the types.           *)
LEMMA MovedInv ==
    ASSUME ModelCallsAssumption, IInv, NEW c \in Calls, NEW to \in Stage, NEW nb,
           Moved(c, to, nb), SlotIsKept',
           cooldown' \in BOOLEAN, paced' \in BOOLEAN, full' \in BOOLEAN,
           since' = since, tries' \in [Calls -> Nat], errors' \in 0..MaxErrors
    PROVE  IInv'
<1>1. /\ limits' = limits /\ timed' = timed /\ permits' = permits
      /\ stage' = [stage EXCEPT ![c] = to]
      /\ now' = now /\ over' = over /\ idle' = idle
      BY DEF Moved, configVars
<1>2. gate' \in Calls \cup {None} /\ holders' \subseteq Calls
      BY WhoHas DEF Moved
<1>3. budget' \in [Reviews -> Budget]
  <2>1. CASE timed
    <3>1. nb \in Budget /\ budget' = [budget EXCEPT ![ReviewOf[c]] = nb]
          BY <2>1 DEF Moved, Accounted
    <3>2. QED BY <3>1 DEF IInv, TypeOK
  <2>2. CASE ~timed
        BY <2>2 DEF Moved, IInv, TypeOK
  <2>3. QED BY <2>1, <2>2
<1>4. TypeOK'
      BY <1>1, <1>2, <1>3 DEF IInv, TypeOK
<1>5. QED BY <1>4, CallMoves DEF IInv

LEMMA DispatchInv ==
    ASSUME ModelCallsAssumption, IInv, NEW c \in Calls, Dispatch(c)
    PROVE  IInv'
<1> DEFINE r == ReviewOf[c]
           out == WaitEnd(budget[r], now)
           sent == RequestStart(out, now)
<1>1. /\ stage[c] = "cleared"
      /\ paced' = (paced \/ "rps" \in limits)
      /\ gate' = (IF gate = c THEN None ELSE gate)
      /\ UNCHANGED <<configVars, cooldown, full, now, since, tries, over, errors, idle>>
      BY DEF Dispatch
<1>2. \/ Move(c, "cleared", "ended") /\ holders' = holders \ {c} /\ Book(r, out)
      \/ Move(c, "cleared", "active") /\ Book(r, sent) /\ UNCHANGED holders
      BY DEF Dispatch
<1>3. stage[c] \in Waiting /\ stage[c] \in Holding /\ ~over[r]
      BY <1>1, LiveCall DEF Waiting, Holding
<1>4. /\ timed => Accounted(c, "ended", out)
      /\ timed => Accounted(c, "active", sent)
      BY <1>3, WaitEndAccounted, DispatchAccounted
<1> HIDE DEF out, sent
<1>5. /\ ~AtTheGate("ended") /\ ~Pacing("ended") /\ "ended" \notin Holding
      /\ "ended" \in Stage
      /\ ~AtTheGate("active") /\ ~Pacing("active") /\ "active" \in Holding
      /\ "active" \in Stage
      BY DEF AtTheGate, Pacing, AtGate, Holding, Stage
<1>6. /\ cooldown' \in BOOLEAN /\ paced' \in BOOLEAN /\ full' \in BOOLEAN
      /\ since' = since /\ tries' \in [Calls -> Nat] /\ errors' \in 0..MaxErrors
      BY <1>1 DEF IInv, TypeOK
<1>7. limits' = limits
      BY <1>1 DEF configVars
<1>8. ASSUME NEW to \in {"ended", "active"}, stage' = [stage EXCEPT ![c] = to]
      PROVE  SlotIsKept'
  <2> SUFFICES ASSUME NEW x \in Calls, stage'[x] = "cleared", "rps" \in limits
               PROVE  FALSE
      BY <1>7 DEF SlotIsKept
  <2>1. x # c /\ stage[x] = "cleared"
        BY <1>8 DEF IInv, TypeOK
  <2>2. AtTheGate(stage[x]) /\ AtTheGate(stage[c])
        BY <1>1, <2>1 DEF AtTheGate
  <2>3. gate = x /\ gate = c
        BY <2>2, WhoHas
  <2>4. QED BY <2>1, <2>3
<1>9. CASE Move(c, "cleared", "ended") /\ holders' = holders \ {c} /\ Book(r, out)
  <2>1. stage' = [stage EXCEPT ![c] = "ended"]
        BY <1>9 DEF Move
  <2>2. budget' = IF timed THEN [budget EXCEPT ![ReviewOf[c]] = out] ELSE budget
        BY <1>9 DEF Book
  <2>3. Moved(c, "ended", out)
        BY <1>1, <1>3, <1>4, <1>5, <1>9, <2>1, <2>2 DEF Moved
  <2>4. QED BY <1>5, <1>6, <1>8, <2>1, <2>3, MovedInv
<1>10. CASE Move(c, "cleared", "active") /\ Book(r, sent) /\ UNCHANGED holders
  <2>1. stage' = [stage EXCEPT ![c] = "active"]
        BY <1>10 DEF Move
  <2>2. budget' = IF timed THEN [budget EXCEPT ![ReviewOf[c]] = sent] ELSE budget
        BY <1>10 DEF Book
  <2>3. holders' = holders \cup {c}
        BY <1>3, <1>10, WhoHas
  <2>4. Moved(c, "active", sent)
        BY <1>1, <1>3, <1>4, <1>5, <2>1, <2>2, <2>3 DEF Moved
  <2>5. QED BY <1>5, <1>6, <1>8, <2>1, <2>4, MovedInv
<1>11. QED BY <1>2, <1>9, <1>10

LEMMA AnswerInv ==
    ASSUME ModelCallsAssumption, IInv, NEW c \in Calls, Answer(c)
    PROVE  IInv'
<1> DEFINE r == ReviewOf[c]
           nb == RequestEnd(budget[r], now)
<1>1. /\ stage[c] = "active" /\ holders' = holders \ {c} /\ Book(r, nb)
      /\ UNCHANGED <<configVars, quotaVars, now, gate, since, over, idle>>
      BY DEF Answer
<1>2. PICK to \in {"succeeded", "limited", "resting", "ended"} :
         stage' = [stage EXCEPT ![c] = to]
      BY DEF Answer, Move
<1>3. tries' \in [Calls -> Nat] /\ errors' \in 0..MaxErrors
  <2>1. CASE UNCHANGED <<tries, errors>>
        BY <2>1 DEF IInv, TypeOK
  <2>2. CASE /\ errors < MaxErrors /\ errors' = errors + 1
             /\ tries' = [tries EXCEPT ![c] = @ + 1]
        BY <2>2 DEF IInv, TypeOK, ModelCallsAssumption
  <2>3. QED BY <2>1, <2>2 DEF Answer
<1>4. timed => Accounted(c, to, nb)
      BY <1>1, LiveCall, AnswerAccounted
<1> HIDE DEF nb
<1>5. /\ to \in Stage /\ ~AtTheGate(to) /\ ~Pacing(to) /\ to \notin Holding
      /\ to # "cleared"
      BY DEF AtTheGate, Pacing, AtGate, Holding, Stage
<1>6. gate # c /\ ~over[r]
      BY <1>1, WhoHas, LiveCall DEF AtTheGate, AtGate
<1>7. gate' = IF gate = c THEN None ELSE gate
      BY <1>1, <1>6
<1>8. budget' = IF timed THEN [budget EXCEPT ![ReviewOf[c]] = nb] ELSE budget
      BY <1>1 DEF Book
<1>9. Moved(c, to, nb)
      BY <1>1, <1>2, <1>4, <1>5, <1>6, <1>7, <1>8 DEF Moved
<1>10. SlotIsKept'
       BY <1>1, <1>2, <1>5, SlotStays DEF configVars, quotaVars
<1>11. /\ cooldown' \in BOOLEAN /\ paced' \in BOOLEAN /\ full' \in BOOLEAN
       /\ since' = since
       BY <1>1 DEF IInv, TypeOK, quotaVars
<1>12. QED BY <1>3, <1>5, <1>9, <1>10, <1>11, MovedInv

(* What a report leaves: the call moves on, and holds nothing.             *)
LEMMA ReportMoves ==
    ASSUME ModelCallsAssumption, IInv, NEW c \in Calls,
           NEW from \in {"succeeded", "limited"}, NEW to \in {"ended", "new"},
           Move(c, from, to), cooldown' \in BOOLEAN, full' \in BOOLEAN,
           UNCHANGED <<configVars, paced, now, holders, gate, since, tries, budget,
                       over, errors, idle>>
    PROVE  IInv'
<1> DEFINE nb == budget[ReviewOf[c]]
<1>1. stage[c] = from /\ stage' = [stage EXCEPT ![c] = to]
      BY DEF Move
<1>2. /\ stage[c] \notin Waiting /\ to \notin Waiting /\ to \in Stage
      /\ stage[c] # "ended" /\ stage[c] # "active" /\ to # "active" /\ to # "cooling"
      /\ to # "cleared" /\ ~AtTheGate(to) /\ ~Pacing(to) /\ to \notin Holding
      BY <1>1 DEF Waiting, Stage, AtTheGate, Pacing, AtGate, Holding
<1>3. timed => Accounted(c, to, nb)
      BY <1>2, LiveCall, StillAccounted
<1>4. gate # c /\ c \notin holders /\ ~over[ReviewOf[c]]
      BY <1>1, <1>2, WhoHas, LiveCall DEF AtTheGate, AtGate, Holding
<1>5. budget' = IF timed THEN [budget EXCEPT ![ReviewOf[c]] = nb] ELSE budget
      BY NotBooked DEF IInv
<1> HIDE DEF nb
<1>6. holders' = holders \ {c} /\ gate' = (IF gate = c THEN None ELSE gate)
      BY <1>4
<1>7. Moved(c, to, nb)
      BY <1>1, <1>2, <1>3, <1>4, <1>5, <1>6 DEF Moved
<1>8. SlotIsKept'
      BY <1>1, <1>2, SlotStays DEF configVars
<1>9. /\ paced' \in BOOLEAN /\ since' = since /\ tries' \in [Calls -> Nat]
      /\ errors' \in 0..MaxErrors
      BY DEF IInv, TypeOK
<1>10. QED BY <1>2, <1>7, <1>8, <1>9, MovedInv

LEMMA ReportSuccessInv ==
    ASSUME ModelCallsAssumption, IInv, NEW c \in Calls, ReportSuccess(c)
    PROVE  IInv'
<1>1. cooldown' \in BOOLEAN /\ full' \in BOOLEAN
      BY DEF ReportSuccess, IInv, TypeOK
<1>2. QED BY <1>1, ReportMoves DEF ReportSuccess

LEMMA ReportLimitInv ==
    ASSUME ModelCallsAssumption, IInv, NEW c \in Calls, ReportLimit(c)
    PROVE  IInv'
<1>1. cooldown' \in BOOLEAN /\ full' \in BOOLEAN
      BY DEF ReportLimit, IInv, TypeOK
<1>2. QED BY <1>1, ReportMoves DEF ReportLimit

-----------------------------------------------------------------------------
(* Reviews and time.                                                       *)

LEMMA AbortInv ==
    ASSUME ModelCallsAssumption, IInv, NEW r \in Reviews, Abort(r)
    PROVE  IInv'
<1>1. /\ ~over[r] /\ over' = [over EXCEPT ![r] = TRUE]
      /\ stage' = [c \in Calls |-> IF c \in Own(r) THEN "ended" ELSE stage[c]]
      /\ holders' = holders \ Own(r)
      /\ gate' = (IF gate \in Own(r) THEN None ELSE gate)
      /\ UNCHANGED <<now, since, tries, budget, errors, idle>>
      /\ limits' = limits /\ timed' = timed /\ permits' = permits
      /\ cooldown' = cooldown /\ paced' = paced /\ full' = full
      BY DEF Abort, configVars, quotaVars
<1>2. /\ \A c \in Own(r) : c \in Calls /\ stage'[c] = "ended"
      /\ \A c \in Calls \ Own(r) : stage'[c] = stage[c]
      BY <1>1 DEF Own
<1>3. "ended" \notin Holding /\ "ended" \notin AtGate /\ "ended" \in Stage
      BY DEF Holding, AtGate, Stage
<1>4. TypeOK'
  <2>1. stage' \in [Calls -> Stage]
        BY <1>1, <1>3 DEF IInv, TypeOK
  <2>2. over' \in [Reviews -> BOOLEAN]
        BY <1>1 DEF IInv, TypeOK
  <2>3. gate' \in Calls \cup {None} /\ holders' \subseteq Calls
        BY <1>1 DEF IInv, TypeOK
  <2>4. QED BY <1>1, <2>1, <2>2, <2>3 DEF IInv, TypeOK
<1>5. PermitsAreHeld'
  <2>1. holders' = {c \in Calls : stage'[c] \in Holding}
        BY <1>1, <1>2, <1>3 DEF IInv, PermitsAreHeld
  <2>2. IsFiniteSet(holders) /\ Cardinality(holders) \in Nat /\ permits \in Nat
        BY FS_Subset, FS_CardinalityType DEF ModelCallsAssumption, IInv, TypeOK
  <2>3. holders' \subseteq holders
        BY <1>1
  <2>4. Cardinality(holders') <= Cardinality(holders) /\ Cardinality(holders') \in Nat
        BY <2>2, <2>3, FS_Subset, FS_CardinalityType
  <2>5. Cardinality(holders') <= permits'
        BY <1>1, <2>2, <2>4 DEF IInv, PermitsAreHeld
  <2>6. QED BY <2>1, <2>5 DEF PermitsAreHeld
<1>6. GateIsHeld'
  <2> SUFFICES ASSUME NEW c \in Calls
               PROVE  gate' = c <=> stage'[c] \in AtGate
                                    \/ (stage'[c] = "cleared" /\ limits # {})
      BY <1>1 DEF GateIsHeld
  <2>1. None # c
        BY DEF ModelCallsAssumption
  <2>2. CASE c \in Own(r)
        BY <1>1, <1>2, <1>3, <2>1, <2>2
  <2>3. CASE c \notin Own(r)
        BY <1>1, <1>2, <2>1, <2>3 DEF IInv, GateIsHeld
  <2>4. QED BY <2>2, <2>3
<1>7. PacingHasLimits' /\ SlotIsKept'
  <2>1. \A c \in Calls : stage'[c] = "ended" \/ stage'[c] = stage[c]
        BY <1>2
  <2>2. QED BY <1>1, <1>3, <2>1 DEF IInv, PacingHasLimits, SlotIsKept
<1>8. ASSUME NEW q \in Reviews, timed', ~over'[q]
      PROVE  /\ timed /\ ~over[q]
             /\ Active(q)' = Active(q) /\ Parked(q)' = Parked(q)
             /\ \A c \in Own(q) : stage'[c] = stage[c]
  <2>1. q # r /\ ~over[q] /\ timed
        BY <1>1, <1>8 DEF IInv, TypeOK
  <2>2. \A c \in Own(q) : stage'[c] = stage[c]
        BY <1>2, <2>1 DEF Own
  <2>3. Active(q)' = Active(q) /\ Parked(q)' = Parked(q)
        BY <2>2 DEF Active, Parked, Own
  <2>4. QED BY <2>1, <2>2, <2>3
<1>9. CountsAreRight'
      BY <1>1, <1>8 DEF IInv, CountsAreRight
<1>10. TrackersAreRight'
  <2> SUFFICES ASSUME NEW q \in Reviews, timed', ~over'[q]
               PROVE  /\ Balanced(budget[q], now, idle[q])
                      /\ \A c \in Own(q) : stage'[c] = "cooling" =>
                            since[c] <= now /\ Anchored(budget[q], since[c])
      BY <1>1 DEF TrackersAreRight, Own, Balanced, Anchored
  <2>1. QED BY <1>8 DEF IInv, TrackersAreRight
<1>11. OverMeansEnded'
  <2> SUFFICES ASSUME NEW c \in Calls, over'[ReviewOf[c]]
               PROVE  stage'[c] = "ended"
      BY DEF OverMeansEnded
  <2>1. CASE c \in Own(r)
        BY <1>2, <2>1
  <2>2. CASE c \notin Own(r)
    <3>1. ReviewOf[c] # r /\ ReviewOf[c] \in Reviews
          BY <2>2 DEF Own, ModelCallsAssumption
    <3>2. over[ReviewOf[c]]
          BY <1>1, <3>1 DEF IInv, TypeOK
    <3>3. QED BY <1>2, <2>2, <3>2 DEF IInv, OverMeansEnded
  <2>3. QED BY <2>1, <2>2
<1>12. QED BY <1>4, <1>5, <1>6, <1>7, <1>9, <1>10, <1>11 DEF IInv

LEMMA WatchInv ==
    ASSUME ModelCallsAssumption, IInv, NEW r \in Reviews, Watch(r)
    PROVE  IInv'
<1> DEFINE b == Flush(budget[r], now)
<1>1. CASE Abort(r)
      BY <1>1, AbortInv
<1>2. CASE /\ ~over[r] /\ Book(r, b)
           /\ UNCHANGED <<configVars, quotaVars, callVars, now, holders, gate, over,
                          errors, idle>>
  <2>1. timed
        BY DEF Watch
  <2>2. /\ limits' = limits /\ timed' = timed /\ permits' = permits
        /\ cooldown' = cooldown /\ paced' = paced /\ full' = full
        /\ stage' = stage /\ since' = since /\ tries' = tries
        /\ UNCHANGED <<now, holders, gate, over, errors, idle>>
        BY <1>2 DEF configVars, quotaVars, callVars
  <2>3. /\ budget[r] \in Budget /\ now \in Nat /\ idle[r] \in Nat
        /\ \A c \in Calls : since[c] \in Nat
        BY DEF IInv, TypeOK
  <2>4. Balanced(budget[r], now, idle[r])
        BY <1>2, <2>1 DEF IInv, TrackersAreRight
  <2>5. /\ b \in Budget /\ Balanced(b, now, idle[r])
        /\ b.active = budget[r].active /\ b.waiting = budget[r].waiting
        /\ \A s \in Nat : Anchored(budget[r], s) => Anchored(b, s)
        BY <2>3, <2>4, FlushBalanced
  <2> HIDE DEF b
  <2>6. budget' = [budget EXCEPT ![r] = b]
        BY <1>2, <2>1 DEF Book
  <2>7. /\ budget' \in [Reviews -> Budget] /\ budget'[r] = b
        /\ \A q \in Reviews : q # r => budget'[q] = budget[q]
        BY <2>5, <2>6 DEF IInv, TypeOK
  <2>8. TypeOK'
        BY <2>2, <2>7 DEF IInv, TypeOK
  <2>9. /\ PermitsAreHeld' /\ GateIsHeld' /\ PacingHasLimits' /\ SlotIsKept'
        /\ OverMeansEnded'
        BY <2>2 DEF IInv, PermitsAreHeld, GateIsHeld, PacingHasLimits, SlotIsKept,
                    OverMeansEnded
  <2>10. \A q \in Reviews : Active(q)' = Active(q) /\ Parked(q)' = Parked(q)
         BY <2>2 DEF Active, Parked, Own
  <2>11. CountsAreRight'
         BY <2>2, <2>5, <2>7, <2>10 DEF IInv, CountsAreRight
  <2>12. TrackersAreRight'
    <3> SUFFICES ASSUME NEW q \in Reviews, timed, ~over[q]
                 PROVE  /\ Balanced(budget'[q], now, idle[q])
                        /\ \A c \in Own(q) : stage[c] = "cooling" =>
                              since[c] <= now /\ Anchored(budget'[q], since[c])
        BY <2>2 DEF TrackersAreRight, Own, Balanced, Anchored
    <3>1. /\ Balanced(budget[q], now, idle[q])
          /\ \A c \in Own(q) : stage[c] = "cooling" =>
                since[c] <= now /\ Anchored(budget[q], since[c])
          BY DEF IInv, TrackersAreRight
    <3>2. CASE q = r
      <4>1. \A c \in Own(q) : since[c] \in Nat
            BY <2>3 DEF Own
      <4>2. QED BY <2>5, <2>7, <3>1, <3>2, <4>1
    <3>3. CASE q # r
          BY <2>7, <3>1, <3>3
    <3>4. QED BY <3>2, <3>3
  <2>13. QED BY <2>8, <2>9, <2>11, <2>12 DEF IInv
<1>3. QED BY <1>1, <1>2 DEF Watch

(* A review that only waits has a budget that says so.                     *)
LEMMA WaitsAreKnown ==
    ASSUME ModelCallsAssumption, IInv, NEW r \in Reviews, timed, ~over[r]
    PROVE  OnlyWaits(r) <=> budget[r].active = 0 /\ budget[r].waiting > 0
<1>1. /\ budget[r].active = Cardinality(Active(r))
      /\ budget[r].waiting = Cardinality(Parked(r))
      BY DEF IInv, CountsAreRight
<1>2. /\ IsFiniteSet(Active(r)) /\ Cardinality(Active(r)) \in Nat
      /\ IsFiniteSet(Parked(r)) /\ Cardinality(Parked(r)) \in Nat
      BY StandingSets, StandingIsFinite
<1>3. /\ Cardinality(Active(r)) = 0 <=> Active(r) = {}
      /\ Cardinality(Parked(r)) = 0 <=> Parked(r) = {}
      BY <1>2, FS_EmptySet
<1>4. Cardinality(Parked(r)) > 0 <=> Parked(r) # {}
      BY <1>2, <1>3
<1>5. QED BY <1>1, <1>3, <1>4 DEF OnlyWaits

LEMMA TickInv ==
    ASSUME ModelCallsAssumption, IInv, Tick
    PROVE  IInv'
<1>1. /\ limits' = limits /\ timed' = timed /\ permits' = permits
      /\ cooldown' = cooldown /\ paced' = paced /\ full' = full
      /\ stage' = stage /\ since' = since /\ tries' = tries
      /\ UNCHANGED <<holders, gate, budget, over, errors>>
      /\ now < MaxTime /\ now' = now + 1
      /\ idle' = [r \in Reviews |-> IF OnlyWaits(r) THEN idle[r] + 1 ELSE idle[r]]
      BY DEF Tick, configVars, quotaVars, callVars
<1>2. now \in Nat /\ now' \in 0..MaxTime
      BY <1>1 DEF IInv, TypeOK, ModelCallsAssumption
<1>3. idle' \in [Reviews -> Nat]
      BY <1>1 DEF IInv, TypeOK
<1>4. TypeOK'
      BY <1>1, <1>2, <1>3 DEF IInv, TypeOK
<1>5. /\ PermitsAreHeld' /\ GateIsHeld' /\ PacingHasLimits' /\ SlotIsKept'
      /\ OverMeansEnded'
      BY <1>1 DEF IInv, PermitsAreHeld, GateIsHeld, PacingHasLimits, SlotIsKept,
                  OverMeansEnded
<1>6. \A q \in Reviews : Active(q)' = Active(q) /\ Parked(q)' = Parked(q)
      BY <1>1 DEF Active, Parked, Own
<1>7. CountsAreRight'
      BY <1>1, <1>6 DEF IInv, CountsAreRight
<1>8. ASSUME NEW r \in Reviews, timed, ~over[r]
      PROVE  /\ Balanced(budget[r], now + 1, idle'[r])
             /\ \A c \in Own(r) : stage[c] = "cooling" =>
                   since[c] <= now + 1 /\ Anchored(budget[r], since[c])
  <2> DEFINE b == budget[r]
  <2>1. /\ b.deadline \in Nat /\ b.active \in Nat /\ b.waiting \in Nat
        /\ b.since \in Nat \cup {-1} /\ b.credited \in Nat \cup {-1}
        /\ b.activeEnd \in Nat \cup {-1} /\ idle[r] \in Nat /\ Timeout \in Nat
        /\ \A c \in Own(r) : since[c] \in Nat
        BY DEF IInv, TypeOK, Budget, Instant, Never, ModelCallsAssumption, Own
  <2>2. /\ Balanced(b, now, idle[r])
        /\ \A c \in Own(r) : stage[c] = "cooling" =>
              since[c] <= now /\ Anchored(b, since[c])
        BY <1>8 DEF IInv, TrackersAreRight
  <2>3. idle'[r] = IF b.since # Never THEN idle[r] + 1 ELSE idle[r]
        BY <1>1, <1>8, <2>2, WaitsAreKnown DEF Balanced
  <2> HIDE DEF b
  <2>4. Balanced(b, now + 1, idle'[r])
        BY <1>2, <2>1, <2>2, <2>3 DEF Balanced, Never
  <2>5. \A c \in Own(r) : stage[c] = "cooling" =>
           since[c] <= now + 1 /\ Anchored(b, since[c])
        BY <1>2, <2>1, <2>2
  <2>6. QED BY <2>4, <2>5 DEF b
<1>9. TrackersAreRight'
      BY <1>1, <1>8 DEF TrackersAreRight, Own, Balanced, Anchored
<1>10. QED BY <1>4, <1>5, <1>7, <1>9 DEF IInv

LEMMA ElapseInv ==
    ASSUME ModelCallsAssumption, IInv, Elapse
    PROVE  IInv'
<1>1. /\ limits' = limits /\ timed' = timed /\ permits' = permits
      /\ stage' = stage /\ since' = since /\ tries' = tries
      /\ UNCHANGED <<now, holders, gate, budget, over, errors, idle>>
      BY DEF Elapse, CooldownEnds, SlotComes, WindowSlides, Others, configVars, callVars
<1>2. /\ cooldown' \in {cooldown, FALSE} /\ paced' \in {paced, FALSE}
      /\ full' \in {full, FALSE}
      BY DEF Elapse, CooldownEnds, SlotComes, WindowSlides
<1>3. TypeOK'
      BY <1>1, <1>2 DEF IInv, TypeOK
<1>4. /\ PermitsAreHeld' /\ GateIsHeld' /\ PacingHasLimits' /\ OverMeansEnded'
      BY <1>1 DEF IInv, PermitsAreHeld, GateIsHeld, PacingHasLimits, OverMeansEnded
<1>5. SlotIsKept'
      BY <1>1, <1>2 DEF IInv, SlotIsKept
<1>6. \A q \in Reviews : Active(q)' = Active(q) /\ Parked(q)' = Parked(q)
      BY <1>1 DEF Active, Parked, Own
<1>7. CountsAreRight' /\ TrackersAreRight'
      BY <1>1, <1>6 DEF IInv, CountsAreRight, TrackersAreRight, Own, Balanced, Anchored
<1>8. QED BY <1>3, <1>4, <1>5, <1>7 DEF IInv

LEMMA InitInv ==
    ASSUME ModelCallsAssumption, Init
    PROVE  IInv
<1>1. TypeOK
  <2>1. stage \in [Calls -> Stage] /\ since \in [Calls -> Nat] /\ tries \in [Calls -> Nat]
        BY DEF Init, Stage
  <2>2. budget \in [Reviews -> Budget]
        BY DEF Init, Budget, Instant, Never, ModelCallsAssumption
  <2>3. over \in [Reviews -> BOOLEAN] /\ idle \in [Reviews -> Nat]
        BY DEF Init
  <2>4. now \in 0..MaxTime /\ errors \in 0..MaxErrors
        BY DEF Init, ModelCallsAssumption
  <2>5. QED BY <2>1, <2>2, <2>3, <2>4 DEF Init, TypeOK
<1>2. \A c \in Calls : stage[c] = "unmade"
      BY DEF Init
<1>3. /\ "unmade" \notin Holding /\ "unmade" \notin AtGate /\ "unmade" \notin Waiting
      BY DEF Holding, AtGate, Waiting
<1>4. PermitsAreHeld
  <2>1. holders = {c \in Calls : stage[c] \in Holding}
        BY <1>2, <1>3 DEF Init
  <2>2. Cardinality(holders) = 0
        BY FS_EmptySet DEF Init
  <2>3. QED BY <1>1, <2>1, <2>2 DEF PermitsAreHeld, TypeOK, ModelCallsAssumption
<1>5. GateIsHeld
      BY <1>2, <1>3 DEF GateIsHeld, Init, ModelCallsAssumption
<1>6. PacingHasLimits /\ SlotIsKept
      BY <1>2, <1>3 DEF PacingHasLimits, SlotIsKept
<1>7. \A r \in Reviews : Active(r) = {} /\ Parked(r) = {}
      BY <1>2, <1>3 DEF Active, Parked, Own
<1>8. Cardinality({}) = 0
      BY FS_EmptySet
<1>9. \A r \in Reviews : /\ budget[r].active = 0 /\ budget[r].waiting = 0
                         /\ budget[r].deadline = Timeout
                         /\ budget[r].since = Never /\ budget[r].credited = Never
                         /\ budget[r].activeEnd = Never
                         /\ idle[r] = 0
      BY DEF Init
<1>10. CountsAreRight
       BY <1>7, <1>8, <1>9 DEF CountsAreRight
<1>11. TrackersAreRight
  <2>1. \A r \in Reviews : Balanced(budget[r], now, idle[r])
        BY <1>9 DEF Balanced, Never, Init, ModelCallsAssumption
  <2>2. QED BY <1>2, <2>1 DEF TrackersAreRight, Own
<1>12. OverMeansEnded
       BY DEF OverMeansEnded, Init, ModelCallsAssumption
<1>13. QED BY <1>1, <1>4, <1>5, <1>6, <1>10, <1>11, <1>12 DEF IInv

-----------------------------------------------------------------------------
(* The theorems.                                                           *)

LEMMA StepInv ==
    ASSUME ModelCallsAssumption, IInv, [Next]_vars
    PROVE  IInv'
<1>1. ASSUME NEW c \in Calls, Begin(c, "unmade") \/ CallStep(c)
      PROVE  IInv'
      BY <1>1, BeginInv, LeaveCooldownInv, CalmInv, AcquireInv, TakeGateInv, PaceInv,
         WakeInv, DispatchInv, AnswerInv, ReportSuccessInv, ReportLimitInv, RestedInv
         DEF CallStep
<1>2. ASSUME NEW r \in Reviews, Cancel(r) \/ Watch(r)
      PROVE  IInv'
      BY <1>2, AbortInv, WatchInv DEF Cancel
<1>3. CASE Tick \/ Elapse
      BY <1>3, TickInv, ElapseInv
<1>4. CASE UNCHANGED vars
  <2>1. /\ limits' = limits /\ timed' = timed /\ permits' = permits
        /\ stage' = stage /\ since' = since /\ tries' = tries
        /\ cooldown' = cooldown /\ paced' = paced /\ full' = full
        /\ UNCHANGED <<now, holders, gate, budget, over, errors, idle>>
        BY <1>4 DEF vars
  <2>2. /\ TypeOK' /\ PermitsAreHeld' /\ GateIsHeld' /\ PacingHasLimits'
        /\ SlotIsKept' /\ OverMeansEnded'
        BY <2>1 DEF IInv, TypeOK, PermitsAreHeld, GateIsHeld, PacingHasLimits,
                    SlotIsKept, OverMeansEnded
  <2>3. \A q \in Reviews : Active(q)' = Active(q) /\ Parked(q)' = Parked(q)
        BY <2>1 DEF Active, Parked, Own
  <2>4. CountsAreRight' /\ TrackersAreRight'
        BY <2>1, <2>3 DEF IInv, CountsAreRight, TrackersAreRight, Own, Balanced, Anchored
  <2>5. QED BY <2>2, <2>4 DEF IInv
<1>5. QED BY <1>1, <1>2, <1>3, <1>4 DEF Next

(* The invariant holds of every configuration: permits and the gate are    *)
(* with the calls that need them (concurrency_limited_provider.rs 86-134,  *)
(* quota.rs 209-247), and the tracker's counts and its idle wait are right *)
(* (backoff_provider.rs 89-175).                                           *)
THEOREM Invariance ==
    ASSUME ModelCallsAssumption
    PROVE  Spec => []IInv
<1>1. Init => IInv
      BY InitInv
<1>2. IInv /\ [Next]_vars => IInv'
      BY StepInv
<1>3. QED BY <1>1, <1>2, PTL DEF Spec

(* The deadline of a review has moved by the ticks in which it only        *)
(* waited, for any number of calls that overlap in any way                 *)
(* (backoff_provider.rs 89-175).                                           *)
THEOREM CreditIsIdleTimeAlways ==
    ASSUME ModelCallsAssumption
    PROVE  Spec => []CreditIsIdleTime
<1>1. IInv => CreditIsIdleTime
  <2> SUFFICES ASSUME IInv, NEW r \in Reviews, timed, ~over[r]
               PROVE  Flush(budget[r], now).deadline = Timeout + idle[r]
      BY DEF CreditIsIdleTime
  <2>1. budget[r] \in Budget /\ now \in Nat /\ idle[r] \in Nat
        BY DEF IInv, TypeOK
  <2>2. Balanced(budget[r], now, idle[r])
        BY DEF IInv, TrackersAreRight
  <2>3. QED BY <2>1, <2>2, FlushBalanced
<1>2. QED BY <1>1, Invariance, PTL

(* No request goes out in the slot of another, for any number of calls     *)
(* (quota.rs 209-253).                                                     *)
THEOREM SlotsAreNotSharedAlways ==
    ASSUME ModelCallsAssumption
    PROVE  Spec => SlotsAreNotShared
<1> DEFINE Alone == \A c \in Calls :
              stage[c] = "cleared" /\ stage'[c] = "active" /\ "rps" \in limits => ~paced
<1>1. IInv /\ [Next]_vars => [Alone]_vars
      BY DEF IInv, SlotIsKept
<1>2. Spec => [][Alone]_vars
  <2> HIDE DEF Alone
  <2>1. QED BY <1>1, Invariance, PTL DEF Spec
<1>3. QED BY <1>2 DEF SlotsAreNotShared

(* Calls do not wait for each other in a ring, whatever their number and   *)
(* that of the permits (concurrency_limited_provider.rs 86-134, quota.rs   *)
(* 209-247).                                                               *)
THEOREM NoCircularWaitEver ==
    ASSUME ModelCallsAssumption
    PROVE  Spec => []NoCircularWait
<1>1. IInv => NoCircularWait
  <2> SUFFICES ASSUME IInv, NEW c \in Calls,
                      stage[c] \in {"queued", "gated"}, ~WaitsForNone(c)
               PROVE  \E d \in holders \ {c} : WaitsForNone(d)
      BY DEF NoCircularWait
  <2>1. ASSUME ~GateIsFree
        PROVE  /\ gate \in holders /\ WaitsForNone(gate)
               /\ stage[gate] \notin {"queued", "gated"}
    <3>1. gate \in Calls
          BY <2>1 DEF IInv, TypeOK, GateIsFree
    <3>2. stage[gate] \in AtGate \cup {"cleared"}
          BY <3>1 DEF IInv, GateIsHeld
    <3>3. gate \in holders
          BY <3>1, <3>2 DEF IInv, PermitsAreHeld, AtGate, Holding
    <3>4. QED BY <3>2, <3>3 DEF WaitsForNone, AtGate
  <2>2. CASE stage[c] = "gated"
    <3>1. ~GateIsFree
          BY <2>2 DEF WaitsForNone
    <3>2. gate # c
          BY <2>1, <2>2, <3>1
    <3>3. QED BY <2>1, <3>1, <3>2
  <2>3. CASE stage[c] = "queued"
    <3>1. ~(Cardinality(holders) < permits) /\ permits \in Nat \ {0}
          BY <2>3 DEF WaitsForNone, IInv, TypeOK, ModelCallsAssumption
    <3>2. holders # {}
      <4>1. Cardinality({}) = 0
            BY FS_EmptySet, Zenon
      <4>2. holders = {} => Cardinality(holders) = 0
            BY <4>1, Zenon
      <4>3. QED BY <3>1, <4>2
    <3>3. PICK d \in holders : TRUE
          BY <3>2
    <3>4. stage[d] \in Holding /\ d # c
          BY <2>3, <3>3 DEF IInv, PermitsAreHeld, Holding
    <3>5. CASE stage[d] = "gated" /\ ~GateIsFree
          BY <2>1, <2>3, <3>5
    <3>6. CASE ~(stage[d] = "gated" /\ ~GateIsFree)
      <4>1. WaitsForNone(d)
            BY <3>4, <3>6 DEF WaitsForNone, Holding
      <4>2. QED BY <3>4, <4>1
    <3>7. QED BY <3>5, <3>6
  <2>4. QED BY <2>2, <2>3
<1>2. QED BY <1>1, Invariance, PTL

=============================================================================
