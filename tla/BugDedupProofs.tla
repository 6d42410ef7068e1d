-------------------------- MODULE BugDedupProofs --------------------------
(***************************************************************************)
(* Proofs about BugDedup, for any number of processes, candidates and      *)
(* attempts and any lease duration, when timers and calls are prompt.      *)
(***************************************************************************)
EXTENDS BugDedup, TLAPS

PromptnessAssumed == PromptTimers /\ PromptCalls

USE BugDedupAssumption
    DEF PC, Waiting, Locked, Acquired, Inside, Checking, LateCheck

(* The initial state satisfies the invariant.                              *)
LEMMA InitIInv == Init => IInv
  BY DEF Init, IInv, TypeOK, LeaseInv, SeenInv, OneOpenPerDefect, VerdictInv,
         FoldsAreRight, Numbered, Deciding, NoOwner

(* At most one attempt is inside, for it owns the lease.                   *)
LEMMA InsideIsExclusive == TypeOK /\ LeaseInv => Exclusive
  BY DEF LeaseInv, Exclusive, Owner, TypeOK

(* Types.                                                                  *)
LEMMA TypeStep ==
  ASSUME TypeOK, Numbered, [Next]_vars
  PROVE  TypeOK'
<1> USE DEF TypeOK
<1>1. ASSUME NEW b \in Bugs, Step(b) PROVE TypeOK'
  <2>1. CASE Verify(b)
    BY <2>1 DEF Verify, Goto
  <2>2. CASE Lock(b)
    BY <2>2 DEF Lock, Goto
  <2>3. CASE Acquire(b)
    <3>1. Owner(b) \in Bugs \X (1..MaxAttempts)
      BY <2>3 DEF Acquire, Goto, Numbered, Owner
    <3>2. QED BY <2>3, <3>1 DEF Acquire, Goto
  <2>4. CASE Enter(b) \/ Renew(b)
    BY <2>4 DEF Enter, Renew, Goto, Deadline
  <2>5. CASE EarlyRead(b) \/ LateRead(b)
    BY <2>5 DEF EarlyRead, LateRead, NewArrivals, Goto
  <2>6. CASE Fold(b) \/ Publish(b)
    BY <2>6 DEF Fold, Publish, Matches, Goto
  <2>7. CASE Novel(b) \/ Leave(b) \/ Lost(b)
    BY <2>7 DEF Novel, Leave, Lost, LeaveSection, NoOwner, Goto
  <2>8. CASE GiveUp(b)
    BY <2>8 DEF GiveUp, Goto
  <2>9. QED
    BY <1>1, <2>1, <2>2, <2>3, <2>4, <2>5, <2>6, <2>7, <2>8 DEF Step, Advance
<1>2. ASSUME NEW p \in Procs, Crash(p) PROVE TypeOK'
  BY <1>2 DEF Crash
<1>3. CASE Tick
  BY <1>3 DEF Tick
<1>4. CASE Finished \/ UNCHANGED vars
  BY <1>4 DEF Finished, vars
<1>5. QED BY <1>1, <1>2, <1>3, <1>4 DEF Next

(* The owner of a lease changes with the attempt only.                     *)
LEMMA OwnersDiffer ==
  ASSUME NEW a \in Bugs, NEW b \in Bugs, Owner(a) = Owner(b)
  PROVE  a = b
  BY DEF Owner

(* An attempt that is under way has a number.                              *)
LEMMA NumberStep ==
  ASSUME TypeOK, Numbered, [Next]_vars
  PROVE  Numbered'
<1> USE DEF TypeOK, Numbered
<1>1. ASSUME NEW b \in Bugs, Step(b) PROVE Numbered'
  <2>1. CASE Verify(b)
    BY <2>1 DEF Verify, Goto
  <2>2. CASE ~Verify(b)
    <3>1. /\ attempt' = attempt /\ pc[b] # "ended"
          /\ \A a \in Bugs : a # b => pc'[a] = pc[a]
      BY <1>1, <2>2 DEF Step, Advance, Lock, Acquire, Enter, Renew, EarlyRead,
                        LateRead, Fold, Novel, Publish, Leave, Lost, GiveUp, Goto
    <3>2. QED BY <3>1
  <2>3. QED BY <2>1, <2>2
<1>2. ASSUME NEW p \in Procs, Crash(p) PROVE Numbered'
  BY <1>2 DEF Crash
<1>3. CASE Tick \/ Finished \/ UNCHANGED vars
  BY <1>3 DEF Tick, Finished, vars
<1>4. QED BY <1>1, <1>2, <1>3 DEF Next

(* While checks are prompt, the lease stays with who acquired it.           *)
LEMMA LeaseStep ==
  ASSUME PromptnessAssumed, TypeOK, LeaseInv, [Next]_vars
  PROVE  LeaseInv'
<1> USE DEF TypeOK, LeaseInv
<1> SUFFICES ASSUME NEW a \in Bugs
             PROVE  /\ pc'[a] \in Checking => lock'[ProcOf[a]] = a
                    /\ pc'[a] \in Acquired =>
                          owner' = <<a, attempt'[a]>> /\ left' = TTL
                    /\ pc'[a] \in Inside =>
                          owner' = <<a, attempt'[a]>> /\ left' > watch'[a]
  BY DEF Owner
<1>0. ProcOf[a] \in Procs
  OBVIOUS
<1>1. ASSUME NEW b \in Bugs, Step(b)
      PROVE  /\ pc'[a] \in Checking => lock'[ProcOf[a]] = a
             /\ pc'[a] \in Acquired =>
                   owner' = <<a, attempt'[a]>> /\ left' = TTL
             /\ pc'[a] \in Inside =>
                   owner' = <<a, attempt'[a]>> /\ left' > watch'[a]
  <2>0. ProcOf[b] \in Procs
    OBVIOUS
  <2>1. CASE Verify(b)
    BY <2>1 DEF Verify, Goto, Owner
  <2>2. CASE Lock(b)
    BY <1>0, <2>0, <2>2 DEF Lock, Goto, Owner
  <2>3. CASE Acquire(b)
    BY <2>3, OwnersDiffer DEF Acquire, Acquirable, NoOwner, Goto, Owner
  <2>4. CASE Enter(b)
    BY <2>4 DEF Enter, Deadline, Goto, Owner
  <2>5. CASE Renew(b)
    BY <2>5 DEF Renew, Deadline, Owner
  <2>6. CASE EarlyRead(b) \/ LateRead(b) \/ Fold(b) \/ Publish(b)
    BY <2>6 DEF EarlyRead, LateRead, Fold, Publish, Goto, Owner
  <2>7. CASE Novel(b) \/ Leave(b) \/ Lost(b)
    <3>1. pc[b] \in Inside /\ LeaveSection(b)
      BY <2>7 DEF Novel, Leave, Lost, Goto
    <3>2. pc'[b] \in {"ended", "late"} /\ attempt' = attempt
      BY <2>7 DEF Novel, Leave, Lost, Goto
    <3>3. a # b => pc'[a] = pc[a] /\ watch'[a] = watch[a]
      BY <2>7 DEF Novel, Leave, Lost, Goto, LeaveSection
    <3>4. owner = Owner(b) BY <3>1
    <3>5. CASE a = b
      BY <3>1, <3>2, <3>5 DEF Owner
    <3>6. CASE a # b
      <4>1. pc[a] \notin Acquired /\ pc[a] \notin Inside
        BY <3>4, <3>6 DEF Owner
      <4>2. pc[a] \in Checking => lock'[ProcOf[a]] = a
        BY <1>0, <2>0, <3>1, <3>6 DEF LeaveSection
      <4>3. QED BY <3>2, <3>3, <3>6, <4>1, <4>2
    <3>7. QED BY <3>5, <3>6
  <2>8. CASE GiveUp(b)
    BY <1>0, <2>0, <2>8 DEF GiveUp, Goto, Owner
  <2>9. QED
    BY <1>1, <2>1, <2>2, <2>3, <2>4, <2>5, <2>6, <2>7, <2>8 DEF Step, Advance
<1>2. ASSUME NEW p \in Procs, Crash(p)
      PROVE  /\ pc'[a] \in Checking => lock'[ProcOf[a]] = a
             /\ pc'[a] \in Acquired =>
                   owner' = <<a, attempt'[a]>> /\ left' = TTL
             /\ pc'[a] \in Inside =>
                   owner' = <<a, attempt'[a]>> /\ left' > watch'[a]
  BY <1>0, <1>2 DEF Crash, Owner
<1>3. CASE Tick
  BY <1>3 DEF Tick, OnTime, PromptnessAssumed, Owner
<1>4. CASE Finished \/ UNCHANGED vars
  BY <1>4 DEF Finished, vars, Owner
<1>5. QED BY <1>1, <1>2, <1>3, <1>4 DEF Next

(* What has been seen covers what is open.                                 *)
LEMMA SeenStep ==
  ASSUME TypeOK, LeaseInv, SeenInv, [Next]_vars
  PROVE  SeenInv'
<1> USE DEF TypeOK, SeenInv
<1> SUFFICES ASSUME NEW a \in Bugs
             PROVE  /\ pc'[a] = "earlyRead" => known'[a] = seen'[a]
                    /\ pc'[a] \in LateCheck =>
                         \A c \in seen'[a] : DefectOf[c] # DefectOf[a]
                    /\ pc'[a] = "lateRead" =>
                         opened' \ {a} \subseteq known'[a] \cup seen'[a]
  OBVIOUS
<1>1. ASSUME NEW b \in Bugs, Step(b)
      PROVE  /\ pc'[a] = "earlyRead" => known'[a] = seen'[a]
             /\ pc'[a] \in LateCheck =>
                  \A c \in seen'[a] : DefectOf[c] # DefectOf[a]
             /\ pc'[a] = "lateRead" =>
                  opened' \ {a} \subseteq known'[a] \cup seen'[a]
  <2>1. CASE Verify(b)
    BY <2>1 DEF Verify, Goto
  <2>2. CASE Lock(b) \/ Acquire(b) \/ Enter(b) \/ Renew(b) \/ GiveUp(b)
    BY <2>2 DEF Lock, Acquire, Enter, Renew, GiveUp, Goto
  <2>3. CASE EarlyRead(b)
    BY <2>3 DEF EarlyRead, Goto
  <2>4. CASE LateRead(b)
    BY <2>4 DEF LateRead, NewArrivals, Goto
  <2>5. CASE Fold(b)
    BY <2>5 DEF Fold, Goto
  <2>6. CASE Novel(b)
    BY <2>6 DEF Novel, Matches, LeaveSection, Goto
  <2>7. CASE Leave(b) \/ Lost(b)
    BY <2>7 DEF Leave, Lost, LeaveSection, Goto
  <2>8. CASE Publish(b)
    <3>1. pc[b] = "lateRead" BY <2>8 DEF Publish, Goto
    <3>2. a # b => pc[a] \notin Inside
      BY <3>1, InsideIsExclusive DEF Exclusive
    <3>3. QED BY <2>8, <3>1, <3>2 DEF Publish, Goto
  <2>9. QED
    BY <1>1, <2>1, <2>2, <2>3, <2>4, <2>5, <2>6, <2>7, <2>8 DEF Step, Advance
<1>2. ASSUME NEW p \in Procs, Crash(p)
      PROVE  /\ pc'[a] = "earlyRead" => known'[a] = seen'[a]
             /\ pc'[a] \in LateCheck =>
                  \A c \in seen'[a] : DefectOf[c] # DefectOf[a]
             /\ pc'[a] = "lateRead" =>
                  opened' \ {a} \subseteq known'[a] \cup seen'[a]
  BY <1>2 DEF Crash
<1>3. CASE Tick \/ Finished \/ UNCHANGED vars
  BY <1>3 DEF Tick, Finished, vars
<1>4. QED BY <1>1, <1>2, <1>3 DEF Next

(* Only Publish opens a bug, and what it compared covers all open ones.    *)
LEMMA OpenStep ==
  ASSUME TypeOK, SeenInv, OneOpenPerDefect, [Next]_vars
  PROVE  OneOpenPerDefect'
<1>1. CASE UNCHANGED opened
  BY <1>1 DEF OneOpenPerDefect
<1>2. ASSUME NEW b \in Bugs, Publish(b) PROVE OneOpenPerDefect'
  <2>1. \A c \in opened : c # b => DefectOf[c] # DefectOf[b]
    BY <1>2 DEF Publish, Goto, Matches, SeenInv, TypeOK
  <2>2. opened' = opened \cup {b} BY <1>2 DEF Publish
  <2>3. QED BY <2>1, <2>2 DEF OneOpenPerDefect
<1>3. ASSUME NEW b \in Bugs, Step(b), ~Publish(b) PROVE UNCHANGED opened
  BY <1>3 DEF Step, Advance, Verify, Lock, Acquire, Enter, Renew, EarlyRead,
              LateRead, Fold, Novel, Leave, Lost, GiveUp
<1>4. CASE (\E p \in Procs : Crash(p)) \/ Tick \/ Finished \/ UNCHANGED vars
  BY <1>1, <1>4 DEF Crash, Tick, Finished, vars
<1>5. QED BY <1>1, <1>2, <1>3, <1>4 DEF Next

(* Only its own commit settles a candidate, and ends the comparison.       *)
LEMMA VerdictStep ==
  ASSUME TypeOK, VerdictInv, [Next]_vars
  PROVE  VerdictInv'
<1> USE DEF TypeOK, VerdictInv, Deciding, Settled
<1> SUFFICES ASSUME NEW a \in Bugs
             PROVE  /\ known'[a] \subseteq opened'
                    /\ pc'[a] \in Deciding => ~Settled(a)'
  OBVIOUS
<1>1. ASSUME NEW b \in Bugs, Step(b)
      PROVE  /\ known'[a] \subseteq opened'
             /\ pc'[a] \in Deciding => ~Settled(a)'
  <2>1. CASE Verify(b)
    BY <2>1 DEF Verify, Goto
  <2>2. CASE Lock(b) \/ Acquire(b) \/ Enter(b) \/ Renew(b) \/ GiveUp(b)
    BY <2>2 DEF Lock, Acquire, Enter, Renew, GiveUp, Goto
  <2>3. CASE EarlyRead(b) \/ LateRead(b)
    BY <2>3 DEF EarlyRead, LateRead, NewArrivals, Goto
  <2>4. CASE Fold(b)
    BY <2>4 DEF Fold, Matches, Goto
  <2>5. CASE Publish(b)
    BY <2>5 DEF Publish, Goto
  <2>6. CASE Novel(b) \/ Leave(b) \/ Lost(b)
    BY <2>6 DEF Novel, Leave, Lost, LeaveSection, Goto
  <2>7. QED
    BY <1>1, <2>1, <2>2, <2>3, <2>4, <2>5, <2>6 DEF Step, Advance
<1>2. ASSUME NEW p \in Procs, Crash(p)
      PROVE  /\ known'[a] \subseteq opened'
             /\ pc'[a] \in Deciding => ~Settled(a)'
  BY <1>2 DEF Crash
<1>3. CASE Tick \/ Finished \/ UNCHANGED vars
  BY <1>3 DEF Tick, Finished, vars
<1>4. QED BY <1>1, <1>2, <1>3 DEF Next

(* A fold finds an open bug of the same defect, and bugs stay open.        *)
LEMMA FoldStep ==
  ASSUME TypeOK, VerdictInv, FoldsAreRight, [Next]_vars
  PROVE  FoldsAreRight'
<1> USE DEF TypeOK, FoldsAreRight
<1>1. CASE UNCHANGED <<opened, dupOf>>
  BY <1>1
<1>2. ASSUME NEW b \in Bugs, Fold(b) PROVE FoldsAreRight'
  <2>1. ~Settled(b) /\ known[b] \subseteq opened
    BY <1>2 DEF Fold, Goto, VerdictInv, Deciding
  <2>2. QED BY <1>2, <2>1 DEF Fold, Matches, Settled
<1>3. ASSUME NEW b \in Bugs, Publish(b) PROVE FoldsAreRight'
  <2>1. ~Settled(b)
    BY <1>3 DEF Publish, Goto, VerdictInv, Deciding
  <2>2. QED BY <1>3, <2>1 DEF Publish, Settled
<1>4. ASSUME NEW b \in Bugs, Step(b), ~Publish(b), ~Fold(b)
      PROVE  UNCHANGED <<opened, dupOf>>
  BY <1>4 DEF Step, Advance, Verify, Lock, Acquire, Enter, Renew, EarlyRead,
              LateRead, Novel, Leave, Lost, GiveUp
<1>5. CASE (\E p \in Procs : Crash(p)) \/ Tick \/ Finished \/ UNCHANGED vars
  BY <1>1, <1>5 DEF Crash, Tick, Finished, vars
<1>6. QED BY <1>1, <1>2, <1>3, <1>4, <1>5 DEF Next

(* With prompt timers and calls, every reachable state is well typed, a    *)
(* holder's lease lasts longer than its watchdog sleeps, and no two open   *)
(* bugs describe one defect.                                               *)
THEOREM InvariantHolds ==
  ASSUME PromptTimers, PromptCalls
  PROVE  Spec => []IInv
<1>1. Init => IInv
  BY InitIInv
<1>2. IInv /\ [Next]_vars => IInv'
  BY TypeStep, NumberStep, LeaseStep, SeenStep, OpenStep, VerdictStep, FoldStep
     DEF IInv, PromptnessAssumed
<1>3. QED BY <1>1, <1>2, PTL DEF Spec

(* The critical sections of all processes exclude each other.              *)
THEOREM SectionsAreExclusive ==
  ASSUME PromptTimers, PromptCalls
  PROVE  Spec => []Exclusive
<1>1. IInv => Exclusive
  BY InsideIsExclusive DEF IInv
<1>2. Spec => []IInv
  BY InvariantHolds
<1>3. QED BY <1>1, <1>2, PTL

(* One defect is never opened twice by concurrent analyses.                *)
THEOREM DefectsAreOpenedOnce ==
  ASSUME PromptTimers, PromptCalls
  PROVE  Spec => []OneOpenPerDefect
<1>1. IInv => OneOpenPerDefect
  BY DEF IInv
<1>2. Spec => []IInv
  BY InvariantHolds
<1>3. QED BY <1>1, <1>2, PTL

(* Even when a lease is lost unnoticed, as it may be when timers or calls  *)
(* are late, a candidate is folded only into an open bug that is the same  *)
(* defect, and never opened as well: what the lease buys is that no defect *)
(* is opened twice.                                                        *)
THEOREM FoldsNeedNoLease == Spec => []FoldsAreRight
<1> DEFINE Weak == TypeOK /\ Numbered /\ VerdictInv /\ FoldsAreRight
<1>1. Init => Weak
  BY InitIInv DEF IInv
<1>2. Weak /\ [Next]_vars => Weak'
  BY TypeStep, NumberStep, VerdictStep, FoldStep
<1>3. QED BY <1>1, <1>2, PTL DEF Spec

(* A commit decides as the atomic specification does, and nothing else     *)
(* decides anything.                                                       *)
LEMMA StepDecides ==
  ASSUME IInv, [Next]_vars
  PROVE  [Atomic!Next]_<<opened, dupOf>>
<1> USE DEF Atomic!Undecided, Atomic!Same, Atomic!Open, Atomic!Fold, Atomic!Next
<1>1. TypeOK /\ SeenInv /\ VerdictInv
  BY DEF IInv
<1>2. ASSUME NEW b \in Bugs, Publish(b) PROVE Atomic!Next
  <2>1. pc[b] = "lateRead" /\ Matches(b) = {}
    BY <1>2 DEF Publish, Goto
  <2>2. ~Settled(b)
    BY <1>1, <2>1 DEF VerdictInv, Deciding
  <2>3. opened \ {b} \subseteq known[b] \cup seen[b]
    BY <1>1, <2>1 DEF SeenInv
  <2>4. \A c \in opened : DefectOf[c] # DefectOf[b]
    BY <1>1, <2>1, <2>2, <2>3 DEF SeenInv, Matches, Settled
  <2>5. QED BY <1>2, <2>2, <2>4 DEF Publish, Settled
<1>3. ASSUME NEW b \in Bugs, Fold(b) PROVE Atomic!Next
  <2>1. pc[b] \in Deciding
    BY <1>3 DEF Fold, Goto, Deciding
  <2>2. ~Settled(b) /\ known[b] \subseteq opened
    BY <1>1, <2>1 DEF VerdictInv
  <2>3. QED BY <1>3, <2>2 DEF Fold, Matches, Settled
<1>4. ASSUME NEW b \in Bugs, Step(b), ~Publish(b), ~Fold(b)
      PROVE  UNCHANGED <<opened, dupOf>>
  BY <1>4 DEF Step, Advance, Verify, Lock, Acquire, Enter, Renew, EarlyRead,
              LateRead, Novel, Leave, Lost, GiveUp
<1>5. CASE (\E p \in Procs : Crash(p)) \/ Tick \/ Finished \/ UNCHANGED vars
  BY <1>5 DEF Crash, Tick, Finished, vars
<1>6. QED BY <1>2, <1>3, <1>4, <1>5 DEF Next

(* Two processes that check and commit side by side decide as one process  *)
(* would that took the candidates one at a time.                           *)
THEOREM DedupIsAtomic ==
  ASSUME PromptTimers, PromptCalls
  PROVE  Spec => DecidedOneByOne
<1>1. Init => Atomic!Init
  BY DEF Init, Atomic!Init
<1>2. IInv /\ [Next]_vars => [Atomic!Next]_<<opened, dupOf>>
  BY StepDecides
<1>3. Spec => []IInv
  BY InvariantHolds
<1>4. QED BY <1>1, <1>2, <1>3, PTL DEF Spec, DecidedOneByOne, Atomic!Spec
=============================================================================
