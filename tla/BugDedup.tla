------------------------------ MODULE BugDedup ------------------------------
(***************************************************************************)
(* Deduplication across processes.  Before a bug becomes open, its         *)
(* analysis compares it with the open ones twice: once early, so that a    *)
(* duplicate costs no more stages, and once just before the final write,   *)
(* with whatever arrived in between (process_issue_worker_for_project,     *)
(* src/src/workflows/linux_bug.rs).  Each comparison and the write that    *)
(* follows it form a critical section, guarded by BUG_DEDUP_LOCK within a  *)
(* process and by the bug_dedup_lease row of `meta' between processes      *)
(* (the daemon and `sashiko scan --submit-bugs').                          *)
(*                                                                         *)
(* The lease expires unless it is renewed; a watchdog in its holder drops  *)
(* the critical section when it could not renew in time.  The commits do   *)
(* not look at the lease, so it protects them only as far as the watchdog  *)
(* is prompt and its deadline is right: the constants PromptTimers and     *)
(* PromptCalls say whether time may pass a deadline before the holder      *)
(* notices, and between the clock reading an acquisition is based on and   *)
(* the one its first deadline is based on.                                 *)
(*                                                                         *)
(* The claim on the bug itself is BugAnalysis's subject; here an attempt   *)
(* that ended may simply be followed by another.  The LLM is taken to be   *)
(* right: two candidates match exactly when they are the same defect.      *)
(* Time is relative, as in BugAnalysis.                                    *)
(***************************************************************************)
EXTENDS Integers

CONSTANTS
    Bugs,         \* verified candidates
    Procs,        \* processes
    ProcOf,       \* the process that analyses each of them
    DefectOf,     \* the defect each of them describes
    NoBug,
    MaxAttempts,
    TTL,          \* BUG_DEDUP_LEASE_TTL_SECONDS, in ticks
    PromptTimers, \* a watchdog fires within the tick of its deadline
    PromptCalls   \* acquire_bug_dedup_lease returns within the tick it reads

ASSUME BugDedupAssumption ==
    /\ NoBug \notin Bugs
    /\ ProcOf \in [Bugs -> Procs]
    /\ MaxAttempts \in Nat \ {0}
    /\ TTL \in Nat \ {0, 1}
    /\ PromptTimers \in BOOLEAN /\ PromptCalls \in BOOLEAN

VARIABLES
    owner,     \* bug_dedup_lease: the attempt that holds it, or NoOwner
    left,      \* and the ticks until it expires; -1: it has
    lock,      \* BUG_DEDUP_LOCK of each process: its holder, or NoBug
    attempt,   \* the number of the attempt on each bug
    pc,        \* where that attempt stands
    seen,      \* seen_bug_ids
    known,     \* the bugs the running check compares with
    watch,     \* ticks until the holder's watchdog fires
    opened,    \* the bugs committed as open
    dupOf      \* the bug each candidate was folded into

vars == <<owner, left, lock, attempt, pc, seen, known, watch, opened, dupOf>>

-----------------------------------------------------------------------------

(* A check runs from the wait for the lock to the commit and the release.  *)
Waiting  == {"early", "late"}
Locked   == {"earlyLocked", "lateLocked"}
Acquired == {"earlyAcquired", "lateAcquired"}
Inside   == {"earlyInside", "earlyRead", "earlyDone",
             "lateInside", "lateRead", "lateDone"}
Checking == Locked \cup Acquired \cup Inside
PC       == {"ended"} \cup Waiting \cup Checking

(* bug_dedup_lease_owner: the claim makes every attempt an owner of its own *)
Owner(b) == <<b, attempt[b]>>
NoOwner  == <<NoBug, 0>>

Settled(b) == b \in opened \/ dupOf[b] # NoBug

TypeOK ==
    /\ owner \in (Bugs \X (1..MaxAttempts)) \cup {NoOwner}
    /\ left \in -1..TTL
    /\ lock \in [Procs -> Bugs \cup {NoBug}]
    /\ attempt \in [Bugs -> 0..MaxAttempts]
    /\ pc \in [Bugs -> PC]
    /\ seen \in [Bugs -> SUBSET Bugs]
    /\ known \in [Bugs -> SUBSET Bugs]
    /\ watch \in [Bugs -> 0..TTL]
    /\ opened \in SUBSET Bugs
    /\ dupOf \in [Bugs -> Bugs \cup {NoBug}]

Init ==
    /\ owner = NoOwner /\ left = -1
    /\ lock = [p \in Procs |-> NoBug]
    /\ attempt = [b \in Bugs |-> 0]
    /\ pc = [b \in Bugs |-> "ended"]
    /\ seen = [b \in Bugs |-> {}]
    /\ known = [b \in Bugs |-> {}]
    /\ watch = [b \in Bugs |-> 0]
    /\ opened = {}
    /\ dupOf = [b \in Bugs |-> NoBug]

Goto(b, from, to) == pc[b] = from /\ pc' = [pc EXCEPT ![b] = to]

-----------------------------------------------------------------------------

(* The bug is verified, by the first attempt or by one that follows an     *)
(* attempt that ended without a verdict.                                   *)
Verify(b) ==
    /\ ~Settled(b)
    /\ attempt[b] < MaxAttempts
    /\ Goto(b, "ended", "early")
    /\ attempt' = [attempt EXCEPT ![b] = @ + 1]
    /\ seen' = [seen EXCEPT ![b] = {}]
    /\ UNCHANGED <<owner, left, lock, known, watch, opened, dupOf>>

(* run_with_bug_dedup_lease, its first line.                               *)
Lock(b) ==
    /\ lock[ProcOf[b]] = NoBug
    /\ Goto(b, "early", "earlyLocked") \/ Goto(b, "late", "lateLocked")
    /\ lock' = [lock EXCEPT ![ProcOf[b]] = b]
    /\ UNCHANGED <<owner, left, attempt, seen, known, watch, opened, dupOf>>

(* Fault: the lease is taken over in its last second.                      *)
AcquirableInLastSecond(b) == owner \in {NoOwner, Owner(b)} \/ left <= 1

(* Fault: a lease is never taken over.                                     *)
AcquirableIfFree(b) == owner \in {NoOwner, Owner(b)}

(* The WHERE clause of the upsert.                                         *)
Acquirable(b) == owner \in {NoOwner, Owner(b)} \/ left <= 0

(* acquire_bug_dedup_lease, polling every 50 ms, succeeds...               *)
Acquire(b) ==
    /\ Goto(b, "earlyLocked", "earlyAcquired")
       \/ Goto(b, "lateLocked", "lateAcquired")
    /\ Acquirable(b)
    /\ owner' = Owner(b) /\ left' = TTL
    /\ UNCHANGED <<lock, attempt, seen, known, watch, opened, dupOf>>

(* Fault: the watchdog waits for the whole TTL.                            *)
WholeTTL == TTL

(* The watchdog fires a second before the lease expires.                   *)
Deadline == TTL - 1

(* ... and returns: maintain_bug_dedup_lease sets its first deadline.      *)
Enter(b) ==
    /\ Goto(b, "earlyAcquired", "earlyInside")
       \/ Goto(b, "lateAcquired", "lateInside")
    /\ watch' = [watch EXCEPT ![b] = Deadline]
    /\ UNCHANGED <<owner, left, lock, attempt, seen, known, opened, dupOf>>

(* renew_bug_dedup_lease, where the deadline counts from before the call.  *)
Renew(b) ==
    /\ pc[b] \in Inside
    /\ owner = Owner(b) /\ left >= 0
    /\ left' = TTL
    /\ watch' = [watch EXCEPT ![b] = Deadline]
    /\ UNCHANGED <<owner, lock, attempt, pc, seen, known, opened, dupOf>>

(* The lease and the lock are given up: the row is deleted if it is still  *)
(* this attempt's.                                                         *)
LeaveSection(b) ==
    /\ lock' = [lock EXCEPT ![ProcOf[b]] = NoBug]
    /\ owner' = IF owner = Owner(b) THEN NoOwner ELSE owner
    /\ left' = IF owner = Owner(b) THEN -1 ELSE left
    /\ known' = [known EXCEPT ![b] = {}]
    /\ watch' = [watch EXCEPT ![b] = 0]

(* The first check: the corpus is read and remembered.                     *)
EarlyRead(b) ==
    /\ Goto(b, "earlyInside", "earlyRead")
    /\ known' = [known EXCEPT ![b] = opened \ {b}]
    /\ seen' = [seen EXCEPT ![b] = opened \ {b}]
    /\ UNCHANGED <<owner, left, lock, attempt, watch, opened, dupOf>>

(* What the late check has to look at.                                     *)
NewArrivals(b) == (opened \ {b}) \ seen[b]

(* The second check: only newly arrived bugs are compared.                 *)
LateRead(b) ==
    /\ Goto(b, "lateInside", "lateRead")
    /\ known' = [known EXCEPT ![b] = NewArrivals(b)]
    /\ UNCHANGED <<owner, left, lock, attempt, seen, watch, opened, dupOf>>

Matches(b) == {c \in known[b] : DefectOf[c] = DefectOf[b]}

(* check_and_fold finds a duplicate and commits the fold.                  *)
Fold(b) ==
    /\ Goto(b, "earlyRead", "earlyDone") \/ Goto(b, "lateRead", "lateDone")
    /\ \E c \in Matches(b) : dupOf' = [dupOf EXCEPT ![b] = c]
    /\ UNCHANGED <<owner, left, lock, attempt, seen, known, watch, opened>>

(* The early check confirms a novel bug; tracing, severity, report follow. *)
Novel(b) ==
    /\ Goto(b, "earlyRead", "late")
    /\ Matches(b) = {}
    /\ LeaveSection(b)
    /\ UNCHANGED <<attempt, seen, opened, dupOf>>

(* The late check finds nothing: the final write commits an open bug.      *)
Publish(b) ==
    /\ Goto(b, "lateRead", "lateDone")
    /\ Matches(b) = {}
    /\ opened' = opened \cup {b}
    /\ UNCHANGED <<owner, left, lock, attempt, seen, known, watch, dupOf>>

(* The section of a settled bug ends.                                      *)
Leave(b) ==
    /\ Goto(b, "earlyDone", "ended") \/ Goto(b, "lateDone", "ended")
    /\ LeaveSection(b)
    /\ UNCHANGED <<attempt, seen, opened, dupOf>>

(* A renewal is refused, or the deadline passes without one: the section   *)
(* is dropped at an await, before or after what it commits.                *)
Lost(b) ==
    /\ pc[b] \in Inside
    /\ ~(owner = Owner(b) /\ left >= 0) \/ watch[b] = 0
    /\ pc' = [pc EXCEPT ![b] = "ended"]
    /\ LeaveSection(b)
    /\ UNCHANGED <<attempt, seen, opened, dupOf>>

(* acquire_bug_dedup_lease times out after 600 seconds.                    *)
GiveUp(b) ==
    /\ Goto(b, "earlyLocked", "ended") \/ Goto(b, "lateLocked", "ended")
    /\ lock' = [lock EXCEPT ![ProcOf[b]] = NoBug]
    /\ UNCHANGED <<owner, left, attempt, seen, known, watch, opened, dupOf>>

(* A process dies: its lock and its attempts are gone, the row stays.      *)
Crash(p) ==
    LET mine == {b \in Bugs : ProcOf[b] = p} IN
    /\ \E b \in mine : pc[b] # "ended"
    /\ pc' = [b \in Bugs |-> IF b \in mine THEN "ended" ELSE pc[b]]
    /\ lock' = [lock EXCEPT ![p] = NoBug]
    /\ known' = [b \in Bugs |-> IF b \in mine THEN {} ELSE known[b]]
    /\ watch' = [b \in Bugs |-> IF b \in mine THEN 0 ELSE watch[b]]
    /\ UNCHANGED <<owner, left, attempt, seen, opened, dupOf>>

(* What time waits for, when timers and calls are prompt.                  *)
OnTime ==
    /\ PromptTimers => \A b \in Bugs : pc[b] \in Inside => watch[b] > 0
    /\ PromptCalls => \A b \in Bugs : pc[b] \notin Acquired

(* A second passes.                                                        *)
Tick ==
    /\ OnTime
    /\ left >= 0
    /\ left' = left - 1
    /\ watch' = [b \in Bugs |-> IF watch[b] > 0 THEN watch[b] - 1 ELSE 0]
    /\ UNCHANGED <<owner, lock, attempt, pc, seen, known, opened, dupOf>>

-----------------------------------------------------------------------------

(* What carries an attempt on towards its verdict.                         *)
Advance(b) ==
    \/ Verify(b) \/ Acquire(b) \/ Enter(b) \/ EarlyRead(b) \/ LateRead(b)
    \/ Fold(b) \/ Novel(b) \/ Publish(b) \/ Leave(b) \/ Lost(b)

Step(b) == Advance(b) \/ Lock(b) \/ Renew(b) \/ GiveUp(b)

(* Nothing is left to do: every bug is settled or out of attempts.         *)
Finished ==
    /\ \A b \in Bugs :
          pc[b] = "ended" /\ (Settled(b) \/ attempt[b] = MaxAttempts)
    /\ UNCHANGED vars

Next ==
    \/ \E b \in Bugs : Step(b)
    \/ \E p \in Procs : Crash(p)
    \/ Tick \/ Finished

Spec == Init /\ [][Next]_vars

(* Attempts keep going and time passes.  The lock hands itself over in the *)
(* order of arrival (tokio::sync::Mutex), so that a waiter gets it when it *)
(* is free again and again.  Nothing is assumed of renewals, timeouts and  *)
(* crashes.                                                                *)
Fairness ==
    /\ \A b \in Bugs : WF_vars(Advance(b)) /\ SF_vars(Lock(b))
    /\ WF_vars(Tick)

FairSpec == Spec /\ Fairness

-----------------------------------------------------------------------------

(* One attempt at a time is inside the critical section, in any process    *)
(* (acquire_bug_dedup_lease).  Holds when timers and calls are prompt.     *)
Exclusive ==
    \A a, b \in Bugs :
        pc[a] \in Inside /\ pc[b] \in Inside => a = b

(* Two candidates that describe one defect never both become open bugs,    *)
(* whatever the interleaving of their checks, crashes and expiries         *)
(* (acquire_bug_dedup_lease: the processes "cannot concurrently query open *)
(* bug vectors, run DedupSession, and commit duplicate open canonical      *)
(* bugs").  Holds when timers and calls are prompt.                        *)
OneOpenPerDefect ==
    \A a, b \in opened : DefectOf[a] = DefectOf[b] => a = b

(* Nobody waits for ever, not even behind a crashed holder or in a full    *)
(* queue for the lock: every attempt ends.                                 *)
AttemptsEnd == \A b \in Bugs : pc[b] # "ended" ~> pc[b] = "ended"

-----------------------------------------------------------------------------
(* The promise: decisions made one at a time.                              *)

Atomic == INSTANCE AtomicDedup

(* Whatever checks overlap, expire, crash and start again, the candidates  *)
(* are decided as if one after the other, each against all bugs that are   *)
(* open at that moment: opened only if none of them is the same defect,    *)
(* folded into one that is, and never decided twice.  Holds when timers    *)
(* and calls are prompt.                                                   *)
DecidedOneByOne == Atomic!Spec

-----------------------------------------------------------------------------
(* The strengthening the proofs use.                                       *)

LateCheck == {"late", "lateLocked", "lateAcquired", "lateInside", "lateRead"}

Numbered == \A b \in Bugs : pc[b] # "ended" => attempt[b] > 0

(* The lock and the lease are what pc says they are, and the lease lasts   *)
(* longer than the watchdog sleeps.                                        *)
LeaseInv ==
    \A b \in Bugs :
        /\ pc[b] \in Checking => lock[ProcOf[b]] = b
        /\ pc[b] \in Acquired => owner = Owner(b) /\ left = TTL
        /\ pc[b] \in Inside => owner = Owner(b) /\ left > watch[b]

(* Past the early check, no seen bug is the same defect; at the final      *)
(* write every open bug has been seen or is being compared.                *)
SeenInv ==
    \A b \in Bugs :
        /\ pc[b] = "earlyRead" => known[b] = seen[b]
        /\ pc[b] \in LateCheck =>
              \A c \in seen[b] : DefectOf[c] # DefectOf[b]
        /\ pc[b] = "lateRead" => opened \ {b} \subseteq known[b] \cup seen[b]

(* An attempt compares with open bugs, and until its verdict is committed  *)
(* there is none, of this attempt or of an earlier one.                    *)
Deciding == PC \ {"ended", "earlyDone", "lateDone"}

VerdictInv ==
    \A b \in Bugs :
        /\ known[b] \subseteq opened
        /\ pc[b] \in Deciding => ~Settled(b)

(* A duplicate is one, of a bug that is open, and is not open itself: the  *)
(* part of the promise that does not depend on the lease.                  *)
FoldsAreRight ==
    \A b \in Bugs :
        dupOf[b] # NoBug =>
            /\ b \notin opened /\ dupOf[b] \in opened
            /\ DefectOf[dupOf[b]] = DefectOf[b]

IInv ==
    /\ TypeOK /\ Numbered /\ LeaseInv /\ SeenInv /\ OneOpenPerDefect
    /\ VerdictInv /\ FoldsAreRight
=============================================================================
