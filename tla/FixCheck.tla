------------------------------ MODULE FixCheck ------------------------------
(***************************************************************************)
(* The periodic search for upstream fixes of open bugs: the sweeps of      *)
(* BugWorker (src/src/worker/bug_worker.rs 140-590), the check of one bug  *)
(* (src/src/workflows/linux_bug.rs 4654-4831) and the rows they share      *)
(* (src/src/db.rs 6029-6410), with the maintainers who triage the same     *)
(* bugs and the analysis that files them.                                  *)
(*                                                                         *)
(* A bug remembers the commit of the mainline up to which it is known not  *)
(* to be fixed, verified_on_sha.  A sweep resolves the mainline once,      *)
(* lists the bugs that are behind it in chunks, least recently updated     *)
(* first, and looks up which commits in between touch each of them.  Bugs  *)
(* without any are advanced in one transaction; bugs whose commit is not   *)
(* on the mainline are touched; a few of the others are queued, and a      *)
(* session with the model examines one at a time under a lease.  Rows are  *)
(* read when the chunk is listed and written later, so that sweeps,        *)
(* maintainers and the clock interleave with every step.                   *)
(*                                                                         *)
(* Commits of the mainline are numbered.  updated_at is the order in which *)
(* bugs were last updated, and two updates in one second keep the order of *)
(* the bugs.  Leases count the ticks they still have: lease_expires_at <=  *)
(* now is `lease <= 0', and lease_expires_at >= now is `lease >= 0'.       *)
(*                                                                         *)
(* An operator whose comment begins with "Fault:" is a plausible mistake   *)
(* in the operator that follows it.  No action uses it; the project checks *)
(* that substituting it breaks a property.                                 *)
(***************************************************************************)
EXTENDS Integers, FiniteSets

CONSTANTS
    Bugs,          \* the bugs
    Workers,       \* the processes that sweep
    Touching,      \* Touching[b]: the commits that may fix b, by files or text
    MaxHead,       \* bound: commits on the mainline
    BatchSize,     \* fix_check_batch_size: sessions of a sweep
    ChunkSize,     \* FIX_CHECK_SCAN_CHUNK_SIZE: bugs listed at once
    MaxChunks,     \* MAX_FIX_CHECK_SCAN_CHUNKS: chunks of a sweep
    TTL,           \* lease_ttl_seconds, in ticks
    Cooldown,      \* the 60 seconds after a check without a verdict, in ticks
    PromptTimers,  \* a worker whose lease runs out stops in time
    MaxFaults      \* bound: crashes, failing git calls and writes, edits

Nobody == "nobody"
Analysis == "analysis"
NoBug == "none"

ASSUME FixCheckAssumption ==
    /\ NoBug \notin Bugs
    /\ Nobody \notin Workers /\ Analysis \notin Workers
    /\ MaxHead \in Nat
    /\ Touching \in [Bugs -> SUBSET (1..MaxHead)]
    /\ BatchSize \in Nat \ {0} /\ ChunkSize \in Nat \ {0} /\ MaxChunks \in Nat \ {0}
    /\ TTL \in Nat \ {0, 1} /\ Cooldown \in Nat \ {0} /\ Cooldown <= TTL
    /\ PromptTimers \in BOOLEAN /\ MaxFaults \in Nat

VARIABLES
    head,       \* the newest commit of the mainline
    life,       \* life[b]: lifecycle_status, absent before the analysis ends
    verified,   \* verified[b]: verified_on_sha
    owner,      \* owner[b]: locked_by
    lease,      \* lease[b]: ticks until lease_expires_at
    ahead,      \* ahead[b]: the bugs filed with a smaller (updated_at, id)
    pc,         \* pc[w]: where the sweep of w stands
    main,       \* main[w]: the mainline it has resolved
    left,       \* left[w]: the chunks it may still list
    passed,     \* passed[w]: the bugs up to its cursor
    untouched,  \* untouched[w]: listed bugs to be advanced
    skipped,    \* skipped[w]: listed bugs to be touched
    queue,      \* queue[w][b]: the candidates found for b, if it is queued
    session,    \* session[w]: the bug whose check is running
    examined,   \* history: commits a bug is known not to be fixed by, or
                \* that a session has looked at
    decided,    \* history: what a maintainer made of the bug
    faults      \* faults so far

rowVars == <<life, verified, owner, lease, ahead>>
scanVars == <<main, left, passed, untouched, skipped>>
historyVars == <<examined, decided>>
vars == <<head, rowVars, pc, scanVars, queue, session, historyVars, faults>>

-----------------------------------------------------------------------------

(* A commit of a branch that has not been merged.                          *)
Elsewhere == -1
NoLease == -2

Life == {"absent", "open", "fixed", "closed", "duplicate"}
Stage == {"idle", "listing", "claiming", "session"}

Init ==
    /\ head = 0
    /\ life = [b \in Bugs |-> "absent"]
    /\ verified = [b \in Bugs |-> Elsewhere]
    /\ owner = [b \in Bugs |-> Nobody]
    /\ lease = [b \in Bugs |-> NoLease]
    /\ ahead = [b \in Bugs |-> {}]
    /\ pc = [w \in Workers |-> "idle"]
    /\ main = [w \in Workers |-> 0]
    /\ left = [w \in Workers |-> 0]
    /\ passed = [w \in Workers |-> {}]
    /\ untouched = [w \in Workers |-> {}]
    /\ skipped = [w \in Workers |-> {}]
    /\ queue = [w \in Workers |-> [b \in Bugs |-> {}]]
    /\ session = [w \in Workers |-> NoBug]
    /\ examined = [b \in Bugs |-> {}]
    /\ decided = [b \in Bugs |-> "none"]
    /\ faults = 0

(* updated_at = now for the bugs of S: they go behind all others, and out  *)
(* of the part of the list that a cursor has passed.                       *)
Updated(S) ==
    ahead' = [b \in Bugs |-> IF b \in S THEN (Bugs \ S) \cup (ahead[b] \cap S)
                                        ELSE ahead[b] \ S]

(* Fault: the lease is not looked at.                                      *)
CheckableLeased(b, m) == life[b] = "open" /\ verified[b] # m

(* The bugs a fix check may take: open, analysed, behind, not leased.      *)
Checkable(b, m) == life[b] = "open" /\ verified[b] # m /\ lease[b] <= 0

(* git merge-base --is-ancestor.                                           *)
OnMainline(b, m) == verified[b] \in 0..m

(* Fault: the range begins after the first new commit.                     *)
CandidatesLate(b, m) == Touching[b] \cap (verified[b] + 2)..m

(* The commits in verified_on_sha..mainline that touch the bug.            *)
Candidates(b, m) == Touching[b] \cap (verified[b] + 1)..m

Queued(w) == {b \in Bugs : queue[w][b] # {}}
Full(w) == Cardinality(Queued(w)) >= BatchSize

-----------------------------------------------------------------------------
(* The sweep.                                                              *)

(* check_open_bugs_upstream, spawned by the run loop when the interval is  *)
(* over and the previous sweep has ended.                                  *)
Start(w) ==
    /\ pc[w] = "idle"
    /\ pc' = [pc EXCEPT ![w] = "listing"]
    /\ main' = [main EXCEPT ![w] = head]
    /\ left' = [left EXCEPT ![w] = MaxChunks]
    /\ passed' = [passed EXCEPT ![w] = {}]
    /\ UNCHANGED <<head, rowVars, untouched, skipped, queue, session, historyVars, faults>>

(* The sweep goes on with the bugs S of its queue, or ends.                *)
TakeNext(w, S) ==
    /\ pc' = [pc EXCEPT ![w] = IF S = {} THEN "idle" ELSE "claiming"]
    /\ main' = [main EXCEPT ![w] = IF S = {} THEN 0 ELSE @]

(* flush_zero_token_chunk has nothing more to write for the chunk.         *)
Flushed(w) == untouched[w] = {} /\ skipped[w] = {}

(* The rows of the next chunk.                                             *)
Listed(w) == {b \in Bugs \ passed[w] : Checkable(b, main[w])}
Chunk(w) == {b \in Listed(w) : Cardinality(ahead[b] \cap Listed(w)) < ChunkSize}

(* list_open_bugs_for_fix_check and the classification of its rows, whose  *)
(* git queries depend on nothing that changes.  For the bugs F git fails.  *)
(* Bugs are classified in their order; once the queue is full, those with  *)
(* candidates are left for the next sweep, and so may be those (D) whose   *)
(* range is not in the cache.                                              *)
List(w, F) ==
    LET C == Chunk(w)
        hit == {b \in C \ F : OnMainline(b, main[w]) /\ Candidates(b, main[w]) # {}}
        late == {b \in C : Cardinality(hit \cap ahead[b]) + Cardinality(Queued(w)) >= BatchSize}
        off == {b \in C : b \in F \/ ~OnMainline(b, main[w])}
    IN
    /\ pc[w] = "listing" /\ Flushed(w)
    /\ left[w] > 0 /\ ~Full(w)
    /\ C # {} /\ F \subseteq C \ late
    /\ left' = [left EXCEPT ![w] = @ - 1]
    /\ passed' = [passed EXCEPT ![w] = @ \cup C \cup UNION {ahead[b] : b \in C}]
    /\ queue' = [queue EXCEPT ![w] =
                    [b \in Bugs |-> IF b \in hit \ late THEN Candidates(b, main[w])
                                                        ELSE @[b]]]
    /\ \E D \in SUBSET late :
          /\ untouched' = [untouched EXCEPT ![w] = (C \ hit) \ (off \cup D)]
          /\ skipped' = [skipped EXCEPT ![w] = off \ D]
    /\ IF F = {} THEN UNCHANGED faults
                 ELSE faults < MaxFaults /\ faults' = faults + 1
    /\ UNCHANGED <<head, rowVars, pc, main, session, historyVars>>

(* The list is empty, or the chunks or the queue are used up, or the list  *)
(* cannot be read.                                                         *)
ListEnds(w) ==
    /\ pc[w] = "listing" /\ Flushed(w)
    /\ \/ (Listed(w) = {} \/ left[w] = 0 \/ Full(w)) /\ UNCHANGED faults
       \/ faults < MaxFaults /\ faults' = faults + 1
    /\ TakeNext(w, Queued(w))
    /\ left' = [left EXCEPT ![w] = 0]
    /\ passed' = [passed EXCEPT ![w] = {}]
    /\ UNCHANGED <<head, rowVars, untouched, skipped, queue, session, historyVars>>

(* The guards that advance_open_bugs_without_llm_batch repeats.            *)
Advanceable(b, m) == Checkable(b, m)

(* advance_open_bugs_without_llm_batch, or its transaction fails.          *)
Advance(w) ==
    LET S == {b \in untouched[w] : Advanceable(b, main[w])} IN
    /\ untouched[w] # {}
    /\ \/ /\ verified' = [b \in Bugs |-> IF b \in S THEN main[w] ELSE verified[b]]
          /\ owner' = [b \in Bugs |-> IF b \in S THEN Nobody ELSE owner[b]]
          /\ lease' = [b \in Bugs |-> IF b \in S THEN NoLease ELSE lease[b]]
          /\ Updated(S)
          /\ passed' = [x \in Workers |-> passed[x] \ S]
          /\ UNCHANGED faults
       \/ /\ faults < MaxFaults /\ faults' = faults + 1
          /\ UNCHANGED <<verified, owner, lease, ahead, passed>>
    /\ untouched' = [untouched EXCEPT ![w] = {}]
    /\ UNCHANGED <<head, life, pc, main, left, skipped, queue, session, historyVars>>

(* touch_open_bugs_fix_check_batch.                                        *)
Touch(w) ==
    LET S == {b \in skipped[w] : life[b] = "open" /\ lease[b] <= 0} IN
    /\ untouched[w] = {} /\ skipped[w] # {}
    /\ \/ /\ owner' = [b \in Bugs |-> IF b \in S THEN Nobody ELSE owner[b]]
          /\ lease' = [b \in Bugs |-> IF b \in S THEN Cooldown ELSE lease[b]]
          /\ Updated(S)
          /\ passed' = [x \in Workers |-> passed[x] \ S]
          /\ UNCHANGED faults
       \/ /\ faults < MaxFaults /\ faults' = faults + 1
          /\ UNCHANGED <<owner, lease, ahead, passed>>
    /\ skipped' = [skipped EXCEPT ![w] = {}]
    /\ UNCHANGED <<head, life, verified, pc, main, left, untouched, queue, session, historyVars>>

(* The queue is taken one by one.                                          *)
Dequeue(w, b) ==
    /\ queue' = [queue EXCEPT ![w][b] = {}]
    /\ TakeNext(w, Queued(w) \ {b})

(* claim_specific_open_bug_for_fix_check.                                  *)
Claim(w, b) ==
    /\ pc[w] = "claiming" /\ b \in Queued(w)
    /\ Checkable(b, main[w])
    /\ owner' = [owner EXCEPT ![b] = w]
    /\ lease' = [lease EXCEPT ![b] = TTL]
    /\ Updated({b})
    /\ passed' = [x \in Workers |-> passed[x] \ {b}]
    /\ pc' = [pc EXCEPT ![w] = "session"]
    /\ session' = [session EXCEPT ![w] = b]
    /\ UNCHANGED <<head, life, verified, main, left, untouched, skipped, queue,
                   historyVars, faults>>

(* The claim is refused, or fails.                                         *)
Pass(w, b) ==
    /\ pc[w] = "claiming" /\ b \in Queued(w)
    /\ \/ ~Checkable(b, main[w]) /\ UNCHANGED faults
       \/ faults < MaxFaults /\ faults' = faults + 1
    /\ Dequeue(w, b)
    /\ UNCHANGED <<head, rowVars, left, passed, untouched, skipped, session, historyVars>>

-----------------------------------------------------------------------------
(* The check of one bug, with the candidates the sweep found.              *)

(* Fault: triage is not looked at.                                         *)
MayRecordClosed(w, b) == owner[b] = w

(* The WHERE clause of the outcome: the bug is open and still locked by    *)
(* this claim.                                                             *)
MayRecord(w, b) == life[b] = "open" /\ owner[b] = w

Leave(w, b) ==
    /\ session' = [session EXCEPT ![w] = NoBug]
    /\ Dequeue(w, b)

(* record_upstream_fix_check: a verdict of the session, which leaves the   *)
(* bug open or fixes it; nothing is written if the guard fails.            *)
Record(w, b, to) ==
    /\ pc[w] = "session" /\ session[w] = b
    /\ \/ /\ MayRecord(w, b)
          /\ life' = [life EXCEPT ![b] = to]
          /\ verified' = [verified EXCEPT ![b] = main[w]]
          /\ owner' = [owner EXCEPT ![b] = Nobody]
          /\ lease' = [lease EXCEPT ![b] = NoLease]
          /\ Updated({b})
          /\ passed' = [x \in Workers |-> passed[x] \ {b}]
          /\ examined' = [examined EXCEPT ![b] = @ \cup queue[w][b]]
       \/ /\ ~MayRecord(w, b)
          /\ UNCHANGED <<rowVars, passed, examined>>
    /\ Leave(w, b)
    /\ UNCHANGED <<head, left, untouched, skipped, decided, faults>>

(* touch_bug_fix_check_timestamp: the verdict is uncertain, names a commit *)
(* that is not on the mainline, or the session fails.                      *)
Inconclusive(w, b) ==
    /\ pc[w] = "session" /\ session[w] = b
    /\ \/ /\ MayRecord(w, b)
          /\ owner' = [owner EXCEPT ![b] = Nobody]
          /\ lease' = [lease EXCEPT ![b] = Cooldown]
          /\ Updated({b})
          /\ passed' = [x \in Workers |-> passed[x] \ {b}]
       \/ /\ ~MayRecord(w, b)
          /\ UNCHANGED <<owner, lease, ahead, passed>>
    /\ Leave(w, b)
    /\ UNCHANGED <<head, life, verified, left, untouched, skipped, historyVars, faults>>

(* No outcome can be written: the row keeps its lease until it expires.    *)
Unwritten(w, b) ==
    /\ pc[w] = "session" /\ session[w] = b
    /\ faults < MaxFaults /\ faults' = faults + 1
    /\ Leave(w, b)
    /\ UNCHANGED <<head, rowVars, left, passed, untouched, skipped, historyVars>>

(* maintain_lease: renew_bug_lease succeeds,                               *)
Holds(w, b) == owner[b] = w /\ lease[b] >= 0

Renew(w, b) ==
    /\ pc[w] = "session" /\ session[w] = b
    /\ Holds(w, b)
    /\ lease' = [lease EXCEPT ![b] = TTL]
    /\ UNCHANGED <<head, life, verified, owner, ahead, pc, scanVars, queue, session,
                   historyVars, faults>>

(* or is refused, or the time since the last renewal is over: the session  *)
(* is dropped.                                                             *)
LoseLease(w, b) ==
    /\ pc[w] = "session" /\ session[w] = b
    /\ ~Holds(w, b) \/ lease[b] <= 1
    /\ Leave(w, b)
    /\ UNCHANGED <<head, rowVars, left, passed, untouched, skipped, historyVars, faults>>

SweepStep(w) ==
    \/ Start(w) \/ ListEnds(w) \/ Advance(w) \/ Touch(w)
    \/ \E F \in SUBSET Bugs : List(w, F)
    \/ \E b \in Bugs :
          \/ Claim(w, b) \/ Pass(w, b)
          \/ \E to \in {"open", "fixed"} : Record(w, b, to)
          \/ Inconclusive(w, b) \/ Unwritten(w, b) \/ LoseLease(w, b)

-----------------------------------------------------------------------------
(* Everything else.                                                        *)

(* The process dies, or the task of the sweep panics.                      *)
Crash(w) ==
    /\ pc[w] # "idle"
    /\ faults < MaxFaults /\ faults' = faults + 1
    /\ pc' = [pc EXCEPT ![w] = "idle"]
    /\ main' = [main EXCEPT ![w] = 0]
    /\ left' = [left EXCEPT ![w] = 0]
    /\ passed' = [passed EXCEPT ![w] = {}]
    /\ untouched' = [untouched EXCEPT ![w] = {}]
    /\ skipped' = [skipped EXCEPT ![w] = {}]
    /\ queue' = [queue EXCEPT ![w] = [b \in Bugs |-> {}]]
    /\ session' = [session EXCEPT ![w] = NoBug]
    /\ UNCHANGED <<head, rowVars, historyVars>>

(* The mainline is fetched.                                                *)
Fetch ==
    /\ head < MaxHead /\ head' = head + 1
    /\ UNCHANGED <<rowVars, pc, scanVars, queue, session, historyVars, faults>>

(* write_bug_outcome of the analysis, whose tree is the mainline of some   *)
(* time or a branch; it holds its lease until it has linked the bug.       *)
Publish(b, v) ==
    /\ life[b] = "absent"
    /\ life' = [life EXCEPT ![b] = "open"]
    /\ verified' = [verified EXCEPT ![b] = v]
    /\ owner' = [owner EXCEPT ![b] = Analysis]
    /\ lease' = [lease EXCEPT ![b] = TTL]
    /\ Updated({b})
    /\ passed' = [x \in Workers |-> passed[x] \ {b}]
    /\ examined' = [examined EXCEPT ![b] = @ \cup 1..v]
    /\ UNCHANGED <<head, pc, main, left, untouched, skipped, queue, session, decided, faults>>

(* renew_bug_lease, until the attempt that published has linked the bug.   *)
RenewAnalysis(b) ==
    /\ owner[b] = Analysis /\ lease[b] >= 0
    /\ lease' = [lease EXCEPT ![b] = TTL]
    /\ UNCHANGED <<head, life, verified, owner, ahead, pc, scanVars, queue, session,
                   historyVars, faults>>

(* release_bug_lease.                                                      *)
Release(b) ==
    /\ owner[b] = Analysis /\ lease[b] >= 0
    /\ owner' = [owner EXCEPT ![b] = Nobody]
    /\ lease' = [lease EXCEPT ![b] = NoLease]
    /\ UNCHANGED <<head, life, verified, ahead, pc, scanVars, queue, session,
                   historyVars, faults>>

(* change_bug_status_with_reason, from the actions Close and Dismiss.      *)
Close(b) ==
    /\ life[b] \in {"open", "fixed"}
    /\ life' = [life EXCEPT ![b] = "closed"]
    /\ decided' = [decided EXCEPT ![b] = "closed"]
    /\ Updated({b})
    /\ passed' = [x \in Workers |-> passed[x] \ {b}]
    /\ UNCHANGED <<head, verified, owner, lease, pc, main, left, untouched, skipped,
                   queue, session, examined, faults>>

(* mark_bug_as_duplicate without a claim.                                  *)
MarkDuplicate(b) ==
    /\ life[b] \in {"open", "fixed", "closed"}
    /\ life' = [life EXCEPT ![b] = "duplicate"]
    /\ decided' = [decided EXCEPT ![b] = "duplicate"]
    /\ owner' = [owner EXCEPT ![b] = Nobody]
    /\ lease' = [lease EXCEPT ![b] = NoLease]
    /\ Updated({b})
    /\ passed' = [x \in Workers |-> passed[x] \ {b}]
    /\ UNCHANGED <<head, verified, pc, main, left, untouched, skipped, queue, session,
                   examined, faults>>

(* assign_bug: an edit that sets updated_at.                               *)
Assign(b) ==
    /\ life[b] # "absent"
    /\ faults < MaxFaults /\ faults' = faults + 1
    /\ Updated({b})
    /\ passed' = [x \in Workers |-> passed[x] \ {b}]
    /\ UNCHANGED <<head, life, verified, owner, lease, pc, main, left, untouched, skipped,
                   queue, session, historyVars>>

(* Fault: the watchdog waits for the whole lease.                          *)
InTimeWholeTTL == \A w \in Workers, b \in Bugs :
                     pc[w] = "session" /\ session[w] = b /\ owner[b] = w => lease[b] > 0

(* With prompt timers the watchdog of a session acts before its lease ends.*)
InTime == \A w \in Workers, b \in Bugs :
             pc[w] = "session" /\ session[w] = b /\ owner[b] = w => lease[b] > 1

Tick ==
    /\ \E b \in Bugs : lease[b] > -1
    /\ PromptTimers => InTime
    /\ lease' = [b \in Bugs |-> IF lease[b] > -1 THEN lease[b] - 1 ELSE lease[b]]
    /\ UNCHANGED <<head, life, verified, owner, ahead, pc, scanVars, queue, session,
                   historyVars, faults>>

Next ==
    \/ \E w \in Workers :
          \/ SweepStep(w) \/ Crash(w)
          \/ \E b \in Bugs : Renew(w, b)
    \/ \E b \in Bugs :
          \/ \E v \in {Elsewhere} \cup 0..head : Publish(b, v)
          \/ RenewAnalysis(b) \/ Release(b) \/ Close(b) \/ MarkDuplicate(b) \/ Assign(b)
    \/ Fetch \/ Tick

Spec == Init /\ [][Next]_vars

(* A sweep that has begun goes on, the run loop begins another after it,   *)
(* and time passes.                                                        *)
Fairness == WF_vars(Tick) /\ \A w \in Workers : WF_vars(SweepStep(w))
FairSpec == Spec /\ Fairness

-----------------------------------------------------------------------------
(* Properties.                                                             *)

TypeOK ==
    /\ head \in 0..MaxHead
    /\ life \in [Bugs -> Life]
    /\ verified \in [Bugs -> -1..MaxHead]
    /\ owner \in [Bugs -> Workers \cup {Nobody, Analysis}]
    /\ lease \in [Bugs -> -2..TTL]
    /\ ahead \in [Bugs -> SUBSET Bugs]
    /\ pc \in [Workers -> Stage]
    /\ main \in [Workers -> 0..MaxHead]
    /\ left \in [Workers -> 0..MaxChunks]
    /\ passed \in [Workers -> SUBSET Bugs]
    /\ untouched \in [Workers -> SUBSET Bugs]
    /\ skipped \in [Workers -> SUBSET Bugs]
    /\ queue \in [Workers -> [Bugs -> SUBSET (1..MaxHead)]]
    /\ session \in [Workers -> Bugs \cup {NoBug}]
    /\ examined \in [Bugs -> SUBSET (1..MaxHead)]
    /\ decided \in [Bugs -> {"none", "closed", "duplicate"}]
    /\ faults \in 0..MaxFaults

(* Whether every commit up to m that may fix b is among those of S.        *)
KnownUpTo(b, m, S) == Touching[b] \cap 1..m \subseteq S

(* verified_on_sha never claims too much: every commit up to it that may   *)
(* fix the bug was there when the analysis found the bug, or a session has *)
(* looked at it, whatever was read too early by whichever sweep.           *)
NothingSkipped == \A b \in Bugs : KnownUpTo(b, verified[b], examined[b])

(* While a session runs no other sweep and no analysis gets at its bug,    *)
(* and its verdict will be written, unless a maintainer folds the bug.     *)
SessionsUndisturbed ==
    PromptTimers =>
        \A w \in Workers, b \in Bugs :
            session[w] = b => (owner[b] = w /\ lease[b] > 0) \/ life[b] = "duplicate"

(* What a maintainer decides while a sweep is under way stays.             *)
PeopleDecide == \A b \in Bugs : decided[b] # "none" => life[b] = decided[b]

(* What a sweep has read is still true when it is used.                    *)
ReadingsHold ==
    \A w \in Workers, b \in Bugs :
        /\ b \in untouched[w] => KnownUpTo(b, main[w], examined[b])
        /\ queue[w][b] # {} => KnownUpTo(b, main[w], examined[b] \cup queue[w][b])

(* What a sweep holds where it stands.                                     *)
SweepShape ==
    \A w \in Workers :
        /\ main[w] <= head
        /\ pc[w] # "listing" => untouched[w] = {}
        /\ pc[w] = "idle" => \A b \in Bugs : queue[w][b] = {}
        /\ pc[w] = "session" <=> session[w] # NoBug
        /\ \A b \in Bugs : session[w] = b => queue[w][b] # {}
        /\ \A b \in Bugs : queue[w][b] # {} => life[b] # "absent"

IInv == TypeOK /\ SweepShape /\ NothingSkipped /\ ReadingsHold
            /\ SessionsUndisturbed /\ PeopleDecide

-----------------------------------------------------------------------------
(* What the analysis and the maintainers see of the rows.                  *)

LifeOutside(b) == IF life[b] \in {"closed", "duplicate"} THEN "shut" ELSE life[b]

Kept(b) == life[b] = "open" /\ owner[b] = Analysis /\ lease[b] >= 0

Outside == INSTANCE BugLife
             WITH life <- [b \in Bugs |-> LifeOutside(b)],
                  kept <- [b \in Bugs |-> Kept(b)]

(* Sweeps, however many and however late, do to a bug only what attempts   *)
(* and maintainers count on: a fix is recorded of an open bug that is not  *)
(* held by the attempt that published it, and nothing that a maintainer    *)
(* shut is opened or called fixed (write_upstream_fix_check: "preserving   *)
(* concurrent human triage").                                              *)
MovesAsAgreed == Outside!Spec

-----------------------------------------------------------------------------

Behind(b) == life[b] = "open" /\ verified[b] \in 0..(head - 1)

(* No bug is starved by others that are never decided, though a sweep has  *)
(* only BatchSize sessions: every bug that is behind the mainline is       *)
(* advanced, or a session gets to it.                                      *)
EveryBugIsExamined ==
    \A b \in Bugs : Behind(b) ~> ~Behind(b) \/ \E w \in Workers : session[w] = b

=============================================================================
