------------------------------ MODULE ModelCalls ------------------------------
(***************************************************************************)
(* How the calls of the model are admitted, retried and paid for: the      *)
(* retry loop (src/src/ai/backoff_provider.rs), the permits it goes        *)
(* through (src/src/ai/concurrency_limited_provider.rs), the cooldown and  *)
(* the pacing all calls share (src/src/ai/quota.rs), as reviewer.rs        *)
(* 3768-3802 and local_review.rs 443-474 stack them.                       *)
(*                                                                         *)
(* A call waits out the cooldown, gets a permit and then the dispatch      *)
(* gate, waits for its slot, and goes out.  A review is stopped when its   *)
(* time is over, but the time in which it only waited is given back.  A    *)
(* call can be dropped wherever it waits, by a cancellation or by the      *)
(* watchdog of its review.                                                 *)
(*                                                                         *)
(* The time of reviews is counted in ticks.  Cooldowns, slots and windows  *)
(* of tokens are on or off and end at some time: how long they last        *)
(* matters to no property.                                                 *)
(*                                                                         *)
(* An operator whose comment begins with "Fault:" is a plausible mistake   *)
(* in the operator that follows it.  No action uses it; the project checks *)
(* that substituting it breaks a property.                                 *)
(***************************************************************************)
EXTENDS Integers, FiniteSets

CONSTANTS
    Calls,        \* the calls that may be made
    Reviews,      \* the reviews that make them
    ReviewOf,     \* ReviewOf[c]: the review that makes call c
    Permits,      \* the configurations: permits of the semaphore
    Timeout,      \* the time of a review, in ticks
    MaxAttempts,  \* attempts of a call whose review has no time limit
    LimitSets,    \* the configurations: sets of "rps" and "tpm"
    Timings,      \* whether reviews have a time limit: of TRUE, FALSE
    MaxTime,      \* bound: ticks
    MaxErrors     \* bound: errors of the provider

None == "none"

ASSUME ModelCallsAssumption ==
    /\ IsFiniteSet(Calls) /\ None \notin Calls
    /\ ReviewOf \in [Calls -> Reviews]
    /\ Permits \subseteq Nat \ {0} /\ Timeout \in Nat /\ MaxAttempts \in Nat \ {0}
    /\ LimitSets \subseteq SUBSET {"rps", "tpm"}
    /\ Timings \subseteq BOOLEAN
    /\ MaxTime \in Nat /\ MaxErrors \in Nat

VARIABLES
    limits,    \* max_rps and max_tpm, where they are set
    timed,     \* reviews have a time limit
    permits,   \* permits of the semaphore
    now,       \* the time
    cooldown,  \* blocked_until is ahead
    paced,     \* next_allowed_at is ahead
    full,      \* the window of tokens has no room
    holders,   \* the calls that have a permit
    gate,      \* the call that has the dispatch gate
    stage,     \* stage[c]: where call c stands
    since,     \* since[c]: when c began to wait for the cooldown
    tries,     \* tries[c]: failed attempts of c
    budget,    \* budget[r]: the deadline of r and its tracker
    over,      \* over[r]: r was cancelled or stopped
    errors,    \* errors of the provider so far
    idle       \* idle[r]: history, the ticks in which r only waited

configVars == <<limits, timed, permits>>
quotaVars == <<cooldown, paced, full>>
callVars == <<stage, since, tries>>
vars == <<limits, timed, permits, now, cooldown, paced, full, holders, gate, stage,
          since, tries, budget, over, errors, idle>>

-----------------------------------------------------------------------------

(* unmade: the worker has not asked for it;  new: at the top of the retry  *)
(* loop;  cooling, calm: in the two waits for the cooldown, outside and    *)
(* inside the loop for a permit;  queued: for a permit;  gated: for the    *)
(* gate;  pacing, sleeping: in the loop for a slot;  cleared: has its      *)
(* slot;  active: sent;  succeeded, limited, resting: answered.            *)
Waiting == {"cooling", "calm", "queued", "gated", "pacing", "sleeping", "cleared"}
AtGate == {"pacing", "sleeping"}
Holding == {"gated", "pacing", "sleeping", "cleared", "active"}
Stage == Waiting \cup {"unmade", "new", "active", "succeeded", "limited",
                       "resting", "ended"}

Never == -1

Instant == Nat \cup {Never}

(* ActiveTracker with the deadline it is given.  since: idle_wait_since;   *)
(* credited: last_credit_end;  activeEnd: last_active_end.                 *)
Budget == [deadline : Nat, active : Nat, waiting : Nat,
           since : Instant, credited : Instant, activeEnd : Instant]

TypeOK ==
    /\ limits \in LimitSets /\ timed \in Timings /\ permits \in Permits
    /\ now \in 0..MaxTime
    /\ cooldown \in BOOLEAN /\ paced \in BOOLEAN /\ full \in BOOLEAN
    /\ holders \subseteq Calls
    /\ gate \in Calls \cup {None}
    /\ stage \in [Calls -> Stage]
    /\ since \in [Calls -> Nat]
    /\ tries \in [Calls -> Nat]
    /\ budget \in [Reviews -> Budget]
    /\ over \in [Reviews -> BOOLEAN]
    /\ errors \in 0..MaxErrors
    /\ idle \in [Reviews -> Nat]

Init ==
    /\ limits \in LimitSets /\ timed \in Timings /\ permits \in Permits
    /\ now = 0
    /\ cooldown = FALSE /\ paced = FALSE /\ full = FALSE
    /\ holders = {} /\ gate = None
    /\ stage = [c \in Calls |-> "unmade"]
    /\ since = [c \in Calls |-> 0]
    /\ tries = [c \in Calls |-> 0]
    /\ budget = [r \in Reviews |->
                   [deadline |-> Timeout, active |-> 0, waiting |-> 0,
                    since |-> Never, credited |-> Never, activeEnd |-> Never]]
    /\ over = [r \in Reviews |-> FALSE]
    /\ errors = 0
    /\ idle = [r \in Reviews |-> 0]

-----------------------------------------------------------------------------
(* The tracker: what it does to a budget b at time t.                      *)

Later(s, t) == IF s > t THEN s ELSE t
Less(n) == IF n > 0 THEN n - 1 ELSE 0

Flush(b, t) ==
    IF b.active = 0 /\ b.since # Never /\ t > b.since
    THEN [b EXCEPT !.deadline = @ + (t - b.since), !.credited = t, !.since = t]
    ELSE b

Enlist(b, t) ==
    [b EXCEPT !.waiting = @ + 1,
              !.since = IF b.waiting = 0 /\ b.active = 0
                        THEN Later(t, b.credited) ELSE @]

WaitStart(b, t) == Enlist(Flush(b, t), t)

Delist(b) ==
    [b EXCEPT !.waiting = Less(@), !.since = IF b.waiting <= 1 THEN Never ELSE @]

WaitEnd(b, t) == Delist(Flush(b, t))

Depart(b) == [b EXCEPT !.active = @ + 1, !.since = Never]

RequestStart(b, t) == Depart(Flush(b, t))

RequestEnd(b, t) ==
    [b EXCEPT !.activeEnd = t,
              !.active = Less(@),
              !.since = IF b.active <= 1 /\ b.waiting > 0
                        THEN Later(t, b.credited) ELSE @]

Grant(b, t, from) ==
    IF t > from THEN [b EXCEPT !.deadline = @ + (t - from), !.credited = t] ELSE b

(* Fault: what the siblings did in the meantime is forgotten.              *)
CreditWholeWait(b, t, slept) ==
    IF slept = 0 \/ b.active > 0
    THEN b
    ELSE Grant(b, t, Later(t - slept, b.credited))

(* credit_wait: what of the last slept ticks has not been credited yet.    *)
CreditWait(b, t, slept) ==
    IF slept = 0 \/ b.active > 0
    THEN b
    ELSE Grant(b, t, Later(Later(t - slept, b.credited), b.activeEnd))

(* check: the error of a review whose time is over.                        *)
TooLate(b, t) == timed /\ t > Flush(b, t).deadline

Book(r, b) == budget' = IF timed THEN [budget EXCEPT ![r] = b] ELSE budget

-----------------------------------------------------------------------------
(* Calls.                                                                  *)

Move(c, from, to) == stage[c] = from /\ stage' = [stage EXCEPT ![c] = to]

Keep == UNCHANGED <<configVars, quotaVars, now, since, tries, over, errors, idle>>

(* A call is made, or tried again.                                         *)
Begin(c, from) ==
    LET r == ReviewOf[c] IN
    /\ Move(c, from, "cooling")
    /\ ~over[r]
    /\ since' = [since EXCEPT ![c] = now]
    /\ Book(r, WaitStart(budget[r], now))
    /\ UNCHANGED <<configVars, quotaVars, now, holders, gate, tries, over, errors, idle>>

(* The end of the outer wait: it slept, or found no cooldown.              *)
LeaveCooldown(c) ==
    LET r == ReviewOf[c]
        out == WaitEnd(budget[r], now)
    IN
    /\ stage[c] = "cooling" /\ ~cooldown
    /\ \E slept \in {0, now - since[c]} :
         LET b == CreditWait(out, now, slept) IN
         \/ /\ TooLate(b, now)
            /\ Move(c, "cooling", "ended") /\ Book(r, b)
         \/ /\ ~TooLate(b, now)
            /\ Move(c, "cooling", "calm") /\ Book(r, WaitStart(b, now))
    /\ UNCHANGED <<holders, gate>> /\ Keep

(* An error of check drops the permit, the gate and the wait guard.        *)
GiveUp(c, from) ==
    LET r == ReviewOf[c] IN
    /\ TooLate(budget[r], now)
    /\ Move(c, from, "ended")
    /\ holders' = holders \ {c}
    /\ gate' = IF gate = c THEN None ELSE gate
    /\ Book(r, WaitEnd(budget[r], now))
    /\ Keep

Checked(c) == ~TooLate(budget[ReviewOf[c]], now) /\ Book(ReviewOf[c], Flush(budget[ReviewOf[c]], now))

(* The inner wait, and the check before a permit is asked for.             *)
Calm(c) ==
    /\ stage[c] = "calm" /\ ~cooldown
    /\ \/ GiveUp(c, "calm")
       \/ /\ Checked(c)
          /\ Move(c, "calm", "queued")
          /\ UNCHANGED <<holders, gate>> /\ Keep

(* Without limits wait_for_pacing_checked returns at once.                 *)
Acquire(c) ==
    /\ Move(c, "queued", IF limits = {} THEN "cleared" ELSE "gated")
    /\ Cardinality(holders) < permits
    /\ holders' = holders \cup {c}
    /\ UNCHANGED <<gate, budget>> /\ Keep

(* Fault: the call goes back to wait with the permit in its hand.          *)
BackKeepingPermit(c, from) ==
    /\ Move(c, from, "calm")
    /\ gate' = IF gate = c THEN None ELSE gate
    /\ UNCHANGED holders

(* Fault: the gate is not given back.                                      *)
BackKeepingGate(c, from) ==
    /\ Move(c, from, "calm")
    /\ holders' = holders \ {c}
    /\ UNCHANGED gate

(* A cooldown: back to the inner wait, without the permit.                 *)
Back(c, from) ==
    /\ Move(c, from, "calm")
    /\ gate' = IF gate = c THEN None ELSE gate
    /\ holders' = holders \ {c}

(* Fault: no dispatch gate.                                                *)
GateIsFreeAlways == TRUE

GateIsFree == gate = None

TakeGate(c) ==
    /\ stage[c] = "gated" /\ GateIsFree
    /\ \/ GiveUp(c, "gated")
       \/ /\ Checked(c)
          /\ \/ cooldown /\ Back(c, "gated")
             \/ /\ ~cooldown
                /\ Move(c, "gated", "pacing")
                /\ gate' = c /\ UNCHANGED holders
          /\ Keep

(* One turn of the loop for a slot.                                        *)
Pace(c) ==
    /\ stage[c] = "pacing"
    /\ \/ cooldown /\ Back(c, "pacing")
       \/ /\ ~cooldown
          /\ Move(c, "pacing", IF paced \/ full THEN "sleeping" ELSE "cleared")
          /\ UNCHANGED <<holders, gate>>
    /\ UNCHANGED budget /\ Keep

Wake(c) ==
    /\ stage[c] = "sleeping"
    /\ \/ GiveUp(c, "sleeping")
       \/ /\ Checked(c)
          /\ Move(c, "sleeping", "pacing")
          /\ UNCHANGED <<holders, gate>> /\ Keep

(* The slot is reserved, the gate and the wait guard are dropped, and the  *)
(* request goes out unless the time is over.                               *)
Dispatch(c) ==
    LET r == ReviewOf[c]
        out == WaitEnd(budget[r], now)
    IN
    /\ stage[c] = "cleared"
    /\ paced' = (paced \/ "rps" \in limits)
    /\ gate' = IF gate = c THEN None ELSE gate
    /\ \/ /\ TooLate(out, now)
          /\ Move(c, "cleared", "ended")
          /\ holders' = holders \ {c}
          /\ Book(r, out)
       \/ /\ ~TooLate(out, now)
          /\ Move(c, "cleared", "active")
          /\ Book(r, RequestStart(out, now))
          /\ UNCHANGED holders
    /\ UNCHANGED <<configVars, cooldown, full, now, since, tries, over, errors, idle>>

(* The provider answers; the permit is dropped before the retry loop looks *)
(* at the answer.                                                          *)
Answer(c) ==
    LET r == ReviewOf[c] IN
    /\ stage[c] = "active"
    /\ holders' = holders \ {c}
    /\ Book(r, RequestEnd(budget[r], now))
    /\ UNCHANGED <<configVars, quotaVars, now, gate, since, over, idle>>
    /\ \/ Move(c, "active", "succeeded") /\ UNCHANGED <<tries, errors>>
       \/ /\ errors < MaxErrors /\ errors' = errors + 1
          /\ tries' = [tries EXCEPT ![c] = @ + 1]
          /\ \E to \in IF ~timed /\ tries[c] + 1 >= MaxAttempts
                       THEN {"ended"}
                       ELSE {"limited", "resting", "ended"} :
               Move(c, "active", to)

(* A success ends the cooldown and adds its tokens to the window.          *)
ReportSuccess(c) ==
    /\ Move(c, "succeeded", "ended")
    /\ cooldown' = FALSE
    /\ full' \in {full, full \/ "tpm" \in limits}
    /\ UNCHANGED <<configVars, paced, now, holders, gate, since, tries, budget,
                   over, errors, idle>>

(* A rate limit starts a cooldown for all calls, or none if it asks for    *)
(* none.                                                                   *)
ReportLimit(c) ==
    /\ Move(c, "limited", "new")
    /\ cooldown' \in {cooldown, TRUE}
    /\ UNCHANGED <<configVars, paced, full, now, holders, gate, since, tries,
                   budget, over, errors, idle>>

(* The backoff of a transient error, which is the call's own.              *)
Rested(c) ==
    /\ Move(c, "resting", "new")
    /\ UNCHANGED <<holders, gate, budget>> /\ Keep

CallStep(c) ==
    \/ Begin(c, "new") \/ LeaveCooldown(c) \/ Calm(c) \/ Acquire(c) \/ TakeGate(c) \/ Pace(c)
    \/ Wake(c) \/ Dispatch(c) \/ Answer(c) \/ ReportSuccess(c) \/ ReportLimit(c)
    \/ Rested(c)

-----------------------------------------------------------------------------
(* Reviews.                                                                *)

Own(r) == {c \in Calls : ReviewOf[c] = r}

(* The tasks of the calls are aborted, which drops what they hold.  The    *)
(* budget goes with them.                                                  *)
Abort(r) ==
    /\ ~over[r]
    /\ over' = [over EXCEPT ![r] = TRUE]
    /\ stage' = [c \in Calls |-> IF c \in Own(r) THEN "ended" ELSE stage[c]]
    /\ holders' = holders \ Own(r)
    /\ gate' = IF gate \in Own(r) THEN None ELSE gate
    /\ UNCHANGED <<configVars, quotaVars, now, since, tries, budget, errors, idle>>

(* A cancelled patchset, a spent token budget, a worker that died.         *)
Cancel(r) == Abort(r)

(* The watchdog looks at the deadline on every turn of its loop.           *)
Watch(r) ==
    LET b == Flush(budget[r], now) IN
    /\ timed
    /\ \/ b.deadline <= now /\ Abort(r)
       \/ /\ b.deadline > now /\ ~over[r]
          /\ Book(r, b)
          /\ UNCHANGED <<configVars, quotaVars, callVars, now, holders, gate, over, errors, idle>>

-----------------------------------------------------------------------------
(* Time.                                                                   *)

Active(r) == {c \in Own(r) : stage[c] = "active"}
Parked(r) == {c \in Own(r) : stage[c] \in Waiting}

OnlyWaits(r) == timed /\ ~over[r] /\ Active(r) = {} /\ Parked(r) # {}

Tick ==
    /\ now < MaxTime
    /\ now' = now + 1
    /\ idle' = [r \in Reviews |-> IF OnlyWaits(r) THEN idle[r] + 1 ELSE idle[r]]
    /\ UNCHANGED <<configVars, quotaVars, callVars, holders, gate, budget, over, errors>>

Others == UNCHANGED <<configVars, now, holders, gate, callVars, budget, over,
                      errors, idle>>

CooldownEnds == cooldown /\ cooldown' = FALSE /\ UNCHANGED <<paced, full>> /\ Others
SlotComes == paced /\ paced' = FALSE /\ UNCHANGED <<cooldown, full>> /\ Others
WindowSlides == full /\ full' = FALSE /\ UNCHANGED <<cooldown, paced>> /\ Others

Elapse == CooldownEnds \/ SlotComes \/ WindowSlides

Next ==
    \/ \E c \in Calls : Begin(c, "unmade") \/ CallStep(c)
    \/ \E r \in Reviews : Cancel(r) \/ Watch(r)
    \/ Tick \/ Elapse

Spec == Init /\ [][Next]_vars

(* A worker need not make a call, but one that is made goes on.            *)
Fairness == (\A c \in Calls : WF_vars(CallStep(c))) /\ WF_vars(Elapse)

FairSpec == Spec /\ Fairness

-----------------------------------------------------------------------------
(* Properties.                                                             *)

PermitsAreHeld ==
    /\ holders = {c \in Calls : stage[c] \in Holding}
    /\ Cardinality(holders) <= permits

GateIsHeld ==
    \A c \in Calls :
       gate = c <=> stage[c] \in AtGate \/ (stage[c] = "cleared" /\ limits # {})

(* Without limits nobody comes to the pacing.                              *)
PacingHasLimits ==
    \A c \in Calls : stage[c] \in AtGate \cup {"gated"} => limits # {}

(* Whoever was shown a free slot is still alone with it.                   *)
SlotIsKept ==
    \A c \in Calls : stage[c] = "cleared" /\ "rps" \in limits => ~paced

CountsAreRight ==
    \A r \in Reviews : timed /\ ~over[r] =>
       /\ budget[r].active = Cardinality(Active(r))
       /\ budget[r].waiting = Cardinality(Parked(r))

(* What the tracker keeps of a review whose deadline has moved by credit.  *)
Balanced(b, t, credit) ==
    /\ b.since # Never <=> b.active = 0 /\ b.waiting > 0
    /\ b.since <= t /\ b.credited <= t /\ b.activeEnd <= t
    /\ b.deadline + (IF b.since = Never THEN 0 ELSE t - b.since) = Timeout + credit

(* What happened since s and before the idle wait is known to the tracker. *)
Anchored(b, s) ==
    b.since = Never \/ b.since <= s \/ b.since \in {b.credited, b.activeEnd}

TrackersAreRight ==
    \A r \in Reviews : timed /\ ~over[r] =>
       /\ Balanced(budget[r], now, idle[r])
       /\ \A c \in Own(r) : stage[c] = "cooling" =>
             since[c] <= now /\ Anchored(budget[r], since[c])

(* A review that is over has no call left.                                 *)
OverMeansEnded ==
    \A c \in Calls : over[ReviewOf[c]] => stage[c] = "ended"

(* Permits and the gate are with the calls that need them, and with nobody *)
(* else, whichever way a call was left (concurrency_limited_provider.rs    *)
(* 86-134, quota.rs 209-247), and the tracker counts the calls there are   *)
(* and knows since when the review only waits (backoff_provider.rs 89-175).*)
IInv ==
    /\ TypeOK /\ PermitsAreHeld /\ GateIsHeld /\ PacingHasLimits /\ SlotIsKept
    /\ CountsAreRight /\ TrackersAreRight /\ OverMeansEnded

(* Call c is under way, and waits for the clock or the provider if at all. *)
WaitsForNone(c) ==
    /\ stage[c] \notin {"unmade", "ended"}
    /\ stage[c] = "queued" => Cardinality(holders) < permits
    /\ stage[c] = "gated" => GateIsFree

(* A call that waits for others waits for one that has a permit and waits  *)
(* for none: permits are held while the gate is waited for, and the gate   *)
(* while a slot is (concurrency_limited_provider.rs 86-134, quota.rs       *)
(* 209-247), and yet no calls wait for each other in a ring.               *)
NoCircularWait ==
    \A c \in Calls : stage[c] \in {"queued", "gated"} /\ ~WaitsForNone(c) =>
       \E d \in holders \ {c} : WaitsForNone(d)

(* The deadline has moved by the ticks in which the review only waited,    *)
(* each of them once, however the waits and requests of its calls overlap  *)
(* (backoff_provider.rs 89-175; docs/configuration.md:406).                *)
CreditIsIdleTime ==
    \A r \in Reviews : timed /\ ~over[r] =>
       Flush(budget[r], now).deadline = Timeout + idle[r]

(* With max_rps no call goes out in the slot of another: between the look  *)
(* at the slot and its reservation there is another lock (quota.rs         *)
(* 220-253), and the gate makes the two one.                               *)
SlotsAreNotShared ==
    [][\A c \in Calls :
          stage[c] = "cleared" /\ stage'[c] = "active" /\ "rps" \in limits => ~paced]_vars

(* Every call that is made ends: no permit or gate is waited for by all,   *)
(* and a cooldown holds nobody for ever.                                   *)
EveryCallEnds ==
    \A c \in Calls : stage[c] # "unmade" ~> stage[c] = "ended"

=============================================================================
