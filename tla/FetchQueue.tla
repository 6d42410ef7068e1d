----------------------------- MODULE FetchQueue -----------------------------
(***************************************************************************)
(* How a pull request, or a submitted range of commits, becomes a patchset *)
(* that can be reviewed (db.rs, fetcher.rs, main.rs, server.rs and         *)
(* worker/forge.rs).  A webhook, an API call or the poller creates a       *)
(* placeholder patchset and, in a second transaction, a row of             *)
(* fetch_queue.  The only FetchAgent of the daemon claims one row at a     *)
(* time, fetches and extracts the commits, marks the row Done, and only    *)
(* then sends one event per part through a channel that lives in memory.   *)
(* The ingestion loop reads the channel in order; each part takes two      *)
(* transactions, one for the patchset and one for the patch.               *)
(*                                                                         *)
(* An article stands for one range of one pull request: a patchset and a   *)
(* row of fetch_queue have the same article id.  locked_at is not kept:    *)
(* there is one agent, it is done with a row before it claims another, so  *)
(* a row that is Fetching while the agent works on its article is the      *)
(* agent's.  The requests that bypass the queue (thread downloads,         *)
(* repository URLs with credentials) and the archive of superseded         *)
(* revisions are not modelled.                                             *)
(*                                                                         *)
(* An operator whose comment begins with "Fault:" is a plausible mistake   *)
(* in the operator that follows it.  No action uses it; the project checks *)
(* that substituting it breaks a property.                                 *)
(***************************************************************************)
EXTENDS Naturals, Sequences

CONSTANTS
    Articles,     \* the ranges that are submitted
    Hooks,        \* webhook deliveries and API calls that run at a time
    Poller,       \* the task that polls the forge
    N,            \* the number of parts of a series
    MaxRetries,   \* review.max_retries
    Capacity,     \* the capacity of the channel
    MaxFaults     \* bound: restarts, panics, dropped requests, failed writes

ASSUME FetchQueueAssumption ==
    /\ N \in Nat \ {0}
    /\ MaxRetries \in Nat
    /\ Capacity \in Nat \ {0}
    /\ MaxFaults \in Nat
    /\ Poller \notin Hooks

VARIABLES
    ps,       \* the patchset of each article
    row,      \* the row of fetch_queue of each article
    agent,    \* what the FetchAgent does
    channel,  \* the events on their way to the ingestion loop
    ingest,   \* the part that the ingestion loop has half stored
    sub,      \* what each submitter does
    faults    \* how many faults there were

vars == <<ps, row, agent, channel, ingest, sub, faults>>

Submitters == Hooks \union {Poller}
Parts == 1..N

\* The event IngestionFailed, where an event of a part has its number.
Failure == 0

PatchsetStatus == {"none", "Fetching", "Incomplete", "Pending", "Reviewed",
                   "Failed", "Cancelled"}
\* failed_reason: "interrupted" stands for the reasons that
\* has_forge_pr_head_ingested does not accept as final.
Reasons == {"none", "interrupted", "fetch", "review"}
RowStatus == {"none", "Pending", "Fetching", "Done", "Failed", "Cancelled"}

Patchset == [status : PatchsetStatus, why : Reasons, parts : SUBSET Parts]
Row == [status : RowStatus, retry : Nat, due : BOOLEAN]
AbsentRow == [status |-> "none", retry |-> 0, due |-> TRUE]
Event == [article : Articles, part : {Failure} \union Parts]

AgentStages == {"fetching", "extracting", "sending", "failing"}
IdleAgent == [stage |-> "idle"]
Agent == [stage : AgentStages, article : Articles, retry : Nat, next : Parts]

IdleIngest == [stage |-> "idle"]
Storing == [stage : {"storing"}, article : Articles, part : Parts]

SubStages == {"checked", "created", "enqueuing"}
IdleSub == [stage |-> "idle"]
Submission == [stage : SubStages, article : Articles]

-----------------------------------------------------------------------------
Live(a) == row[a].status \in {"Pending", "Fetching"}
TargetCancelled(a) == ps[a].status = "Cancelled"
Complete(a) == ps[a].parts = Parts

SetStatus(a, status) == ps' = [ps EXCEPT ![a].status = status]
Fail(a, why) == ps' = [ps EXCEPT ![a].status = "Failed", ![a].why = why]
SetRow(a, status) == row' = [row EXCEPT ![a].status = status]

Fault == /\ faults < MaxFaults
         /\ faults' = faults + 1

Init ==
    /\ ps = [a \in Articles |-> [status |-> "none", why |-> "none", parts |-> {}]]
    /\ row = [a \in Articles |-> AbsentRow]
    /\ agent = IdleAgent
    /\ channel = <<>>
    /\ ingest = IdleIngest
    /\ sub = [s \in Submitters |-> IdleSub]
    /\ faults = 0

-----------------------------------------------------------------------------
(* Submission: the placeholder, then the row.                              *)

Stage(s, stage, a) == sub' = [sub EXCEPT ![s] = [stage |-> stage, article |-> a]]
Leave(s) == sub' = [sub EXCEPT ![s] = IdleSub]
At(s, stage) == sub[s].stage = stage

\* A webhook is delivered, or an API call comes in.
Receive(s, a) ==
    /\ s \in Hooks
    /\ At(s, "idle")
    /\ Stage(s, "checked", a)
    /\ UNCHANGED <<ps, row, agent, channel, ingest, faults>>


\* has_forge_pr_head_ingested.
Ingested(a) ==
    CASE ps[a].status = "none" -> FALSE
      [] ps[a].status = "Fetching" -> row[a].status \in {"Pending", "Fetching", "Done"}
      [] ps[a].status = "Failed" -> ps[a].why # "interrupted"
      [] OTHER -> TRUE

\* The poller meets an open pull request that it finds not ingested.
Poll(a) ==
    /\ At(Poller, "idle")
    /\ ~ Ingested(a)
    /\ Stage(Poller, "checked", a)
    /\ UNCHANGED <<ps, row, agent, channel, ingest, faults>>

\* The patchset was there, and its fetch ended.
Ended(a) == ps[a].status # "none" /\ row[a].status \in {"Done", "Failed", "Cancelled"}

\* create_fetching_patchset: a placeholder, unless there is a patchset that is
\* neither failed, cancelled nor being fetched.  The row of a fetch that ended
\* goes.
Create(s) ==
    LET a == sub[s].article IN
    /\ At(s, "checked")
    /\ Stage(s, "created", a)
    /\ IF ps[a].status \in {"none", "Failed", "Fetching", "Cancelled"}
       THEN /\ ps' = [ps EXCEPT ![a].status = "Fetching", ![a].why = "none"]
            /\ row' = IF Ended(a) THEN [row EXCEPT ![a] = AbsentRow] ELSE row
       ELSE UNCHANGED <<ps, row>>
    /\ UNCHANGED <<agent, channel, ingest, faults>>

\* get_patchset_status: only a placeholder is worth a fetch.
CheckStatus(s) ==
    LET a == sub[s].article IN
    /\ At(s, "created")
    /\ IF ps[a].status = "Fetching" THEN Stage(s, "enqueuing", a) ELSE Leave(s)
    /\ UNCHANGED <<ps, row, agent, channel, ingest, faults>>

NewRow == [status |-> "Pending", retry |-> 0, due |-> TRUE]

\* A row that is being fetched stays as it is, one that waits keeps its retries,
\* and one that ended starts again.
Enqueued(a) ==
    CASE row[a].status = "Fetching" -> row[a]
      [] row[a].status = "Pending" -> [row[a] EXCEPT !.due = TRUE]
      [] OTHER -> NewRow

\* enqueue_fetch_request.
Enqueue(s) ==
    LET a == sub[s].article IN
    /\ At(s, "enqueuing")
    /\ row' = [row EXCEPT ![a] = Enqueued(a)]
    /\ Leave(s)
    /\ UNCHANGED <<ps, agent, channel, ingest, faults>>

\* Fault: only the parts are looked at.
FailFetchingBare(a, why) ==
    IF ps[a].parts = {} THEN Fail(a, why) ELSE UNCHANGED ps

\* fail_fetching_patchset: what a part or a submission that could not be
\* written does to a patchset that has no part yet.
FailFetching(a, why) ==
    IF \/ ps[a].status = "Fetching"
       \/ ps[a].status \in {"Incomplete", "Failed"} /\ ps[a].parts = {}
    THEN Fail(a, why)
    ELSE UNCHANGED ps

\* The status cannot be read, or the row cannot be written.
SubmitFails(s) ==
    /\ \/ At(s, "created")
       \/ At(s, "enqueuing")
    /\ Fault
    /\ FailFetching(sub[s].article, "interrupted")
    /\ Leave(s)
    /\ UNCHANGED <<row, agent, channel, ingest>>

\* The client hangs up and the handler is dropped where it waits.
Abandon(s) ==
    /\ s \in Hooks
    /\ ~ At(s, "idle")
    /\ Fault
    /\ Leave(s)
    /\ UNCHANGED <<ps, row, agent, channel, ingest>>

-----------------------------------------------------------------------------
(* The FetchAgent.                                                         *)

AgentAt(stage) == agent.stage = stage
AgentGoes(stage) == agent' = [agent EXCEPT !.stage = stage]
AgentRests == agent' = IdleAgent
Holds(a) == row[a].status = "Fetching" /\ ~ TargetCancelled(a)

\* cancel_fetch_queue_if_target_cancelled.
DropRow(a) ==
    row' = IF row[a].status = "Fetching" /\ TargetCancelled(a)
           THEN [row EXCEPT ![a].status = "Cancelled"]
           ELSE row

\* The first update of lock_pending_fetch_queue.
WithoutCancelled ==
    [a \in Articles |-> IF Live(a) /\ TargetCancelled(a)
                        THEN [row[a] EXCEPT !.status = "Cancelled"]
                        ELSE row[a]]

\* lock_pending_fetch_queue finds a row that is due.
Lock(a) ==
    /\ AgentAt("idle")
    /\ WithoutCancelled[a].status = "Pending"
    /\ row[a].due
    /\ row' = [WithoutCancelled EXCEPT ![a].status = "Fetching"]
    /\ agent' = [stage |-> "fetching", article |-> a, retry |-> row[a].retry, next |-> 1]
    /\ UNCHANGED <<ps, channel, ingest, sub, faults>>

\* lock_pending_fetch_queue finds none, and has cancelled what was to cancel.
LockNone ==
    /\ AgentAt("idle")
    /\ \A a \in Articles : ~ (WithoutCancelled[a].status = "Pending" /\ row[a].due)
    /\ row' = WithoutCancelled
    /\ UNCHANGED <<ps, agent, channel, ingest, sub, faults>>

\* sweep_stale_fetch_queue: a row whose agent panicked more than ten minutes ago.
Sweep(a) ==
    /\ AgentAt("idle")
    /\ row[a].status = "Fetching"
    /\ SetRow(a, "Pending")
    /\ UNCHANGED <<ps, agent, channel, ingest, sub, faults>>

\* next_retry_at comes.
BackoffEnds(a) ==
    /\ row[a].status = "Pending"
    /\ ~ row[a].due
    /\ row' = [row EXCEPT ![a].due = TRUE]
    /\ UNCHANGED <<ps, agent, channel, ingest, sub, faults>>

\* The commits are there; has_fetch_queue_lease.
Fetched ==
    LET a == agent.article IN
    /\ AgentAt("fetching")
    /\ IF Holds(a)
       THEN AgentGoes("extracting") /\ UNCHANGED row
       ELSE AgentRests /\ DropRow(a)
    /\ UNCHANGED <<ps, channel, ingest, sub, faults>>

(* Fault: one retry too many.                                              *)
RetryAtLimit == agent.retry < MaxRetries

RetryLeft == agent.retry + 1 < MaxRetries

\* handle_db_fetch_error, with a retry left: set_fetch_queue_retry_at.
FetchFails ==
    LET a == agent.article IN
    /\ \/ AgentAt("fetching")
       \/ AgentAt("extracting")
    /\ RetryLeft
    /\ AgentRests
    /\ IF Holds(a)
       THEN row' = [row EXCEPT ![a] = [status |-> "Pending", retry |-> @.retry + 1,
                                       due |-> FALSE]]
       ELSE DropRow(a)
    /\ UNCHANGED <<ps, channel, ingest, sub, faults>>

\* fail_db_fetch_permanently: the retries are used up, a local repository does
\* not have the commits, or the range cannot be extracted.
FailsForGood ==
    LET a == agent.article IN
    /\ \/ AgentAt("fetching")
       \/ AgentAt("extracting")
    /\ IF Holds(a)
       THEN /\ SetRow(a, "Failed")
            /\ AgentGoes("failing")
            /\ IF ps[a].status \in {"Fetching", "Incomplete", "Failed"}
               THEN Fail(a, "fetch")
               ELSE UNCHANGED ps
       ELSE AgentRests /\ DropRow(a) /\ UNCHANGED ps
    /\ UNCHANGED <<channel, ingest, sub, faults>>

Send(part) ==
    /\ Len(channel) < Capacity
    /\ channel' = Append(channel, [article |-> agent.article, part |-> part])

\* The event IngestionFailed.
SendFailure ==
    /\ AgentAt("failing")
    /\ Send(Failure)
    /\ AgentRests
    /\ UNCHANGED <<ps, row, ingest, sub, faults>>

\* mark_fetch_queue_done.
MarkDone ==
    LET a == agent.article IN
    /\ AgentAt("extracting")
    /\ IF Holds(a)
       THEN /\ row' = [row EXCEPT ![a] = [status |-> "Done", retry |-> @.retry,
                                          due |-> TRUE]]
            /\ AgentGoes("sending")
       ELSE AgentRests /\ DropRow(a)
    /\ UNCHANGED <<ps, channel, ingest, sub, faults>>

\* One event PatchSubmitted per part, in order.
SendPart ==
    /\ AgentAt("sending")
    /\ Send(agent.next)
    /\ IF agent.next = N THEN AgentRests ELSE agent' = [agent EXCEPT !.next = @ + 1]
    /\ UNCHANGED <<ps, row, ingest, sub, faults>>

\* The agent panics in git's output, or a write fails, and is started again.
Panic ==
    /\ \/ AgentAt("fetching")
       \/ AgentAt("extracting")
    /\ Fault
    /\ AgentRests
    /\ UNCHANGED <<ps, row, channel, ingest, sub>>

-----------------------------------------------------------------------------
(* The ingestion loop.                                                     *)

Receives == ingest = IdleIngest /\ channel # <<>>

\* update_patchset_error.
IngestFailure ==
    LET a == Head(channel).article IN
    /\ Receives
    /\ Head(channel).part = Failure
    /\ channel' = Tail(channel)
    /\ IF ps[a].status \in {"Fetching", "Incomplete", "Failed"} /\ ~ Live(a)
       THEN Fail(a, "fetch")
       ELSE UNCHANGED ps
    /\ UNCHANGED <<row, agent, ingest, sub, faults>>

(* Fault: a part that is read late opens a series that failed in review.   *)
OpenedAgain(a) == ps[a].status \in {"Fetching", "Incomplete", "Failed"}

\* create_patchset: a placeholder, or a series that failed before all of it was
\* there, is open again; one that is complete is ready.
Opened(a) ==
    \/ ps[a].status \in {"Fetching", "Incomplete"}
    \/ ps[a].status = "Failed" /\ ~ Complete(a)

Adopt ==
    LET a == Head(channel).article IN
    /\ Receives
    /\ Head(channel).part # Failure
    /\ channel' = Tail(channel)
    /\ ingest' = [stage |-> "storing", article |-> a, part |-> Head(channel).part]
    /\ IF Opened(a)
       THEN ps' = [ps EXCEPT ![a] = [status |-> IF Complete(a) THEN "Pending"
                                                               ELSE "Incomplete",
                                     why |-> "none", parts |-> @.parts]]
       ELSE UNCHANGED ps
    /\ UNCHANGED <<row, agent, sub, faults>>

\* create_patch, with the recount of the parts.
Store ==
    LET a == ingest.article
        parts == ps[a].parts \union {ingest.part}
        ready == parts = Parts /\ ps[a].status \in {"Incomplete", "Fetching"}
    IN
    /\ ingest # IdleIngest
    /\ ingest' = IdleIngest
    /\ ps' = [ps EXCEPT ![a].parts = parts,
                        ![a].status = IF ready THEN "Pending" ELSE @]
    /\ UNCHANGED <<row, agent, channel, sub, faults>>

\* A part, or its patchset, cannot be written.
IngestFails ==
    /\ Fault
    /\ \/ /\ Receives
          /\ Head(channel).part # Failure
          /\ channel' = Tail(channel)
          /\ FailFetching(Head(channel).article, "fetch")
          /\ UNCHANGED ingest
       \/ /\ ingest # IdleIngest
          /\ ingest' = IdleIngest
          /\ FailFetching(ingest.article, "fetch")
          /\ UNCHANGED channel
    /\ UNCHANGED <<row, agent, sub>>

-----------------------------------------------------------------------------
(* Review, people and restarts.                                            *)

\* The review of the patchset ends (PatchsetReview).
Review(a) ==
    /\ ps[a].status = "Pending"
    /\ \/ SetStatus(a, "Reviewed")
       \/ Fail(a, "review")
    /\ UNCHANGED <<row, agent, channel, ingest, sub, faults>>

\* cancel_patchset, with force, and cancel_outbox_for_patchset.
Cancel(a) ==
    /\ ps[a].status \in {"Fetching", "Incomplete", "Pending"}
    /\ SetStatus(a, "Cancelled")
    /\ IF Live(a) THEN SetRow(a, "Cancelled") ELSE UNCHANGED row
    /\ UNCHANGED <<agent, channel, ingest, sub, faults>>

\* rerun_patchset.
Rerun(a) ==
    /\ ps[a].status # "none"
    /\ ps' = [ps EXCEPT ![a].status = "Pending", ![a].why = "none"]
    /\ UNCHANGED <<row, agent, channel, ingest, sub, faults>>

\* fail_interrupted_fetching_patchsets on one row and on one patchset.
Resumed(a) ==
    IF \/ row[a].status = "Fetching"
       \/ row[a].status = "Done" /\ ps[a].status \in {"Fetching", "Incomplete"}
    THEN [row[a] EXCEPT !.status = "Pending"]
    ELSE row[a]
Interrupted(a) ==
    IF ps[a].status = "Fetching" /\ Resumed(a).status # "Pending"
    THEN [ps[a] EXCEPT !.status = "Failed", !.why = "interrupted"]
    ELSE ps[a]

\* The daemon dies, with all that is in its memory, and starts again.
Restart ==
    /\ Fault
    /\ row' = [a \in Articles |-> Resumed(a)]
    /\ ps' = [a \in Articles |-> Interrupted(a)]
    /\ agent' = IdleAgent
    /\ channel' = <<>>
    /\ ingest' = IdleIngest
    /\ sub' = [s \in Submitters |-> IdleSub]

-----------------------------------------------------------------------------
Submit(s) == Create(s) \/ CheckStatus(s) \/ Enqueue(s)
Works == Fetched \/ FetchFails \/ FailsForGood \/ SendFailure \/ MarkDone \/ SendPart
Ingests == IngestFailure \/ Adopt \/ Store

Next ==
    \/ \E s \in Hooks, a \in Articles : Receive(s, a)
    \/ \E s \in Submitters : Submit(s) \/ SubmitFails(s) \/ Abandon(s)
    \/ \E a \in Articles : \/ Poll(a) \/ Lock(a) \/ Sweep(a) \/ BackoffEnds(a)
                           \/ Review(a) \/ Cancel(a) \/ Rerun(a)
    \/ LockNone \/ Works \/ Panic
    \/ Ingests \/ IngestFails
    \/ Restart

Spec == Init /\ [][Next]_vars

(* The agent ticks every five seconds and takes the row that was created   *)
(* first; the poller sees every open pull request; handlers, the agent and *)
(* the ingestion loop go on when they can.  Nothing obliges a review to    *)
(* end, a client to call or a fault to happen.                             *)
FairSpec ==
    /\ Spec
    /\ \A s \in Submitters : WF_vars(Submit(s))
    /\ \A a \in Articles : /\ WF_vars(Poll(a))
                           /\ SF_vars(Lock(a))
                           /\ WF_vars(Sweep(a))
                           /\ WF_vars(BackoffEnds(a))
    /\ WF_vars(Works)
    /\ WF_vars(Ingests)
-----------------------------------------------------------------------------
TypeOK ==
    /\ ps \in [Articles -> Patchset]
    /\ row \in [Articles -> Row]
    /\ agent \in {IdleAgent} \union Agent
    /\ channel \in Seq(Event)
    /\ ingest \in {IdleIngest} \union Storing
    /\ sub \in [Submitters -> {IdleSub} \union Submission]
    /\ faults \in 0..MaxFaults

\* A part of the article is about to be sent, or was sent and not yet read.
OnItsWay(a) ==
    \/ agent.stage = "sending" /\ agent.article = a
    \/ \E i \in DOMAIN channel : channel[i].article = a /\ channel[i].part # Failure

(* A row that is Done while its patchset still is a placeholder: the parts *)
(* are on their way.  has_forge_pr_head_ingested relies on it when it      *)
(* tells the poller that such a pull request needs no other fetch, though  *)
(* the row is marked before anything is sent, the channel is lost in a     *)
(* crash, and failures, cancellations and later submissions come between.  *)
DoneBacksFetching ==
    \A a \in Articles :
        ps[a].status = "Fetching" /\ row[a].status = "Done" => OnItsWay(a)

(* The agent counts retries from the copy of the row it made when it       *)
(* claimed it.  Whatever is submitted, cancelled and swept meanwhile, the  *)
(* copy agrees with the row for as long as the claim is good, and no row   *)
(* is tried more than max_retries times.                                   *)
RetriesAgree ==
    \A a \in Articles :
        /\ row[a].retry < MaxRetries \/ row[a].retry = 0
        /\ agent.stage \in {"fetching", "extracting"} /\ agent.article = a
              /\ row[a].status = "Fetching"
           => agent.retry = row[a].retry

\* A row, and a submission that has begun, have a patchset.
PlaceholderFirst ==
    /\ \A a \in Articles : row[a].status # "none" => ps[a].status # "none"
    /\ \A s \in Submitters : sub[s].stage \in {"created", "enqueuing"} =>
                                ps[sub[s].article].status # "none"

\* Create deletes the row of a patchset that is there, and of no other.
IInv == TypeOK /\ PlaceholderFirst /\ DoneBacksFetching /\ RetriesAgree

\* A patchset that is handed over, that failed with all its parts, or that
\* was cancelled.
Decided(a) ==
    \/ ps[a].status \in {"Pending", "Reviewed", "Cancelled"}
    \/ ps[a].status = "Failed" /\ Complete(a)

(* What is decided changes only by a submission, a person or the review:   *)
(* never by an event of an old fetch that is read late, by a fetch that    *)
(* fails late, or by a restart.                                            *)
DecidedStays ==
    [][\A a \in Articles :
          Decided(a) /\ ps'[a].status # ps[a].status =>
              \/ Cancel(a) \/ Rerun(a) \/ Review(a)
              \/ \E s \in Submitters : Create(s) /\ sub[s].article = a]_vars

\* A pull request that nobody has seen, whose fetch goes on, or was broken off.
Missed(a) ==
    \/ ps[a].status \in {"none", "Fetching"}
    \/ ps[a].status = "Failed" /\ ps[a].why = "interrupted"


-----------------------------------------------------------------------------
(* What the patchsets look like to the rest of the daemon.                 *)

StatusOf == [a \in Articles |-> ps[a].status]

Life == INSTANCE PatchsetLife WITH Patchsets <- Articles, status <- StatusOf

(* Submissions, fetches, their failures, parts that are read late, people  *)
(* and restarts, in whatever order, move the status of a patchset only as  *)
(* the review expects them to: nothing but a person takes a patchset from  *)
(* it that is handed over, and what came to nothing starts with a          *)
(* submission or with a part.                                              *)
MovesAsAgreed == Life!Spec
=============================================================================
