---------------------------- MODULE ExclusiveJob ----------------------------
(***************************************************************************)
(* What the lease columns of a bug promise (DESIGN_BUG_ANALYSIS_LEASE_     *)
(* OWNERSHIP.md): jobs, each worked on by at most one attempt at a time    *)
(* and by at most MaxTries attempts in all, that only the attempt holding  *)
(* one can finish, and that are never reopened once they are done.  How a  *)
(* holder loses a job (a failure, an expiry, a crash) is left open, and    *)
(* several jobs may take a step at once.                                   *)
(***************************************************************************)
EXTENDS Naturals

CONSTANTS Jobs, MaxTries

VARIABLES
    stage,    \* stage[j]: what is still owed on job j
    holder,   \* holder[j]: the attempt that holds it, 0 for none
    tries     \* tries[j]: how many attempts have taken it

jobVars == <<stage, holder, tries>>

Init ==
    /\ stage = [j \in Jobs |-> "none"]
    /\ holder = [j \in Jobs |-> 0]
    /\ tries = [j \in Jobs |-> 0]

(* Job j goes to stage s, held by h after t attempts.                      *)
Becomes(j, s, h, t) == stage'[j] = s /\ holder'[j] = h /\ tries'[j] = t

Submit(j) == stage[j] = "none" /\ Becomes(j, "queued", holder[j], tries[j])

(* A fresh attempt takes the job: from the queue, or as it is submitted.   *)
Take(j) ==
    /\ stage[j] \in {"none", "queued"}
    /\ tries[j] < MaxTries
    /\ Becomes(j, "working", tries[j] + 1, tries[j] + 1)

(* The holder fails or lets its hold expire: the job is queued again.      *)
GiveBack(j) == stage[j] = "working" /\ Becomes(j, "queued", 0, tries[j])

(* The holder finishes the job; it keeps its hold for what follows.        *)
Finish(j) ==
    /\ stage[j] = "working" /\ holder[j] # 0
    /\ Becomes(j, "done", holder[j], tries[j])

Leave(j) == stage[j] = "done" /\ Becomes(j, "done", 0, tries[j])

(* The last attempt failed.                                                *)
Abandon(j) ==
    /\ stage[j] = "queued" /\ tries[j] = MaxTries
    /\ Becomes(j, "dead", 0, tries[j])

(* A maintainer settles the job over everybody's head.                     *)
Overrule(j) == stage[j] # "none" /\ Becomes(j, "done", 0, tries[j])

Rest(j) == Becomes(j, stage[j], holder[j], tries[j])

Step(j) ==
    \/ Submit(j) \/ Take(j) \/ GiveBack(j) \/ Finish(j) \/ Leave(j)
    \/ Abandon(j) \/ Overrule(j) \/ Rest(j)

Next == \A j \in Jobs : Step(j)

Spec == Init /\ [][Next]_jobVars
=============================================================================
