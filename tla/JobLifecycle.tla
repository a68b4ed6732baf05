---------------------------- MODULE JobLifecycle ----------------------------
(***************************************************************************)
(* What the job queue promises to the rest of the platform, with nothing   *)
(* said about how: a job row is created, taken by at most one worker once, *)
(* executed by nobody but that worker, and left in one final status that   *)
(* is never rewritten.  JobQueue is shown to implement this module.        *)
(***************************************************************************)
CONSTANTS
    Jobs,       \* rows of the API's jobs table
    Workers,    \* the orchestrator replicas
    NoWorker    \* locked_by is NULL

VARIABLES
    status,     \* jobs.status
    owner,      \* jobs.locked_by
    executing   \* the workers executing each job right now

vars == <<status, owner, executing>>

Open     == {"absent", "pending"}
Terminal == {"completed", "failed", "cancelled"}
Status   == Open \cup {"running"} \cup Terminal

Init ==
    /\ status    = [j \in Jobs |-> "absent"]
    /\ owner     = [j \in Jobs |-> NoWorker]
    /\ executing = [j \in Jobs |-> {}]

Create(j) ==
    /\ status[j] = "absent"
    /\ status' = [status EXCEPT ![j] = "pending"]
    /\ UNCHANGED <<owner, executing>>

Cancel(j) ==
    /\ status[j] \in {"pending", "running"}
    /\ status' = [status EXCEPT ![j] = "cancelled"]
    /\ UNCHANGED <<owner, executing>>

(* A claim whose answer is lost takes the job but never executes it.       *)
Claim(j, w) ==
    /\ status[j] = "pending"
    /\ status' = [status EXCEPT ![j] = "running"]
    /\ owner' = [owner EXCEPT ![j] = w]
    /\ \E started \in SUBSET {w} : executing' = [executing EXCEPT ![j] = started]

(* The outcome counts only if nobody closed the row first; an outcome that *)
(* could not be written leaves the row as it was.                          *)
Finish(j, w) ==
    /\ w \in executing[j]
    /\ executing' = [executing EXCEPT ![j] = @ \ {w}]
    /\ \/ UNCHANGED status
       \/ /\ status[j] = "running"
          /\ \E final \in {"completed", "failed"} :
                status' = [status EXCEPT ![j] = final]
    /\ UNCHANGED owner

Die(w) ==
    /\ executing' = [j \in Jobs |-> executing[j] \ {w}]
    /\ UNCHANGED <<status, owner>>

Next ==
    \/ \E j \in Jobs : Create(j) \/ Cancel(j)
    \/ \E j \in Jobs, w \in Workers : Claim(j, w) \/ Finish(j, w)
    \/ \E w \in Workers : Die(w)

Spec == Init /\ [][Next]_vars
=============================================================================
