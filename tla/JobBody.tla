------------------------------- MODULE JobBody -------------------------------
(***************************************************************************)
(* What the parts of a claimed job's body share: where runInCluster is in  *)
(* each job, and whether the process's context has been cancelled.  Every  *)
(* call the body makes, to the API or to Kubernetes, takes that context.   *)
(***************************************************************************)
CONSTANTS
    Jobs,       \* jobs of one organization
    Faults      \* which kinds of calls may fail

VARIABLES
    at,         \* where the goroutine of each job is
    stopped,    \* the process is shutting down: its context is cancelled
    kind        \* jobs.kind: "deploy", "rollback" or "preview", one with a preview

Go(j, from, to) ==
    /\ at[j] = from
    /\ at' = [at EXCEPT ![j] = to]

Works == ~stopped

Kinds == {"deploy", "rollback", "preview"}

MayFail(call) == call \in Faults \/ stopped

(* What the body of a job begins with once its namespace is there.         *)
Body(j) == IF kind[j] = "rollback" THEN "rollback" ELSE "secrets"

Ends == {"done", "failed", "killed"}

Underway == {j \in Jobs : at[j] \notin Ends \cup {"queued"}}
=============================================================================
