---------------------------- MODULE PreviewRegistry ----------------------------
(***************************************************************************)
(* What the rest of the platform may assume of the registry of previews:   *)
(* a job brings its preview up at most once, the registry hears of it once *)
(* and only as the bringing up ends, and a preview that is no longer       *)
(* active never is again.  JobQueue, which counts the active ones, and     *)
(* PreviewLifecycle, which brings them up, both implement this module.     *)
(***************************************************************************)
CONSTANT Jobs

VARIABLES
    stage,      \* of a job: before, during or after the bringing up
    row         \* job_previews.status

vars == <<stage, row>>

Init ==
    /\ stage = [j \in Jobs |-> "before"]
    /\ row   = [j \in Jobs |-> "none"]

Begin(j) ==
    /\ stage[j] = "before"
    /\ stage' = [stage EXCEPT ![j] = "during"]
    /\ UNCHANGED row

Record(j) ==
    /\ stage[j] = "during"
    /\ stage' = [stage EXCEPT ![j] = "after"]
    /\ \E result \in {"active", "failed"} : row' = [row EXCEPT ![j] = result]

(* Jobs that never bring anything up, or do so unheard: a process that     *)
(* dies takes all of its jobs with it.                                     *)
Abandon(some) ==
    /\ stage' = [j \in Jobs |-> IF j \in some THEN "after" ELSE stage[j]]
    /\ UNCHANGED row

TearDown(j) ==
    /\ row[j] = "active"
    /\ row' = [row EXCEPT ![j] = "torn_down"]
    /\ UNCHANGED stage

Next ==
    \/ \E j \in Jobs : Begin(j) \/ Record(j) \/ TearDown(j)
    \/ \E some \in SUBSET Jobs : Abandon(some)

Spec == Init /\ [][Next]_vars
=============================================================================
