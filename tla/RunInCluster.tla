----------------------------- MODULE RunInCluster -----------------------------
(***************************************************************************)
(* The body of the claimed jobs of one project in one replica              *)
(* (runClaimedJob and runInCluster of worker/worker.go): the parts above,  *)
(* composed.  Jobs run concurrently and meet in the cluster cache, in the  *)
(* objects of their namespace, in the primary release, and in the names of *)
(* their build Jobs.  The agent session of a preview job is left to        *)
(* AgentSession, and what becomes of the preview to PreviewLifecycle.      *)
(***************************************************************************)
EXTENDS Naturals, Sequences, JobBody

CONSTANTS
    Project, Versions, Broken, TTL, FetchBound, NoEntry,  \* ClusterCache
    Settings, NoObject,                                             \* ProjectObjects
    TargetRevision, Attempts, MaxLost, NoReport,                    \* PrimaryRelease
    Namings, NoJob                                                  \* ImageBuild

VARIABLES
    stored, replaced, entry, mapped, fetch,
    limits, secret, ingress, want, seen, current,
    release, produced, result, tries, lost, ledger,
    buildJobName, owner, pod, pushed, image

Cache    == INSTANCE ClusterCache
Objects  == INSTANCE ProjectObjects
Primary  == INSTANCE PrimaryRelease
Images   == INSTANCE ImageBuild

ASSUME RunInClusterAssumption ==
    /\ Cache!ClusterCacheAssumption
    /\ Objects!ProjectObjectsAssumption
    /\ Primary!PrimaryReleaseAssumption

cacheVars   == <<stored, replaced, entry, mapped, fetch>>
objectVars  == <<limits, secret, ingress, want, seen, current>>
releaseVars == <<release, produced, result, tries, lost, ledger>>
buildVars   == <<buildJobName, owner, pod, pushed, image>>
vars == <<at, stopped, kind, cacheVars, objectVars, releaseVars, buildVars>>

Steps == {"queued", "fetch", "build", "gate", "quota", "namespace", "createQuota",
          "updateQuota", "secrets", "putSecret", "chart", "install", "upgrade",
          "wait", "rollback", "readBack", "report", "expose", "putIngress",
          "create", "await"} \cup Ends

(* Every variable keeps its type.                                          *)
TypeOK ==
    /\ at \in [Jobs -> Steps] /\ stopped \in BOOLEAN /\ kind \in [Jobs -> Kinds]
    /\ Cache!CacheTypeOK /\ Objects!ObjectsTypeOK
    /\ Primary!ReleaseTypeOK /\ Images!BuildTypeOK

Init ==
    /\ at = [j \in Jobs |-> "queued"] /\ stopped = FALSE
    /\ kind \in [Jobs -> Kinds]
    /\ Cache!CacheInit /\ Objects!ObjectsInit /\ Primary!ReleaseInit /\ Images!BuildInit

-----------------------------------------------------------------------------
Resolve(j) == Cache!Resolve(j) /\ UNCHANGED <<objectVars, releaseVars, buildVars>>

(* The token cap is asked for once, and an API that does not answer allows *)
(* the job; only an agent's job, the one that has a preview, is refused.   *)
Gate(j) ==
    /\ \/ Go(j, "gate", "quota")
       \/ kind[j] = "preview" /\ Works /\ Go(j, "gate", "failed")
    /\ UNCHANGED <<cacheVars, objectVars, releaseVars, buildVars>>

Provision(j) == Objects!Provision(j) /\ UNCHANGED <<cacheVars, releaseVars, buildVars>>

Roll(j) == Primary!Roll(j) /\ UNCHANGED <<cacheVars, objectVars, buildVars>>

BuildImage(j) == Images!BuildImage(j) /\ UNCHANGED <<cacheVars, objectVars, releaseVars>>

RunJob(j) ==
    /\ Resolve(j) \/ Gate(j) \/ Provision(j) \/ Roll(j) \/ BuildImage(j)
    /\ UNCHANGED <<stopped, kind>>

-----------------------------------------------------------------------------
Shutdown ==
    /\ "stop" \in Faults
    /\ ~stopped /\ Underway # {}
    /\ stopped' = TRUE
    /\ UNCHANGED <<at, kind, cacheVars, objectVars, releaseVars, buildVars>>

(* The process exits, with or without a warning, and comes back with an    *)
(* empty cache to the jobs it has not claimed yet.  What is going on in    *)
(* the cluster goes on: a pending revision stays pending.                  *)
Exit ==
    /\ "stop" \in Faults
    /\ Underway # {}
    /\ at' = [j \in Jobs |-> IF j \in Underway THEN "killed" ELSE at[j]]
    /\ stopped' = FALSE
    /\ Cache!ForgetCache /\ Objects!ForgetReads
    /\ UNCHANGED <<kind, stored, replaced, limits, secret, ingress, releaseVars, buildVars>>

Environment ==
    /\ \/ (Cache!StoreKubeconfig \/ Cache!Tick) /\ UNCHANGED <<objectVars, releaseVars, buildVars>>
       \/ Objects!AddForeignLimit /\ UNCHANGED <<cacheVars, releaseVars, buildVars>>
       \/ (\E j \in Jobs : Images!BuildCluster(j))
          /\ UNCHANGED <<cacheVars, objectVars, releaseVars>>
    /\ UNCHANGED <<stopped, kind>>

Next == (\E j \in Jobs : RunJob(j)) \/ Environment \/ Shutdown \/ Exit

Spec == Init /\ [][Next]_vars

(* However deploys and rollbacks of all jobs meet in Helm, and whichever   *)
(* of them a shutdown leaves pending, the release keeps the promises of    *)
(* ReleaseHistory: a job that waits for its revision waits for the last    *)
(* one, and nothing that happens to it later changes whether it went live  *)
(* (deploy.go).                                                            *)
History == INSTANCE ReleaseHistory WITH history <- release

ImplementsHistory == History!Spec

ClusterIsRecent      == Cache!ClusterIsRecent
ForeignLimitsKept    == Objects!ForeignLimitsKept
DeployLedgerIsTrue   == Primary!DeployLedgerIsTrue
RollbackLedgerIsTrue == Primary!RollbackLedgerIsTrue
LiveIsRecorded       == Primary!LiveIsRecorded
BuiltImageExists     == Images!BuiltImageExists
=============================================================================
