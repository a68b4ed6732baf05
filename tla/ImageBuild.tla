------------------------------ MODULE ImageBuild ------------------------------
(***************************************************************************)
(* The image a preview runs (imagebuild/imagebuild.go, imagebuild/build.go *)
(* and worker/previewimage.go): a Kubernetes Job with a deterministic name *)
(* builds and pushes it, and the job that wants it polls the pods that     *)
(* carry the Job's name.  Whatever goes wrong, the preview falls back to   *)
(* the image its chart declares.                                           *)
(***************************************************************************)
EXTENDS Naturals, JobBody

CONSTANTS
    Namings,        \* how the jobs' build Jobs may be named: a set of functions.
                    \* Names are cut at 63 characters, so two jobs may share one.
    NoJob

VARIABLES
    buildJobName,   \* the name of each job's build Job
    owner,      \* the build Job that holds each name
    pod,        \* the pod of each build Job
    pushed,     \* the jobs whose image is in the registry
    image       \* what each preview runs

buildVars == <<buildJobName, owner, pod, pushed, image>>

Names    == UNION {{naming[j] : j \in Jobs} : naming \in Namings}
Skipped  == "skipped"
Finished == {"built", Skipped, "broken"}

BuildTypeOK ==
    /\ buildJobName \in Namings
    /\ owner \in [Names -> Jobs \cup {NoJob}]
    /\ pod \in [Jobs -> {"none", "running", "rejected", "gone"} \cup Finished]
    /\ pushed \subseteq Jobs
    /\ image \in [Jobs -> {"none", "chart", "built"}]

BuildInit ==
    /\ buildJobName \in Namings
    /\ owner = [n \in Names |-> NoJob]
    /\ pod = [j \in Jobs |-> "none"]
    /\ pushed = {}
    /\ image = [j \in Jobs |-> "none"]

HoldsName(j) == owner[buildJobName[j]]

(* deleteJob: the Job is gone at once, its pods are collected later.       *)
DeleteBuildJob(j) == owner' = [owner EXCEPT ![buildJobName[j]] = NoJob]

Settle(j, from, which) ==
    /\ Go(j, from, "done")
    /\ image' = [image EXCEPT ![j] = which]

-----------------------------------------------------------------------------
(* No registry, no repository, or the job's spec cannot be fetched.        *)
NothingToBuild(j) ==
    /\ kind[j] = "preview"
    /\ MayFail("api")
    /\ Settle(j, "chart", "chart")
    /\ UNCHANGED <<buildJobName, owner, pod, pushed>>

(* A Job left over under this name is removed first.                       *)
ClearName(j) ==
    /\ Works
    /\ kind[j] = "preview"
    /\ Go(j, "chart", "create")
    /\ DeleteBuildJob(j)
    /\ UNCHANGED <<buildJobName, pod, pushed, image>>

CreateBuildJob(j) ==
    /\ Works
    /\ IF HoldsName(j) = NoJob
       THEN /\ Go(j, "create", "await")
            /\ owner' = [owner EXCEPT ![buildJobName[j]] = j]
            /\ UNCHANGED image
       ELSE Settle(j, "create", "chart") /\ UNCHANGED owner
    /\ UNCHANGED <<buildJobName, pod, pushed>>

Labelled(j) == {k \in Jobs : buildJobName[k] = buildJobName[j] /\ pod[k] \notin {"none", "gone"}}

(* Mutant: any pod that ended in an orderly way counts as a build.         *)
ImageOfAnyEnd(outcome) == IF outcome \in {"built", Skipped} THEN "built" ELSE "chart"

(* Exit codes 42 and 43, and any failure: the chart's image.               *)
ImageOf(outcome) == IF outcome = "built" THEN "built" ELSE "chart"

AwaitResult(j) ==
    /\ \E k \in Labelled(j) :
          /\ pod[k] \in Finished
          /\ Settle(j, "await", ImageOf(pod[k]))
    /\ UNCHANGED <<buildJobName, owner, pod, pushed>>

(* The Job was rejected, so there is no pod to look at.                    *)
BuildRejected(j) ==
    /\ \A k \in Labelled(j) : pod[k] \notin Finished
    /\ HoldsName(j) # NoJob /\ pod[HoldsName(j)] = "rejected"
    /\ Settle(j, "await", "chart")
    /\ UNCHANGED <<buildJobName, owner, pod, pushed>>

(* The build's own deadline passes, or the process stops: the Job is       *)
(* removed under a context of its own.                                     *)
BuildTimesOut(j) ==
    /\ Settle(j, "await", "chart")
    /\ DeleteBuildJob(j)
    /\ UNCHANGED <<buildJobName, pod, pushed>>

BuildFailsEarly(j) ==
    /\ MayFail("k8s")
    /\ \E step \in {"chart", "create", "await"} :
          kind[j] = "preview" /\ Settle(j, step, "chart")
    /\ UNCHANGED <<buildJobName, owner, pod, pushed>>

BuildImage(j) ==
    \/ NothingToBuild(j) \/ ClearName(j) \/ CreateBuildJob(j)
    \/ AwaitResult(j) \/ BuildRejected(j) \/ BuildTimesOut(j) \/ BuildFailsEarly(j)

-----------------------------------------------------------------------------
(* Kubernetes runs the Job's pod, which clones, checks and pushes, and     *)
(* collects the pods of a Job that is gone.                                *)

BuildPodStarts(j) ==
    /\ HoldsName(j) = j /\ pod[j] = "none"
    /\ \E status \in {"running", "rejected"} : pod' = [pod EXCEPT ![j] = status]
    /\ UNCHANGED <<at, buildJobName, owner, pushed, image>>

BuildPodEnds(j) ==
    /\ pod[j] = "running"
    /\ \E status \in Finished :
          /\ pod' = [pod EXCEPT ![j] = status]
          /\ pushed' = IF status = "built" THEN pushed \cup {j} ELSE pushed
    /\ UNCHANGED <<at, buildJobName, owner, image>>

CollectBuildPod(j) ==
    /\ HoldsName(j) # j /\ pod[j] \notin {"none", "gone"}
    /\ pod' = [pod EXCEPT ![j] = "gone"]
    /\ UNCHANGED <<at, buildJobName, owner, pushed, image>>

BuildCluster(j) == BuildPodStarts(j) \/ BuildPodEnds(j) \/ CollectBuildPod(j)

-----------------------------------------------------------------------------
(* A preview is given a built image only if a build whose Job has the name *)
(* of its own pushed one, never one that was skipped, failed or timed out  *)
(* (build.go: a skip is not an invented image reference).  Where names are *)
(* distinct that is its own build; where they were cut to the same one, it *)
(* may be the build of another job, with its own reference in hand.        *)
BuiltImageExists ==
    \A j \in Jobs :
        image[j] = "built" => \E k \in pushed : buildJobName[k] = buildJobName[j]
=============================================================================
