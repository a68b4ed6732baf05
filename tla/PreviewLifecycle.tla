--------------------------- MODULE PreviewLifecycle ---------------------------
(***************************************************************************)
(* The ephemeral preview deployments (worker/preview.go,                   *)
(* preview/preview.go, worker/specgrill.go createTestPreview): a Helm      *)
(* release and an Ingress per job in the project's cluster, and a row per  *)
(* job in the API's registry.  The job's goroutine brings the preview up   *)
(* and takes it down; the sweep takes down whatever the registry lists as  *)
(* stale, also while the job is still running.  One job's preview never     *)
(* touches another's: only the sweep's work list spans jobs.               *)
(***************************************************************************)
EXTENDS Naturals

CONSTANTS
    Jobs,       \* jobs of a kind that gets a preview
    TestRuns,   \* those that are test runs
    Faults      \* which faults the environment may inject

ASSUME PreviewAssumption ==
    /\ TestRuns \subseteq Jobs
    /\ Faults \subseteq {"bringup", "register", "teardown", "crash", "replace"}

VARIABLES
    pc,         \* where the goroutine of a job is
    held,       \* jobs whose goroutine has a handle on its preview
    release,    \* jobs whose preview release exists
    ingress,    \* jobs whose preview Ingress exists
    row,        \* job_previews.status
    cancelled,  \* jobs whose row the API closed
    old,        \* previews past PREVIEW_TTL
    missed,     \* previews left in a cluster in which a sweep did not look for them
    work,       \* what is left of the sweep's work list
    sweeping    \* the preview the sweep removed and has yet to report

cluster == <<release, ingress>>
sweep   == <<work, sweeping>>
vars    == <<pc, held, cluster, row, cancelled, old, missed, sweep>>

Over == {"done", "crashed"}
Body == {"body", "testExpose", "session", "stop", "report"}

(* Every variable keeps its type, and a handle is held only between the    *)
(* registration of a preview and the end of its deferred stop.             *)
TypeOK ==
    /\ pc \in [Jobs -> {"new", "deploy", "expose", "register", "refuse", "refused", "record"}
                       \cup Body \cup Over]
    /\ held \subseteq {j \in Jobs : pc[j] \in Body}
    /\ release \subseteq Jobs /\ ingress \subseteq Jobs
    /\ row \in [Jobs -> {"none", "active", "failed", "torn_down"}]
    /\ cancelled \subseteq Jobs /\ old \subseteq Jobs
    /\ missed \subseteq Jobs
    /\ work \subseteq Jobs /\ sweeping \subseteq Jobs

Init ==
    /\ pc = [j \in Jobs |-> "new"]
    /\ held = {}
    /\ release = {} /\ ingress = {}
    /\ row = [j \in Jobs |-> "none"]
    /\ cancelled = {} /\ old = {}
    /\ missed = {}
    /\ work = {} /\ sweeping = {}

Go(j, from, to) == pc[j] = from /\ pc' = [pc EXCEPT ![j] = to]

Mark(j, state) == row' = [row EXCEPT ![j] = state]

-----------------------------------------------------------------------------
(* startJobPreview and ensureJobPreview.                                   *)

Claim(j) ==
    /\ Go(j, "new", "deploy")
    /\ UNCHANGED <<held, cluster, row, cancelled, old, missed, sweep>>

(* Metadata, secrets and chart come first; an install that fails may leave *)
(* a release behind.                                                       *)
Deploy(j) ==
    /\ \/ Go(j, "deploy", "expose") /\ release' = release \cup {j}
       \/ /\ "bringup" \in Faults
          /\ Go(j, "deploy", "record")
          /\ release' \in {release, release \cup {j}}
    /\ UNCHANGED <<held, ingress, row, cancelled, old, missed, sweep>>

Expose(j) ==
    /\ \/ Go(j, "expose", "register") /\ ingress' = ingress \cup {j}
       \/ "bringup" \in Faults /\ Go(j, "expose", "record") /\ UNCHANGED ingress
    /\ UNCHANGED <<held, release, row, cancelled, old, missed, sweep>>

(* The preview is recorded as failed, as far as that is possible, and the  *)
(* job goes on without it: nothing brought up so far is removed.           *)
RecordFailure(j) ==
    /\ Go(j, "record", "body")
    /\ UNCHANGED row \/ Mark(j, "failed")
    /\ UNCHANGED <<held, cluster, cancelled, old, missed, sweep>>

(* A registration that failed may have reached the registry all the same.  *)
Register(j) ==
    /\ \/ Go(j, "register", "body") /\ Mark(j, "active") /\ held' = held \cup {j}
       \/ /\ "register" \in Faults
          /\ Go(j, "register", "refuse")
          /\ UNCHANGED row \/ Mark(j, "active")
          /\ UNCHANGED held
    /\ UNCHANGED <<cluster, cancelled, old, missed, sweep>>

-----------------------------------------------------------------------------
(* Taking a preview down.                                                  *)

(* Teardown: what is gone already is no error.                             *)
Teardown(j) ==
    /\ release' = release \ {j}
    /\ ingress' = ingress \ {j}
    /\ missed' = missed \ {j}

(* The second step is tried even if the first one failed.                  *)
TeardownFails(j) ==
    /\ "teardown" \in Faults
    /\ release' \in {release, release \ {j}}
    /\ ingress' \in {ingress, ingress \ {j}}
    /\ UNCHANGED missed

(* Mutant: the report closes a row whatever its status.                    *)
CloseAnyRow(j) == row' = [row EXCEPT ![j] = "torn_down"]

(* ReportPreviewTeardown, which closes nothing but an active row.          *)
CloseRow(j) == row' = [row EXCEPT ![j] = IF @ = "active" THEN "torn_down" ELSE @]

Report(j) == CloseRow(j) \/ ("teardown" \in Faults /\ UNCHANGED row)

(* stop, called at once for a preview that could not be registered ...     *)
StopRefused(j) ==
    /\ \/ Go(j, "refuse", "refused") /\ Teardown(j)
       \/ Go(j, "refuse", "body") /\ TeardownFails(j)
    /\ UNCHANGED <<held, row, cancelled, old, sweep>>

ReportRefused(j) ==
    /\ Go(j, "refused", "body")
    /\ Report(j)
    /\ UNCHANGED <<held, cluster, cancelled, old, missed, sweep>>

(* Mutant: a failed teardown frees the row all the same.                   *)
StopForgets(j) ==
    /\ \/ Go(j, "stop", "report") /\ j \in held /\ (Teardown(j) \/ TeardownFails(j)) /\ UNCHANGED held
       \/ Go(j, "stop", "done") /\ j \notin held /\ UNCHANGED <<held, cluster, missed>>
    /\ UNCHANGED <<row, cancelled, old, sweep>>

(* ... and on the way out of the job, where it does nothing without a      *)
(* handle.                                                                 *)
Stop(j) ==
    /\ \/ Go(j, "stop", "report") /\ j \in held /\ Teardown(j) /\ UNCHANGED held
       \/ Go(j, "stop", "done") /\ j \in held /\ TeardownFails(j) /\ held' = held \ {j}
       \/ Go(j, "stop", "done") /\ j \notin held /\ UNCHANGED <<held, cluster, missed>>
    /\ UNCHANGED <<row, cancelled, old, sweep>>

ReportStop(j) ==
    /\ Go(j, "report", "done")
    /\ Report(j)
    /\ held' = held \ {j}
    /\ UNCHANGED <<cluster, cancelled, old, missed, sweep>>

-----------------------------------------------------------------------------
(* The body of the job.                                                    *)

BeginSession(j) ==
    /\ j \notin TestRuns
    /\ Go(j, "body", "session")
    /\ UNCHANGED <<held, cluster, row, cancelled, old, missed, sweep>>

EndSession(j) ==
    /\ Go(j, "session", "stop")
    /\ UNCHANGED <<held, cluster, row, cancelled, old, missed, sweep>>

(* createTestPreview deploys the job's release once more ...               *)
TestDeploy(j) ==
    /\ j \in TestRuns
    /\ \/ Go(j, "body", "testExpose") /\ release' = release \cup {j}
       \/ /\ "bringup" \in Faults
          /\ Go(j, "body", "stop")
          /\ release' \in {release, release \cup {j}}
    /\ UNCHANGED <<held, ingress, row, cancelled, old, missed, sweep>>

(* ... and creates the Ingress with its name and namespace exchanged, in a *)
(* namespace that does not exist.  The release is uninstalled, as far as   *)
(* that works, and the job has failed.                                     *)
TestExpose(j) ==
    /\ Go(j, "testExpose", "stop")
    /\ release' = release \ {j} \/ ("teardown" \in Faults /\ UNCHANGED release)
    /\ UNCHANGED <<held, ingress, row, cancelled, old, missed, sweep>>

-----------------------------------------------------------------------------
(* The sweep, of this replica or another one.                              *)

(* Mutant: every active row is listed.                                     *)
StaleAlways(j) == row[j] = "active"

(* Mutant: the list has no TTL.                                            *)
StaleWithoutTTL(j) == row[j] = "active" /\ (pc[j] = "done" \/ j \in cancelled)

(* The API lists an active row when its job is over or its TTL has passed. *)
Stale(j) == row[j] = "active" /\ (pc[j] = "done" \/ j \in cancelled \/ j \in old)

SweepFetches ==
    /\ work = {} /\ sweeping = {}
    /\ work' = {j \in Jobs : Stale(j)}
    /\ UNCHANGED <<pc, held, cluster, row, cancelled, old, missed, sweeping>>

(* The sweep resolves the cluster the organization has now.  If somebody   *)
(* replaced it since the job resolved its own, there is nothing there to   *)
(* remove, which is no error.                                              *)
SweepMisses(j) ==
    /\ "replace" \in Faults
    /\ j \in release \cup ingress
    /\ missed' = missed \cup {j}
    /\ UNCHANGED cluster

SweepRemoves(j) ==
    /\ j \in work /\ sweeping = {}
    /\ work' = work \ {j}
    /\ SweepMisses(j) \/ Teardown(j)
    /\ sweeping' = {j}
    /\ UNCHANGED <<pc, held, row, cancelled, old>>

(* One preview that cannot be removed does not stop the pass.              *)
SweepFails(j) ==
    /\ j \in work /\ sweeping = {}
    /\ work' = work \ {j}
    /\ TeardownFails(j)
    /\ UNCHANGED <<pc, held, row, cancelled, old, sweeping>>

SweepReports(j) ==
    /\ j \in sweeping
    /\ sweeping' = {}
    /\ CloseRow(j)
    /\ UNCHANGED <<pc, held, cluster, cancelled, old, missed, work>>

SweepIsNotHeard(j) ==
    /\ "teardown" \in Faults
    /\ j \in sweeping
    /\ sweeping' = {}
    /\ UNCHANGED <<pc, held, cluster, row, cancelled, old, missed, work>>

-----------------------------------------------------------------------------
(* People, time and crashes.  A job that is cancelled or a preview that is  *)
(* past its TTL counts as stale: which of the two came first is all that   *)
(* matters here.                                                           *)

Cancel(j) ==
    /\ pc[j] \notin {"new", "done"} /\ j \notin cancelled \cup old
    /\ cancelled' = cancelled \cup {j}
    /\ UNCHANGED <<pc, held, cluster, row, old, missed, sweep>>

(* The TTL is hours: it passes while a session waits for a person, or once *)
(* nobody works on the job any more.                                       *)
Age(j) ==
    /\ row[j] = "active" /\ pc[j] \in {"session"} \cup Over
    /\ j \notin old \cup cancelled
    /\ old' = old \cup {j}
    /\ UNCHANGED <<pc, held, cluster, row, cancelled, missed, sweep>>

(* Nothing reaps the job's row: it stays running.                          *)
Crash(j) ==
    /\ "crash" \in Faults
    /\ pc[j] \notin {"new"} \cup Over
    /\ pc' = [pc EXCEPT ![j] = "crashed"]
    /\ held' = held \ {j}
    /\ UNCHANGED <<cluster, row, cancelled, old, missed, sweep>>

SweepCrashes ==
    /\ "crash" \in Faults
    /\ work # {} \/ sweeping # {}
    /\ work' = {} /\ sweeping' = {}
    /\ UNCHANGED <<pc, held, cluster, row, cancelled, old, missed>>

-----------------------------------------------------------------------------
Goroutine(j) ==
    \/ Claim(j) \/ Deploy(j) \/ Expose(j) \/ RecordFailure(j)
    \/ Register(j) \/ StopRefused(j) \/ ReportRefused(j)
    \/ BeginSession(j) \/ EndSession(j) \/ TestDeploy(j) \/ TestExpose(j)
    \/ Stop(j) \/ ReportStop(j)

Next ==
    \/ SweepFetches \/ SweepCrashes
    \/ \E j \in Jobs :
          \/ Goroutine(j)
          \/ SweepRemoves(j) \/ SweepFails(j) \/ SweepReports(j) \/ SweepIsNotHeard(j)
          \/ Cancel(j) \/ Age(j) \/ Crash(j)

Spec == Init /\ [][Next]_vars

(* Goroutines and the sweep's ticker go on, and time passes.               *)
FairSpec ==
    /\ Spec
    /\ WF_vars(SweepFetches)
    /\ \A j \in Jobs : WF_vars(Goroutine(j)) /\ WF_vars(Age(j))

-----------------------------------------------------------------------------
(* The preview of a session is up for as long as the session is neither    *)
(* cancelled nor older than the TTL: no sweep takes it away, and not the   *)
(* failure of another preview.                                             *)
PreviewServes ==
    \A j \in held : pc[j] = "session" /\ j \notin cancelled \cup old => j \in release \cap ingress

(* The registry forgets a preview only when it is gone (worker/preview.go, *)
(* stop: a partial teardown leaves the row active), or when a sweep looked *)
(* for it in the cluster that has replaced its own since (SweepPreviews:   *)
(* the old one keeps it, and the row is closed either way).  A test run,   *)
(* which deploys its release a second time, is not promised this.          *)
TornDownIsGone ==
    \A j \in Jobs \ TestRuns :
        row[j] = "torn_down" => j \notin release \cup ingress \/ j \in missed

(* How far the goroutine of a job is, as far as the registry is concerned. *)
Stage ==
    [j \in Jobs |->
        IF pc[j] = "new" THEN "before"
        ELSE IF pc[j] \in {"deploy", "expose", "register", "record"} THEN "during"
        ELSE "after"]

Registry == INSTANCE PreviewRegistry WITH stage <- Stage

(* All the steps of a bring-up, its failures, the two ways down, the sweep *)
(* and the crashes are the few steps of one row of the registry.           *)
ImplementsRegistry == Registry!Spec

SweepSucceeds == \A j \in Jobs : SF_vars(SweepRemoves(j)) /\ SF_vars(SweepReports(j))

(* A registered preview does not outlive its job for ever, whatever failed *)
(* or crashed, as long as the sweep gets through now and then.             *)
RegisteredIsCollected ==
    SweepSucceeds => \A j \in Jobs : row[j] = "active" /\ pc[j] \in Over ~> row[j] # "active"

(* A test run whose environment came up gets to run its agent against it   *)
(* (worker/worker.go: its PREVIEW_URL points at a live environment).       *)
TestRunIsServed == \A j \in TestRuns : pc[j] = "body" ~> pc[j] = "session"
=============================================================================
