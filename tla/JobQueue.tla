------------------------------- MODULE JobQueue -------------------------------
(***************************************************************************)
(* The job queue and the replicas that drain it (internal/queue/queue.go,  *)
(* internal/worker/worker.go, cmd/server/main.go).                         *)
(*                                                                         *)
(* The shared state is the API's database: one row per job and one row per *)
(* preview in the registry.  Each replica has one poll loop, a limiter and *)
(* a goroutine per claimed job.  Rows are created in the order of their    *)
(* number, so "the oldest" row is the one with the least number.           *)
(***************************************************************************)
EXTENDS Naturals, FiniteSets

CONSTANTS
    Replicas,       \* orchestrator processes, by WORKER_ID
    NoReplica,      \* locked_by is NULL
    NJobs,          \* bound: how many jobs the API ever creates
    Project,        \* the project of each job
    Eligible,       \* the jobs of a kind that gets a preview
    MaxPreviews,    \* per-project cap; 0 when previews are disabled
    MaxConcurrent,  \* capacity of a replica's limiter
    Faults          \* which faults the environment may inject

Jobs == 1..NJobs

ASSUME JobQueueAssumption ==
    /\ NoReplica \notin Replicas
    /\ NJobs \in Nat
    /\ Eligible \subseteq Jobs
    /\ MaxPreviews \in Nat
    /\ MaxConcurrent \in Nat \ {0}
    /\ Faults \subseteq {"db", "teardown", "stop"}

VARIABLES
    created,    \* how many job rows exist
    status,     \* jobs.status
    lockedBy,   \* jobs.locked_by
    rowLock,    \* the claim statement holding a job's row lock
    preview,    \* job_previews.status
    proc,       \* is the process serving, unwinding after SIGTERM, or gone
    poll,       \* where the poll loop is
    seen,       \* the rows a claim statement's snapshot found admissible
    slots,      \* occupied limiter slots
    at          \* where the goroutine running a job is

vars == <<created, status, lockedBy, rowLock, preview, proc, poll, seen, slots, at>>

Terminal     == {"completed", "failed", "cancelled"}
Status       == {"absent", "pending", "running"} \cup Terminal
PreviewState == {"none", "active", "failed", "torn_down"}
Step         == {"none", "start", "run", "okStop", "errStop", "complete", "fail"}

(* Every variable keeps its type, and no limiter exceeds its capacity.     *)
TypeOK ==
    /\ created \in 0..NJobs
    /\ status \in [Jobs -> Status]
    /\ lockedBy \in [Jobs -> Replicas \cup {NoReplica}]
    /\ rowLock \in [Jobs -> Replicas \cup {NoReplica}]
    /\ preview \in [Jobs -> PreviewState]
    /\ proc \in [Replicas -> {"up", "draining", "down"}]
    /\ poll \in [Replicas -> {"idle", "claiming", "locked"}]
    /\ seen \in [Replicas -> SUBSET Jobs]
    /\ slots \in [Replicas -> 0..MaxConcurrent]
    /\ at \in [Replicas -> [Jobs -> Step]]

Init ==
    /\ created  = 0
    /\ status   = [j \in Jobs |-> "absent"]
    /\ lockedBy = [j \in Jobs |-> NoReplica]
    /\ rowLock  = [j \in Jobs |-> NoReplica]
    /\ preview  = [j \in Jobs |-> "none"]
    /\ proc     = [r \in Replicas |-> "up"]
    /\ poll     = [r \in Replicas |-> "idle"]
    /\ seen     = [r \in Replicas |-> {}]
    /\ slots    = [r \in Replicas |-> 0]
    /\ at       = [r \in Replicas |-> [j \in Jobs |-> "none"]]

-----------------------------------------------------------------------------
(* The API, which is not part of this repository: it inserts pending rows  *)
(* and its cancel endpoint closes a row that has not ended.  Its UPDATE    *)
(* waits for a claim that holds the row lock.                              *)

Submit ==
    /\ created < NJobs
    /\ created' = created + 1
    /\ status' = [status EXCEPT ![created + 1] = "pending"]
    /\ UNCHANGED <<lockedBy, rowLock, preview, proc, poll, seen, slots, at>>

Cancel(j) ==
    /\ status[j] \in {"pending", "running"}
    /\ rowLock[j] = NoReplica
    /\ status' = [status EXCEPT ![j] = "cancelled"]
    /\ UNCHANGED <<created, lockedBy, rowLock, preview, proc, poll, seen, slots, at>>

-----------------------------------------------------------------------------
(* The poll loop: one claim statement at a time per replica.               *)

(* Mutant: a preview that was torn down still counts.                      *)
EveryPreview(p) == {j \in Jobs : Project[j] = p /\ preview[j] # "none"}

ActivePreviews(p) == {j \in Jobs : Project[j] = p /\ preview[j] = "active"}

(* Mutant: the cap admits one preview too many.                            *)
AdmissibleAtCap(j) ==
    \/ MaxPreviews = 0
    \/ j \notin Eligible
    \/ Cardinality(ActivePreviews(Project[j])) <= MaxPreviews

Admissible(j) ==
    \/ MaxPreviews = 0
    \/ j \notin Eligible
    \/ Cardinality(ActivePreviews(Project[j])) < MaxPreviews

(* A slot is taken before the claim statement is sent; the statement reads *)
(* jobs and job_previews in one snapshot.                                  *)
TryAcquire(r) ==
    /\ proc[r] = "up"
    /\ poll[r] = "idle"
    /\ slots[r] < MaxConcurrent
    /\ slots' = [slots EXCEPT ![r] = @ + 1]
    /\ poll' = [poll EXCEPT ![r] = "claiming"]
    /\ seen' = [seen EXCEPT ![r] = {j \in Jobs : status[j] = "pending" /\ Admissible(j)}]
    /\ UNCHANGED <<created, status, lockedBy, rowLock, preview, proc, at>>

(* Mutant: neither SKIP LOCKED nor the recheck of a row that was locked.   *)
ClaimableUnlocked(r) == seen[r]

(* Mutant: a row that waits for a preview slot holds up the rows behind    *)
(* it.                                                                     *)
ClaimableInLine(r) ==
    {j \in seen[r] :
        /\ status[j] = "pending" /\ rowLock[j] = NoReplica
        /\ \A k \in Jobs : status[k] = "pending" => j <= k}

(* FOR UPDATE SKIP LOCKED: rows under another claim's lock are passed over *)
(* and rows that changed since the snapshot are rechecked once locked.     *)
Claimable(r) == {j \in seen[r] : status[j] = "pending" /\ rowLock[j] = NoReplica}

IsOldest(j, rows) == j \in rows /\ \A k \in rows : j <= k

ClaimSelect(r) ==
    /\ poll[r] = "claiming"
    /\ \E j \in Jobs :
          /\ IsOldest(j, Claimable(r))
          /\ rowLock' = [rowLock EXCEPT ![j] = r]
    /\ poll' = [poll EXCEPT ![r] = "locked"]
    /\ UNCHANGED <<created, status, lockedBy, preview, proc, seen, slots, at>>

EndClaim(r) ==
    /\ poll' = [poll EXCEPT ![r] = "idle"]
    /\ seen' = [seen EXCEPT ![r] = {}]

(* Mutant: a slot is released by the poll loop and again by the goroutine. *)
ReleaseTwice(r) == slots' = [slots EXCEPT ![r] = @ - 2]

(* Mutant: the way out forgets to release the slot.                        *)
ReleaseNever(r) == UNCHANGED slots

Release(r) == slots' = [slots EXCEPT ![r] = @ - 1]

ClaimNone(r) ==
    /\ poll[r] = "claiming"
    /\ Claimable(r) = {}
    /\ EndClaim(r)
    /\ Release(r)
    /\ UNCHANGED <<created, status, lockedBy, rowLock, preview, proc, at>>

(* Mutant: the claim does not record who took the row.                     *)
MarkRunningUnowned(r, j) ==
    /\ status' = [status EXCEPT ![j] = "running"]
    /\ rowLock' = [rowLock EXCEPT ![j] = NoReplica]
    /\ UNCHANGED lockedBy

MarkRunning(r, j) ==
    /\ status' = [status EXCEPT ![j] = "running"]
    /\ lockedBy' = [lockedBy EXCEPT ![j] = r]
    /\ rowLock' = [rowLock EXCEPT ![j] = NoReplica]

(* The row is returned and a goroutine takes over the slot.                *)
ClaimCommit(r) ==
    /\ poll[r] = "locked"
    /\ \E j \in Jobs :
          /\ rowLock[j] = r
          /\ MarkRunning(r, j)
          /\ at' = [at EXCEPT ![r][j] = "start"]
    /\ EndClaim(r)
    /\ UNCHANGED <<created, preview, proc, slots>>

Unreliable(r) == "db" \in Faults \/ proc[r] = "draining"

(* The statement failed and was rolled back.                               *)
ClaimError(r) ==
    /\ Unreliable(r)
    /\ poll[r] # "idle"
    /\ rowLock' = [j \in Jobs |-> IF rowLock[j] = r THEN NoReplica ELSE rowLock[j]]
    /\ EndClaim(r)
    /\ Release(r)
    /\ UNCHANGED <<created, status, lockedBy, preview, proc, at>>

(* The statement committed but its answer was lost: claimAndDispatch sees  *)
(* an error, frees the slot, and nothing runs the row it just took.        *)
ClaimAnswerLost(r) ==
    /\ Unreliable(r)
    /\ poll[r] = "locked"
    /\ \E j \in Jobs : rowLock[j] = r /\ MarkRunning(r, j)
    /\ EndClaim(r)
    /\ Release(r)
    /\ UNCHANGED <<created, preview, proc, at>>

Poll(r) == TryAcquire(r) \/ ClaimSelect(r) \/ ClaimNone(r) \/ ClaimCommit(r)

-----------------------------------------------------------------------------
(* The goroutine of a claimed job: runClaimedJob around runInCluster.      *)

Advance(r, j, from, to) ==
    /\ at[r][j] = from
    /\ at' = [at EXCEPT ![r][j] = to]

(* No cluster for the organization, over the token cap, a script run that  *)
(* is skipped, no namespace: the job ends before a preview is considered.  *)
EndEarly(r, j) ==
    /\ \E outcome \in {"complete", "fail"} : Advance(r, j, "start", outcome)
    /\ UNCHANGED <<created, status, lockedBy, rowLock, preview, proc, poll, seen, slots>>

(* startJobPreview never fails the job.  The row is active, records a      *)
(* failure, or is missing because it could not be registered.              *)
StartPreview(r, j) ==
    /\ Advance(r, j, "start", "run")
    /\ \/ UNCHANGED preview
       \/ /\ j \in Eligible
          /\ MaxPreviews > 0
          /\ \E row \in {"active", "failed"} : preview' = [preview EXCEPT ![j] = row]
    /\ UNCHANGED <<created, status, lockedBy, rowLock, proc, poll, seen, slots>>

(* The body of the job ends, well or not.  A cancelled row may end either  *)
(* way: only an agent session watches for the cancellation, and it may be  *)
(* past the point where that changes its result.                           *)
EndRun(r, j) ==
    /\ \E outcome \in {"okStop", "errStop"} : Advance(r, j, "run", outcome)
    /\ UNCHANGED <<created, status, lockedBy, rowLock, preview, proc, poll, seen, slots>>

(* Mutant: the report closes a row whatever its status.                    *)
TearDownAnyway(j) == preview' = [preview EXCEPT ![j] = "torn_down"]

TearDown(j) ==
    preview' = [preview EXCEPT ![j] = IF @ = "active" THEN "torn_down" ELSE @]

(* The deferred stop.  A teardown that fails, or whose report is lost,     *)
(* leaves the row active for the sweep.                                    *)
StopPreview(r, j) ==
    /\ \/ Advance(r, j, "okStop", "complete")
       \/ Advance(r, j, "errStop", "fail")
    /\ \/ proc[r] = "up" /\ TearDown(j)
       \/ ("teardown" \in Faults \/ proc[r] = "draining") /\ UNCHANGED preview
    /\ UNCHANGED <<created, status, lockedBy, rowLock, proc, poll, seen, slots>>

(* Mutant: the UPDATE of the outcome expects the row to be pending.        *)
CloseIfPending(j, final) ==
    status' = [status EXCEPT ![j] = IF @ = "pending" THEN final ELSE @]

(* UPDATE ... WHERE status = 'running'.                                    *)
CloseIfRunning(j, final) ==
    status' = [status EXCEPT ![j] = IF @ = "running" THEN final ELSE @]

Complete(r, j) ==
    /\ proc[r] = "up"
    /\ Advance(r, j, "complete", "none")
    /\ CloseIfRunning(j, "completed")
    /\ Release(r)
    /\ UNCHANGED <<created, lockedBy, rowLock, preview, proc, poll, seen>>

Fail(r, j) ==
    /\ proc[r] = "up"
    /\ Advance(r, j, "fail", "none")
    /\ CloseIfRunning(j, "failed")
    /\ Release(r)
    /\ UNCHANGED <<created, lockedBy, rowLock, preview, proc, poll, seen>>

(* A failed Complete or Fail is logged and forgotten.                      *)
OutcomeLost(r, j) ==
    /\ Unreliable(r)
    /\ \/ Advance(r, j, "complete", "none")
       \/ Advance(r, j, "fail", "none")
    /\ Release(r)
    /\ UNCHANGED <<created, status, lockedBy, rowLock, preview, proc, poll, seen>>

Goroutine(r, j) ==
    \/ EndEarly(r, j)
    \/ StartPreview(r, j)
    \/ EndRun(r, j)
    \/ StopPreview(r, j)
    \/ Complete(r, j)
    \/ Fail(r, j)

-----------------------------------------------------------------------------
(* The process and the orphan sweep.                                       *)

(* SIGTERM cancels the context every goroutine runs under.                 *)
Shutdown(r) ==
    /\ "stop" \in Faults
    /\ proc[r] = "up"
    /\ proc' = [proc EXCEPT ![r] = "draining"]
    /\ UNCHANGED <<created, status, lockedBy, rowLock, preview, poll, seen, slots, at>>

(* main returns once the HTTP server is down and waits for no worker       *)
(* goroutine; a crash is the same step taken by a process that was up.     *)
Exit(r) ==
    /\ "stop" \in Faults
    /\ proc[r] # "down"
    /\ proc' = [proc EXCEPT ![r] = "down"]
    /\ rowLock' = [j \in Jobs |-> IF rowLock[j] = r THEN NoReplica ELSE rowLock[j]]
    /\ EndClaim(r)
    /\ slots' = [slots EXCEPT ![r] = 0]
    /\ at' = [at EXCEPT ![r] = [j \in Jobs |-> "none"]]
    /\ UNCHANGED <<created, status, lockedBy, preview>>

Restart(r) ==
    /\ proc[r] = "down"
    /\ proc' = [proc EXCEPT ![r] = "up"]
    /\ UNCHANGED <<created, status, lockedBy, rowLock, preview, poll, seen, slots, at>>

(* The API lists a preview as stale when its job is not running or it is   *)
(* older than PREVIEW_TTL, which a long job can be.                        *)
Sweep(r, j) ==
    /\ proc[r] = "up"
    /\ MaxPreviews > 0
    /\ preview[j] = "active"
    /\ TearDown(j)
    /\ UNCHANGED <<created, status, lockedBy, rowLock, proc, poll, seen, slots, at>>

Next ==
    \/ Submit
    \/ \E j \in Jobs : Cancel(j)
    \/ \E r \in Replicas :
          \/ Poll(r)
          \/ ClaimError(r)
          \/ ClaimAnswerLost(r)
          \/ Shutdown(r)
          \/ Exit(r)
          \/ Restart(r)
    \/ \E r \in Replicas, j \in Jobs :
          \/ Goroutine(r, j)
          \/ OutcomeLost(r, j)
          \/ Sweep(r, j)

Spec == Init /\ [][Next]_vars

(* The ticker and the goroutines of a process keep running, and no job     *)
(* body runs forever.  The API creates and cancels as it likes.            *)
FairSpec ==
    /\ Spec
    /\ \A r \in Replicas : WF_vars(Poll(r))
    /\ \A r \in Replicas, j \in Jobs : WF_vars(Goroutine(r, j))

-----------------------------------------------------------------------------
Live(r) == {j \in Jobs : at[r][j] # "none"}

(* Whoever executes a job is the one replica its row names, so two         *)
(* replicas never execute one job (queue.go: the claim alone makes several *)
(* replicas safe, with no other coordination).                             *)
SingleRunner == \A r \in Replicas : \A j \in Live(r) : lockedBy[j] = r

(* The limiter leaks no slot and gives none away twice: what is occupied   *)
(* is one slot per job goroutine and one for a claim under way.            *)
SlotsAccounted ==
    \A r \in Replicas :
        slots[r] = Cardinality(Live(r)) + IF poll[r] = "idle" THEN 0 ELSE 1

(* No step rewrites a status the row ended in: an outcome arriving after   *)
(* the API cancelled a job is dropped, and no job is run a second time.    *)
TerminalIsFinal ==
    [][\A j \in Jobs : status[j] \in Terminal => status'[j] = status[j]]_vars

Starting(p) == {j \in Jobs : Project[j] = p /\ j \in Eligible /\ \E r \in Replicas : at[r][j] = "start"}

(* What the admission check guarantees, which is not that the cap is kept: *)
(* previews that exist and those still being brought up never exceed it by *)
(* more than the jobs all limiters together have in flight, less one.      *)
OvershootBounded ==
    MaxPreviews > 0 =>
        \A j \in Jobs :
            Cardinality(ActivePreviews(Project[j]) \cup Starting(Project[j]))
                <= MaxPreviews - 1 + MaxConcurrent * Cardinality(Replicas)

(* A claimed job's row does not stay running for ever, as long as no fault *)
(* takes the write of its outcome away.                                    *)
RunningEnds == \A j \in Jobs : status[j] = "running" ~> status[j] \in Terminal

(* A job that needs no preview slot is claimed even if no slot ever frees: *)
(* the jobs waiting for one do not hold up the jobs behind them.           *)
OthersKeepFlowing ==
    \A j \in Jobs \ Eligible : status[j] = "pending" ~> status[j] # "pending"

SweepRuns == \A j \in Jobs : WF_vars(\E r \in Replicas : Sweep(r, j))

(* A job waiting for a preview slot is claimed in the end, provided the    *)
(* sweep gets through and so frees what a failed teardown left behind.     *)
QueuedIsClaimed ==
    SweepRuns => \A j \in Jobs : status[j] = "pending" ~> status[j] # "pending"

(* Every step of the queue is a step of the abstract life of a job.        *)
Lifecycle == INSTANCE JobLifecycle WITH
    Workers   <- Replicas,
    NoWorker  <- NoReplica,
    owner     <- lockedBy,
    executing <- [j \in Jobs |-> {r \in Replicas : at[r][j] # "none"}]

(* The queue with its replicas implements the life of a job that           *)
(* JobLifecycle promises.                                                  *)
ImplementsLifecycle == Lifecycle!Spec

(* How far a job is, as far as the registry of previews is concerned.      *)
Stage ==
    [j \in Jobs |->
        IF \E r \in Replicas : at[r][j] = "start" THEN "during"
        ELSE IF status[j] \in {"absent", "pending"} THEN "before"
        ELSE "after"]

Registry == INSTANCE PreviewRegistry WITH stage <- Stage, row <- preview

(* What the queue does to the registry is what PreviewLifecycle may do to  *)
(* it, so its one step of starting a preview stands for all of theirs.     *)
ImplementsRegistry == Registry!Spec
=============================================================================
