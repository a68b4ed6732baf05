# A verification of the Yggdrasil orchestrator

This directory holds TLA+ models of the orchestrator under `src/`, the TLC runs
that check them on small instances, and proofs, checked by TLAPS, of the
properties that matter most for every size of the system. Line references are to
the sources in this repository; `PROJECT.json` ties every definition to the
lines it stands for and lists components, runs, hazards and theorems.

    tlc -config queue_safety.cfg MCJobQueue.tla      # any run of the table below
    tlapm JobQueueProofs.tla                         # any module with theorems

## 1. The system

An orchestrator process ("replica") polls a PostgreSQL table for jobs, runs each
one against the Kubernetes cluster of the job's organization, and reports to the
platform's API over HTTP. The API owns the database; it inserts jobs, cancels
them and stores people's replies. Several replicas share one database.

| component | state | operations | talks to |
|---|---|---|---|
| job queue (`queue/queue.go`) | rows of `jobs`, `job_previews` | claim with admission, complete, fail, watch a cancellation | PostgreSQL |
| worker loop (`worker/worker.go`) | limiter, one goroutine per job | poll, claim and dispatch, run, record the outcome, sweep | queue, everything below |
| agent session (`worker/specgrill.go`, `rpc/client.go`, `k8s/attach.go`) | events channel, current attach call, cancellation flag | build the environment, create the pod, a turn per prompt, wait for a reply, collect, delete the pod | Pi in its pod, API, queue |
| replies and cancellations (`messages/store.go`, `queue/queue.go`, `worker/replytimeout.go`) | pooled connections in LISTEN, deadline | acquire, LISTEN, check, sleep | PostgreSQL, shared pool |
| delta coalescing (`worker/deltas.go`) | buffer, timer, mutex | add, flush, stop | session, API |
| previews (`worker/preview.go`, `preview/preview.go`) | Helm release, Ingress, registry row, handle | bring up, register, stop, sweep, the second one of a test run | cluster, API |
| session accounting and artifacts (`worker/usage.go`, `sessions.go`, `recordings.go`, `screenshots.go`) | three answers of Pi, files in the pod | closing turn, collection, report | Pi, pod exec, API |
| fork (`worker/fork.go`, `rpc/fork.go`) | restored session file, active conversation | fetch, write, switch, verify, fork, locate | API, Pi, pod exec |
| deploy and rollback (`worker/worker.go`, `helm/`) | Helm revisions, the API's ledger | install, upgrade, rollback, read back, report with retries | cluster, API |
| cluster resolution (`worker/clusters.go`) | a client per organization, projects by organization | resolve | API |
| namespace, quota, secrets, primary Ingress (`k8s/namespace.go`, `secret.go`, `ingress.go`) | cluster objects | create, or read and update | API, cluster |
| image build (`imagebuild/`, `worker/previewimage.go`) | a Kubernetes Job and its pod | clear the name, create, poll, classify the outcome | API, cluster |
| preflight, merge conflicts, capabilities | - | advisory reports | API, database |

What is hard about it, in the order the plan takes it:

1. *Several replicas on one table.* The claim statement is the only coordination
   there is. Each job must be executed by at most one replica, the limiter must
   account for every path out of a claim, and an outcome that arrives after a
   cancellation must not rewrite the row.
2. *A session with five concurrent parties* (the job's goroutine, its watcher,
   the copier of an attach call, Pi, and a person) over a bounded channel that
   outlives turns and drops what it has no room for. An event of the last turn must
   not end the next one, the API must be told how a run ended, once, and the same
   as the row says, the pod must be deleted on every way out, and a turn should not
   wait for an event that never comes. A post that fails is not repeated.
3. *Waiting for people.* LISTEN, check, sleep: no notification may fall between.
   Sessions hold pooled connections for hours, and the claim needs one too.
4. *Deltas.* A timer on a goroutine of its own flushes a buffer the read loop
   appends to; text must not be reordered, lost or held for ever.
5. *Previews* live in three places (Helm, Ingress, registry) and are removed by
   parties (the job, the test run, the sweep), any step of which may fail
   or be the last of its process.
6. *Jobs of one project meet in the cluster.* They share a cached client that may
   be built from a kubeconfig since replaced, objects whose `resourceVersion`s
   overtake each other, one Helm release with one history, and, if their names
   are cut to the same 63 characters, the Job that builds their image. What the
   deploy ledger says must be true of the deploy that says it.
7. *Pi as a server.* The fork preamble and the closing turn ask it questions that
   it may answer in any order, wrongly, or never. A run must not go on in the
   wrong conversation, must say truthfully at which stage it stopped, must not
   report as absent what nobody looked for, and must give its worker slot back.

`PROJECT.json` lists each hazard at its line, with the properties that cover it
or the reason why none does.

## 2. Modules

| module | models | extended or used by |
|---|---|---|
| `JobLifecycle` | *abstract*: the life of a job as the platform may rely on it | refined by `JobQueue` |
| `JobQueue` | claim, limiter, job goroutines, outcome, shutdown, crash, restart, sweep | `MCJobQueue`, `JobQueueProofs` |
| `PreviewRegistry` | *abstract*: the life of a preview's row in the registry | refined by `JobQueue` and by `PreviewLifecycle` |
| `RunTranscript` | *abstract*: the sequence of events a run tells the API, and what may be lost of it | refined by `AgentSession` |
| `AgentSession` | one agent run over Pi's RPC protocol | `AgentSessionProofs` |
| `PiTurn` | a turn of questions to Pi: what is asked, what it answers, the attach call | `ForkPreamble`, `ClosingTurn` |
| `ForkPreamble` | how a resumed run restores and branches the stored session | `RunArtifacts` |
| `ClosingTurn` | the three closing questions, their deadline and the grace of the third | `RunArtifacts` |
| `RunArtifacts` | a run from its restored session to its collected files, around its turns | `RunArtifactsProofs` |
| `ReplyPool` | both waits over the database and the connection pool | `MCReplyPool`, `ReplyPoolProofs` |
| `EventRelay` | *abstract*: an ordered relay of events, deliveries of which may be lost | refined by `DeltaCoalescer` |
| `DeltaCoalescer` | the coalescer, its timer and mutex | `DeltaCoalescerProofs` |
| `PreviewLifecycle` | a preview's release, Ingress and row; the sweep | `MCPreviewLifecycle`, `PreviewLifecycleProofs` |
| `JobBody` | what the parts of a claimed job's body share | the next four |
| `ClusterCache` | the cache of the organization's Kubernetes client | `RunInCluster` |
| `ProjectObjects` | quota, Secret and primary Ingress of the project | `RunInCluster` |
| `PrimaryRelease` | deploy, rollback, the ledger | `RunInCluster` |
| `ReleaseHistory` | *abstract*: a history one operation at a time extends | refined by `RunInCluster` |
| `ImageBuild` | the image of a preview | `RunInCluster` |
| `RunInCluster` | concurrent jobs of one project: the four parts composed | `MCRunInCluster`, `RunInClusterProofs` |

Each `...Proofs` module holds the theorems about the module it is named after,
each `MC...` module the small instances of it. `AgentSession`, `DeltaCoalescer`
and `RunArtifacts` need no `MC` module: their constants are given in the cfg.

Operators whose comment begins with "Mutant:" are plausible bugs. No
specification uses them; each one, put in the place of the definition after it,
makes a run fail, which shows that the property in question constrains the code.

### JobQueue

`status`, `lockedBy` and `preview` are columns of the database; `rowLock` is the
row lock of a claim statement in progress; `proc`, `poll`, `seen`, `slots` and
`at` belong to a replica. The statement at `queue.go:147` is two steps under READ
COMMITTED: its snapshot (`seen`, taken when it starts) and the lock of the oldest
row that is neither locked nor changed since (`ClaimSelect`); the commit is a
third (`ClaimCommit`). This is what makes the admission count stale: a claimed
job registers its preview only in `StartPreview`. `at` is the program counter of
`runClaimedJob`, from cluster resolution through the deferred teardown of the
preview to `Complete` or `Fail`. `ClaimAnswerLost` is a commit whose answer does
not arrive: the row runs under this replica's name and nobody executes it.
`Shutdown` cancels the context; `Exit` is `main` returning without waiting for
goroutines, and also a crash.

What a job does between `start` and `okStop`/`errStop` is left to the other
modules; here it succeeds or fails. That `preview` may nevertheless stand for what
`PreviewLifecycle` says of the same rows is `ImplementsRegistry`, which both
modules satisfy: `Stage`, before, during or after the bringing up, is read off the
position of the job's goroutine, and here off its row when it has none. The API
and PostgreSQL are external.

### AgentSession

`pc` is the job's goroutine in `runAgentRPCJob` and `driveAgentSession`. `events`
is the client's channel (bounded, never blocking the writer: `emit` drops), and
`attach`/`hangup` are the current `k8s.Attach` call and `attachErr`; a call whose
turn ended is `loose` until its goroutine notices. What Pi prints is reduced to
the kinds the loop tells apart: prose, a question, a result, a failed build, a
failed request, `agent_settled`, and the answer to the closing questions. `posts`
is what the run posted, each with whether it arrived: a failed `PostJobEvent` is
logged and dropped (`specgrill.go:151-157`), so with the fault `"post"` any of
them may be lost while the process is up, and all are once a shutdown has
cancelled its context. What the run *told* is therefore one thing and what the API
heard another; `RunTranscript` is the first with gaps.

A `CreateJob` that returns an error may have made the Job all the same
(`pod = "orphan"`): the run returns before it defers the deletion
(`specgrill.go:197-218`), and posts nothing. `RunCleansUp` and `EveryEndIsTold`
except exactly this case.

`TrailsLate` states the one assumption about Pi that `DrainStaleEvents` makes in
its comment (`rpc/client.go:221-225`): an attach call returns only after Pi has
printed the bookkeeping of its turn. With `TrailsLate = TRUE` TLC finds a
violation of `NoStaleEnd` at once; the code relies on the assumption and cannot
check it.

`overrun` says that the full channel dropped the turn's `agent_settled`: nobody
reads `Errs`, so the run then waits for the end of a turn that has ended. The
`session` run has a channel of one, where this happens. `EveryRunEnds` names it as
one of the two places where a run may wait for ever; with the code's 256 events it
takes a read loop that is behind by that many.
`panicked` records that `Close` closes a channel a loose attach call may still
write to (`rpc/client.go:253` against `:178`): the process dies. No document
says that it does not, so this is a step of the model and not a property.

`Send` writes the prompt into the turn's pipe outside any `select`. A prompt that
fits its buffer is taken at once; a larger one (`BigPrompts`, in the run the first
one) waits for the attach call to read it (`Taken`). An attach call that broke
before it read anything leaves the session in that write, where no cancellation
reaches it (`Stuck`): the second place `EveryRunEnds` names, and the exception of
`CancelHeeded`.

The closing turn, the fork preamble and the collection are single steps here, and
`RunArtifacts` is about them.

### ReplyPool

The two waits are the same loop and are modelled statement by statement: Acquire
(blocks while the pool is empty), LISTEN, check, sleep, and back to the check.
`bell` holds the goroutines whose connection has buffered a notification; all
listeners of a channel are notified, whatever job it is about. A session's
deadline (24 hours by default) is modelled as passing only when nothing the
process itself does would move the waiter (`Expire`).

### DeltaCoalescer

One action per critical section, split where `forward` posts under the mutex;
`callbacks` counts callbacks of timers that expired and have not got the mutex,
stopped timers included, as `time.AfterFunc` has it. Events are numbered; `ends[n]`
is where the text of the first `n` of them ends, so a delta has a size and any other
event none. `bytes` is what the buffer holds, compared with `MaxBytes` after the
append, as in `deltas.go:115-118`: a flush may exceed the limit, by less than its
last delta (`FlushIsBounded`). `sent` is what was handed to the API client and
`lost` those of it whose post failed (`Deliver`): the post is made once.

`EventRelay` is the same without timers, callbacks, lock or reader: an event goes
in, a run of events that stopped growing at the limit comes out in order, may be
lost as a whole, and a relay that was closed has posted everything. `Relay` takes
`ends` for what was read and `sent` for what was posted; it is closed when the
reader is done and the flush of `stop` has given the mutex back.

### PreviewLifecycle

The goroutine's steps are those of `startJobPreview`, the job's body and the
deferred `stop`; the test run's second deployment of the same release is
`TestDeploy`/`TestExpose`. The sweep fetches a list, then removes and reports one
entry at a time while jobs go on. Every step may fail where the code handles an
error, and any process may crash between two steps. The sweep resolves the cluster
the organization has when it runs. With the fault `"replace"` that is not the one
the preview is in: nothing is found there to remove, which is no error, the preview
stays and the row is closed (`SweepMisses`, `preview.go:274-278`); `missed` are the
previews this happened to.

### PiTurn, ForkPreamble, ClosingTurn, RunArtifacts

`at` is the goroutine of `runAgentRPCJob` before and after its turns, which are
one step here (`Turns`): they end, with or without a terminal event, and have
named some files. Once a shutdown has begun the process may be gone at any step
(`Exit`): `at` is then `"exited"`, and the pod stays. `conv` is the conversation
Pi has active (the run's own one, with or without a file; the stored one; a branch
of it; an empty one, which is what a session file it cannot parse turns into),
`asked` and `answers` what is on its way to and from Pi. Pi answers in any order,
with any answer the code tells apart, or not at all; a person cancels, the process
stops, the attach call breaks and the pod dies at any moment.

`ForkPreamble` has one action per command of `forkIntoSession`, each with the
refusals the code reports; `refusal` is the `fork_failed` event. A fork that
succeeds without text gives an empty prompt (`PromptOf`, `"bare"`), as
`rpc/fork.go:139-144` does. `forkTurnTimeout` bounds the commands (`ForkTurn`) and
not the fetch and the write before them. `ClosingTurn` counts time in ticks:
`TurnTicks` is `usageFetchTimeout`, `GraceTicks` is `forkMessagesGrace`, which
begins when the two required answers are in (`armed`). `usage` is the report
handed over, `accounted` that its post succeeded (`PostJobUsage`). In
`RunArtifacts`, `bad` collects what cannot be read, is too large or is not taken
by the API, `patience` how many screenshot reads may hang before the time of the
batch is over. An upload runs under the context of the batch and has no timeout of
its own (`screenshots.go:294-297`, `apiclient/client.go:31`): one that hangs takes
all the time that is left (`wedged`). `stored`, `session` and `points` are what
the API holds. Sizes, content types, paths and entry ids are not modelled beyond
that.

### JobBody, ClusterCache, ProjectObjects, PrimaryRelease, ImageBuild, RunInCluster

`RunInCluster` is `runInCluster` for several jobs of one project at once.
`JobBody` declares what its parts share: `at`, the position of each job's
goroutine, `stopped`, the cancelled context every call takes, and `kind`. The
four parts are instantiated, so each has its own variables and its actions move
`at` from one to the next: `Resolve`, `Gate` (the token cap), `Provision`, then
either `Roll` or `BuildImage`.

- `ClusterCache`: the lock makes `Cached`, `Reuse`, `Build` and `BuildFails`
  single steps, and is not held while the API is asked (`Ask`,
  `FetchOrganizationCluster`). The cache hands out the client it holds, also to a
  job that has just fetched a newer kubeconfig. Time is ticks; `replaced` says
  how long ago a kubeconfig was replaced at the API.
- `ProjectObjects`: an object is read and written back in two steps; `current`
  is the set of jobs whose `resourceVersion` is still the object's. The quota
  consists of the managed limits and one limit of somebody else's; `seen` is the
  quota a job read, into which it merges its own limits (`Merged`), so that a stale
  write would undo a newer limit if the API server took it.
- `PrimaryRelease`: `release` is Helm's history, `produced` the revision a job
  appended, `result` what it is going to report, `ledger` the API's rows. A
  message of a report may be lost on either way, so that the API may hear a
  report twice; it keeps one row per job. A rollback whose revision cannot be read
  back is reported as an error although it is live; `unread` marks such a row.
- `ReleaseHistory` has three steps, `Begin`, `Fail` and `Deploy`. Only the last
  revision is ever pending, and what settled stays settled except that a newer
  deployed revision supersedes it. The mapping is the identity on `release`: what
  is abstracted is who acts, and all that jobs, reports and the process do
  meanwhile.
- `ImageBuild`: `buildJobName` gives every job the name of its build Job, one of
  `Namings`: names of their own, or one name for all, which is what is left of them
  when a long repository name fills the 63 characters (`imagebuild.go:126-128`).
  `owner` maps a name to the Job that holds it; a waiting job looks at pods by name,
  and may find another job's.

`Exit` ends the process between any two steps; the cluster stays as it is. The
agent session of a job with a preview is `AgentSession`'s, and what becomes of
its preview `PreviewLifecycle`'s.

## 3. Runs

Passing runs:

| run | instance | shows |
|---|---|---|
| `queue_safety` | 2 replicas (symmetric), 2 jobs, 2 slots, cap 1; all faults | types, one runner per job, no slot leaks, refinement of `JobLifecycle` and of `PreviewRegistry` |
| `queue_liveness` | 1 replica, 3 jobs, 2 of them for one preview slot; teardowns fail | claimed rows are closed; a job that waits for a preview slot holds up nobody and is claimed in the end |
| `queue_overshoot` | 1 replica, 4 preview jobs, 2 slots, cap 1 | the cap is exceeded by no more than the jobs in flight, less one |
| `session` | 2 prompts, the first larger than the pipe's buffer, 1 piece of prose per turn, channel of 1; all faults, lost posts and a failed `CreateJob` included | no stale end, row and transcript agree, the pod's deletion is asked for, ends are told, refinement of `RunTranscript`, a run that does not end is in one of two places, cancellations are heeded |
| `artifacts` | a run that resumes another or not, 2 screenshots; deadline of 3 ticks, grace of 1; all faults | a resumed run starts in its branch, refusals name their stage, two answers in time are reported, the API is told nothing that was not established, what could be kept is kept, waits with a deadline end |
| `pool` | 2 sessions, 4 connections, 1 question each; database errors | a reply that was there is delivered, nobody sleeps past what it waits for, a connection is to spare, answers and cancellations arrive |
| `deltas` | 5 events, deltas of 1 or 2 bytes, flush at 3; posts fail | refinement of `EventRelay` (order, size, tail, what may be missing), what is buffered is always due to be flushed, no delta waits for ever |
| `preview` | a build and a test run; all faults | the sweep takes no live preview, a closed row means a removed preview or one the sweep missed in a replaced cluster, refinement of `PreviewRegistry`, registered previews are collected |
| `cluster` | 2 jobs (symmetric) of one project, of any kinds, with build Jobs of one name or two; 2 kubeconfigs, the second broken; all faults | the ledger tells the truth about deploys and has every live revision that could be read, no stale client beyond the TTL and a fetch, foreign limits survive, a built image was pushed under its name, refinement of `ReleaseHistory` |

Runs that end in a counterexample, each a disagreement between the code and what
the repository says of it (quoted under "findings" in `PROJECT.json`):

| run | claim | what happens |
|---|---|---|
| `pool_exhausted` | a reply that is already pending is returned immediately (`replytimeout.go:95-97`) | watchers hold all connections; the waiter blocks in Acquire until its deadline |
| `preview_testrun` | a test run's PREVIEW_URL points at a live environment (`worker.go:484-487`) | `createTestPreview` passes the Ingress's name as its namespace and the reverse, so no test run gets past it |
| `rollback_revision` | Rollback "returns the revision the rollback *itself* produced" (`helm/deploy.go:80`, and 37-41 on why) | it reports the greatest revision of the history, which a second rollback has meanwhile extended |

*Bounds.* Two replicas and two jobs are the least with a race for a row and a slot
for each; more replicas add no new kind of step, since replicas meet only in a row
lock and the theorems of section 4 cover any number. Two prompts are the least in
which one turn can leave something to the next; a channel of one overflows as soon
as the read loop is one event behind, so that any event of a turn may be the
dropped one, the last one included. A big first prompt and a small second one let
the write block and not. Two sessions are the least that can starve each other;
four connections are two per session, the smallest pool in which no goroutine
waits for one held by a sleeper. Deltas of one and two bytes and a limit of three
fill a buffer exactly and beyond it, and five events make a flush by size, by
timer and by another event meet in one behaviour. Previews of different jobs share
nothing but the sweep's list, so two jobs, one of each kind, are enough. In the
cluster two jobs are enough for one to come between another's read and its write,
and for an operation between another's end and its look at the history; two
kubeconfigs, one of them broken, give a cached client that is out of date and a
cache that is purged. `TTL` and `FetchBound` are one tick each, `Settings = 1` is
one quota besides the default; a report is tried twice (four times in the code)
and one message may be lost (`MaxLost`), `TargetRevision = 1` is what a rollback
goes back to. `Namings` is `BothNamings`: a name for each build Job, or one for
all. `rollback_revision` needs no fault and one kubeconfig. In the closing turn
three ticks with a grace of one let the third answer come before, within and after
its grace, and the deadline within it; two screenshots and `Patience = 2` let one
hang without the other being lost, or a hung upload take the other with it.
`CHECK_DEADLOCK FALSE` is set where the system really stops: a session that
returned, a replica all of whose sessions are over, a coalescer that was stopped,
jobs that are all over.

*Fairness.* Goroutines that can run do run (weak fairness of the worker, the
attach copier, kubelet, the watcher, the poll loop, the timer). Nothing is
assumed of Pi, of people, of deadlines or of the API, except where a property
says so in its premise: `EveryRunEnds` supposes that Pi finishes what it is asked
and that the deadline of a question passes, both of which `CancelHeeded` does
without; `QueuedIsClaimed` supposes that the sweep runs; `RegisteredIsCollected`
that its attempts to remove and to report succeed now and then (strong fairness,
since each pass is a new attempt). Where the worker's or the reader's steps are
weakly fair in `session` and `deltas`, that includes that a post returns, with
success or without: the HTTP client has no timeout, and a call never answered is
not in these runs. In `artifacts` only what a deadline bounds is weakly fair: the
commands of the preamble (`ForkTurn`), the closing turn (`TakeStats`), the
collection and time. Nothing is assumed of `FetchJobSession`, `WritePodFile`,
`PostJobUsage` and `DeleteJob`, which nothing in the code bounds, nor of the turns,
which may last as long as people do; `WaitsEnd` says of the rest that the run does
not stay in it. `cluster` checks safety only: Helm, the
cluster and the API have no deadline of their own everywhere.
`queue_liveness` injects no crash and no
database error: with either a row stays `running` for ever and nothing reaps it,
as the comment at `worker/preview.go:17` says.

## 4. Theorems

`JobQueueProofs`, for any number of replicas, jobs, slots, any cap and any set of
faults (assumption `JobQueueAssumption`; `OvershootIsBounded` asks that the set
of replicas be finite, `NothingIsAbandoned` that neither `"db"` nor `"stop"` be
among the faults):

- `TypeCorrect`, `SlotsAreAccounted`, `JobHasOneRunner`: `Spec => []Inv`;
- `NothingIsAbandoned`: `NothingFails => (Spec => []RunningIsExecuted)`;
- `EndedStaysEnded`: `Spec => [][...]_vars`;
- `QueueImplementsLifecycle`: `Spec => Lifecycle!Spec`, and
  `QueueImplementsRegistry`: `Spec => Registry!Spec`;
- `OvershootIsBounded`: `IsFiniteSet(Replicas) => (Spec => []OvershootBounded)`.

None of the invariants is inductive by itself. `IInv` joins five: the types; that
a row is absent exactly when its number exceeds `created` (`RowsExist`); that whoever executes a
job is the replica its row names and the row has left `pending` (`RunsItsClaim`);
that a locked row is pending and belongs to a claim in the state `locked`, one row
per claim (`LocksPending`); and the accounting of slots (`SlotsAccounted`). The
third needs the fourth: `ClaimCommit` starts a goroutine for a row that is still
pending because it was locked, so no other replica executes it. The proof has one
step per action; cardinalities are handled by a lemma on adding and removing one
live goroutine. `TypeOK`'s `slots[r] <= MaxConcurrent` follows from the guard of
`TryAcquire` alone, `slots[r] >= 0` only from the accounting.

The bound on previews is proved by counting units (`Load`). A claim whose snapshot
admits a job of the project weighs one unit, from the snapshot on; when it commits
the unit becomes the job's, and when the preview is registered it becomes the
preview's. Each of these is an exchange, other steps only remove units, and a
snapshot can add one only when it found fewer active previews than the cap: all
units that are not active previews are then slots of some limiter, so there are at
most `MaxConcurrent * Cardinality(Replicas)` of them (`PilesAreBounded`). The
invariant `SeenByClaim` says that a claim locks only what its snapshot admitted.

`EndedStaysEnded` (`TerminalIsFinal`) is no property of a run any more:
`ImplementsLifecycle`, which the run checks and `QueueImplementsLifecycle` proves,
allows no step that rewrites an end. `RunningIsExecuted` says that a row in
`running` is being executed by the replica it names. With a failed statement or
an exit it is false, as `ClaimAnswerLost` shows, and the run with those faults
cannot check it; without them it is the safety half of `RunningEnds`, and
inductive with `IInv` and every process being up (`HandedOver`). For the registry,
one lemma (`StepRegisters`) says for each step what it does to the stage and the
row of each job; that a job has one runner is what lets its `Stage` change only when
that runner moves.

`DeltaCoalescerProofs`, for any number of events and any buffer size:
`TypeCorrect`, `FlushesAreBounded`, `CoalescingKeepsOrder` and `StopKeepsTail`, for
deltas of any size and whatever posts fail. The inductive
invariant (`TypeOK`, `Contiguous` and `MutexHeld`) says that `sent \o posting \o
buffer`, and the event the read loop holds, are together exactly the numbers
`1..handled` in order, and relates the reader's position to the holder of the
mutex. `CoalescerRelays` proves the refinement of `EventRelay` from it, step by
step; `InOrder` and `TailIsKept` follow from the refinement too, and no run checks
them apart. `SomebodyFetchesTheBuffer` (`BufferIsTimed`) has an invariant of its
own, `Timed`: text in the buffer has a timer running or a callback waiting for the
mutex. Stopped timers whose callbacks lost their race only add callbacks, so none
of them can strand a delta. `DeltaIsForwarded` is this and fairness.

`AgentSessionProofs`, for any number of turns, any amount of prose, any capacity
of the channel and any faults:

- `OutcomesAgree`, `RunsCleanUp`, `EndsAreTold` and
  `SessionImplementsTranscript`, the refinement of `RunTranscript`, for every
  combination of faults, lost posts and failed creations included. The invariant
  `SInv` says what the run has posted at each position (`Story`: nothing before
  the pod, something but no end during the turns, the end that belongs to the
  result afterwards), that Pi is asked for the accounting only after the last
  turn (`NoStatsYet`), that a person's cancellation is behind every one that is
  reported (`Cancelled`), and when the pod exists (`PodInv`). One lemma
  (`Emits`) describes what anything Pi prints does to the channel: appended,
  dropped, or the end of the process.
- `SessionTyped` and `TurnsEndThemselves`, under the assumption of
  `DrainStaleEvents` about Pi (`~TrailsLate`). `TInv` adds to `SInv` how many
  turns there have been (`Counted`), that between turns no attach call is up and
  Pi is idle (`Still`), that the channel holds only the current turn's events
  (`OwnEvents`), and that what ends a turn is the last Pi prints in it (`InTurn`,
  `Ended`). Even the type of `turn` needs all of it: that there is no turn beyond
  the last prompt rests on no earlier question ending a later turn.
- `CallsAreExclusive` (`OneAttachCall`), `ResultsStand` (`ResultIsFinal`) and
  `OnlyLooseCallsPanic` (`PanicNeedsLooseCall`), with or without `TrailsLate`. Their
  invariant `CallInv` relates attach call, hang-up and the worker's position: a
  worker that waits has its one call or knows how it ended (`OneAttachCall`), the
  channel is closed and the watcher gone only outside the session (`Scoped`), and a
  result exists only on the way out (`Decided`). A result once decided is never
  rewritten, and the panic on the closed channel needs what the session gave up.

`ReplyPoolProofs`, for any finite set of sessions: `TypeCorrect` (with `Idle`: a
session that does not wait has no waiter), and `EarlyReplyIsDelivered` under
`Roomy`, two connections per session. With them a waiter that needs a connection
finds one, because the others hold at most one each for watching and one for
waiting; so no wait that began with its reply there reaches its deadline.
`pool_exhausted` shows that the premise is needed. `NobodyQueues`
(`ConnectionToSpare`, which has the premise in it) includes the poll loop: it adds
that a poll under way leaves a slot, hence a session without connections
(`SlotKept`). `WakeupsAreNotLost` (`NoLostWakeup`) holds for any pool: a sleeper
whose reply or cancellation is there has a notification buffered, because LISTEN
comes before the look. It is the safety half of `ReplyArrives` and `CancelArrives`.

`PreviewLifecycleProofs`, for any jobs and faults: `TypeCorrect`,
`SessionIsServed` and `RegistryIsTruthful`, which excepts what a sweep missed in a
replaced cluster. The invariant says that the sweep
knows a preview only from its registration on (`Known`), that what is on its list
was stale and stays so (`Listed`), that a preview nobody may take away is up as
far as it was brought up (`Up`), and that what was taken down stays down
(`Down`). `PreviewsImplementRegistry` is the refinement of `PreviewRegistry`; the
step of a crash is where the abstract module has to let any set of jobs go at once
(`Abandon`), and both ways down close a row only if it is active.

`RunArtifactsProofs`, for any faults, any deadline and grace, and any finite set
of steps: `TypeCorrect`, `ForkRunsInItsBranch`, `ForkRefusalIsTruthful`,
`PairIsReported`, `ReportsAreEstablished` and `GoodArtifactsStored`. The invariant
`IInv` has, besides the types, that one command of the preamble is outstanding at
a time (`OneAtATime`), that nothing is asked outside a turn (`Quiet`) and only
questions of the closing turn within it (`Asking`), which conversation is active
at each step and what an unread answer says of it (`Conversation`), and what has
been heard and reported (`Refusals`, `Listening`, `Reports`). `Conversation` is
the heart: a verification that reads `get_state` is sound because no answer to an
earlier command can still be on its way. `Kept` is a separate invariant about the
files; it counts the reads that can have hung as long as no upload has.

`RunInClusterProofs`, for any set of jobs, any faults and bounds:

- `LedgerIsTrue`, and `LiveRevisionIsRecorded` if fewer messages can be lost than
  a report is tried. `LedgerInv` says that revisions belong to the jobs that
  appended them, no two jobs share one, and relates position, result, row and
  attempts of each job; `NoReport` must not itself be a report.
- `OperationsExclude` (`OneOperation`), `ReleaseKeepsHistory` (`ImplementsHistory`)
  and `RollbackIsNearlyTrue` (`RollbackErrsForward`). `ReleaseInv` adds to
  `LedgerInv` that only the last revision may be pending, at most one is deployed
  and all but a first one were appended by a job (`OneAtATime`), that what a
  rollback is about to report is its own revision or one a different job appended
  later (`Hindsight`), and that a job which may still report has an attempt left
  (`Patience`). A job waits for the last revision and owns it, so no two wait. The third theorem is what
  is left of the claim `rollback_revision` refutes: a rollback's row without an
  error is right about the outcome and errs, if at all, towards a later revision.
- `ClustersAreRecent`: `CacheInv` says that a fresh client's kubeconfig was
  replaced no longer ago than its age and one fetch.
- `BuiltImageWasPushed` (`BuiltImageExists`), whatever the build Jobs are called,
  and from the same invariant (`BuildInv`) `BuiltImageIsOwn` where their names are
  distinct (`OwnNames`), which the code does not always make them.
- `ForeignLimitsSurvive`: `QuotaInv` says that an update finds a quota there.
- `TypeCorrect`, which joins the types of the four parts (`PlainTypes`) to those
  that `CacheInv`, `QuotaInv` and `LedgerInv` already contain.

Runs and theorems state nearly the same properties. Checked by the runs and proved
are all invariants, action properties and refinements. Proved but in no run are
the types of all modules but `JobQueue` and what the refinements imply (`InOrder`,
`TailIsKept`, `FlushIsBounded`, `TerminalIsFinal`), and, stated in the `...Proofs` modules beside
their proofs, `RunningIsExecuted`, `OneAttachCall`, `ResultIsFinal`,
`PanicNeedsLooseCall`, `OneOperation`, `RollbackErrsForward` and `OwnImage`.

Only model-checked: all liveness (`RunningEnds`, `OthersKeepFlowing`,
`QueuedIsClaimed`, `EveryRunEnds`, `CancelHeeded`, `WaitsEnd`, `ReplyArrives`,
`CancelArrives`, `DeltaIsForwarded`, `RegisteredIsCollected`), since fairness and
ENABLED are beyond the proof system. No module declares a RECURSIVE operator.

## 5. Not modelled

- *Preflight* (`worker/preflight.go`) and *merge conflict reports*
  (`worker/mergeconflicts.go`): advisory reads and posts that no other part reads
  back. *Capabilities*: one upsert on a ticker. *Configuration and the health
  endpoint*: read once, no state.
- *The blocking path of a Job* (`RunJob`, `jobrunner.go:186`), which runs
  `script_test_run` and the kinds without a configured image
  (`worker.go:510-531`): in `JobQueue` such a job is a run that ends. It watches no
  cancellation and deletes no Job; when its wait is cancelled, or the image of the
  pod cannot be pulled, the Job stays in the cluster. No other part reads it.
- *The API client* beyond the calls whose failure the modules model: HTTP
  encoding, headers and the remaining reads. The API's token cap is one answer of
  it (`Gate`).
- *Contents*: charts and values, prompts, the script of the build pod, which
  secrets the Secret holds, logs.
- *Sweep and test run in the cluster composition*: `PreviewLifecycle` has them
  with a cluster of its own, since previews and the primary release share nothing
  but the namespace.
- `stop`'s fall-through when `helm.NewConfiguration` fails (`preview.go:163-178`),
  which frees the row of a preview that was not removed, is not a step of the
  model because with the storage driver in use that call does not fail.

### Divergences without a run

Met while modelling; each is a reading of the code, not the result of a run.

- `docs/overview/setup.md:231` gives `MAX_CONCURRENT_PREVIEWS` as the number of
  previews of a project that are active at once; the admission check
  (`queue.go:159`) counts what is registered, so two jobs can be claimed before
  either is. `OvershootBounded` is what holds instead.
- `setup.md:235-237` says that what a crash leaves behind is swept; a release
  installed but not yet registered (`preview.go:253`) is invisible to the sweep.
- `specgrill.go:197-209`: a failed `CreateJob` posts no event, although 222-225
  say that no failure leaves a feature queued without one. A creation whose answer
  was lost leaves the Job itself as well, since its deletion is deferred afterwards.
  `EveryEndIsTold` and `RunCleansUp` except it.
- `specgrill.go:151-157`: a post that fails is logged and dropped, a "visibility
  gap" as the comment there has it. The one that tells the end of a run is no
  exception, although 166-173 and 222-225 count on it to move the feature on. 294,
  the accounting, is the same.
- `rpc/client.go:177-184`: an event the full channel drops is noted on `Errs`,
  which nothing reads; if it is `agent_settled` the turn never ends.
- `specgrill.go:249-260` reports every error of the preamble as stage "write",
  whatever stage it happened at (compare `fork.go:32-33`). `RefusalIsTruthful` is
  therefore about refusals, which carry their stage, and not about errors.
- `ParseSwitchSession` drops an answer `success: false` without data: the preamble
  waits out its deadline and then reports "write" instead of "switch".
- `fork.go:96-101`: `forkTurnTimeout` "bounds the whole fork preamble" and covers
  "four round trips plus a pod exec"; it starts at 153, after the exec at 143 and the
  fetch before it, either of which may hang and hold the slot.
- `rpc/fork.go:139-144`: a fork that succeeds without data gives an empty prompt,
  and the run starts with it.
- `screenshots.go:92-94`, 101-106: no wedged exec consumes the whole batch, but an
  upload that hangs does: it runs under the context of the batch (297) with a client
  that has no timeout (`apiclient/client.go:31`).
- `specgrill.go:210-218` and 294: the deletion of the Job and the post of the
  accounting run under a background context without a deadline.
- `deltas.go:32` and 53 call the limit a bound on one flush; `add` compares after
  the append (115-118), so a flush may exceed it by most of a delta.
- `main.go:108-116`: `main` waits for its web server and for no job; what a run was
  about to delete, collect or report is left.
- `setupForkForJob` discards the session that `forkSetup` returns
  (`fork.go:71-76`).
- `usage.go:257-264`: during the grace of the third answer an end of the attach
  call loses the two answers already read (compare 125-130 and 178-180). A
  person's cancellation during the closing turn loses the accounting too.
- `collectSession` returns before `reportForkPoints` when the session has no
  known file, although `specgrill.go:768-786` announces the report in any case.
- `sessionReadLimit` (256 MiB, `sessions.go:22`) is never used: the session is
  read with the recording's limit of 64 MiB (`recordings.go:43-58`). A stored
  session above 64 MiB is cut without an error when it is fetched
  (`client.go:1173`). Both matter only when `SESSION_MAX_BYTES` is raised.
- `mergeconflicts.go:91` uses a background context without a deadline, on the
  goroutine that reads the session's events; `apiclient/client.go:31` has no HTTP
  timeout.
- `imagebuild/build.go:223` says that `deleteJob` waits; it does not, so that the
  new Job may find pods of the old one under its label. `imagebuild.go:112-114` has
  a retry replace "its own Job"; the cut at 63 characters (126-128) can give two
  jobs one name, and then one job replaces the other's build, or takes its pod's
  success for its own and deploys an image reference nobody pushed.
- `clusters.go:74-75`: a client somebody else built meanwhile is reused "if it's
  still fresh for the same kubeconfig". No kubeconfig is compared, so a job that
  has just fetched a new one may be given a client of the old one.
  `ClusterIsRecent` bounds how old, and no more.
- `preview.go:274-278`: the preview of a cluster that was replaced stays there when
  the sweep closes its row. The comment says so; `setup.md:235-237` does not.
- Two concurrent deploys may leave a live release whose `secretsChecksum` is not
  that of the Secret, and an older fetch of the secrets may overwrite a newer one.
- A rollback whose history cannot be read back is reported as failed although it
  is live (`deploy.go:106-125`).
- A process that dies during an upgrade leaves a pending revision; Helm refuses
  every later upgrade, and nothing in the code repairs it.
- A quota created by another job between the read and the create is taken as it
  is, whatever it says (`namespace.go`).
