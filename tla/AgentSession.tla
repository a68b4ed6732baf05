----------------------------- MODULE AgentSession -----------------------------
(***************************************************************************)
(* One agent run driven over Pi's RPC protocol (worker/specgrill.go,       *)
(* rpc/client.go, k8s/attach.go, worker/replytimeout.go, worker/usage.go). *)
(*                                                                         *)
(* The actors are the job's goroutine (pc), the goroutine that watches for *)
(* a cancellation, the goroutine of the current attach call, which copies  *)
(* what Pi prints into a bounded channel, Pi in its pod, and the API with  *)
(* the people behind it.  A turn is one attach call.  What Pi prints is    *)
(* reduced to what the read loop tells apart.                              *)
(***************************************************************************)
EXTENDS Naturals, Sequences

CONSTANTS
    MaxTurns,     \* bound: prompts Pi is ever sent
    MaxProse,     \* bound: pieces of prose Pi prints in a turn
    EventBuffer,  \* capacity of the Events channel
    Forked,       \* the run resumes a stored session
    TrailsLate,   \* Pi's own end-of-turn events may outlast the attach call
    BigPrompts,   \* the turns whose prompt exceeds the buffer of the pipe
    Faults        \* which faults the environment may inject

ASSUME AgentSessionAssumption ==
    /\ MaxTurns \in Nat \ {0}
    /\ MaxProse \in Nat
    /\ EventBuffer \in Nat \ {0}
    /\ Forked \in BOOLEAN
    /\ TrailsLate \in BOOLEAN
    /\ BigPrompts \subseteq 1..MaxTurns
    /\ Faults \subseteq {"setup", "create", "pod", "attach", "grace", "db", "delete", "post",
                        "stop"}

VARIABLES
    pc,         \* where runAgentRPCJob is
    turn,       \* attach calls made so far
    ending,     \* the event that ended the turn, and the turn that printed it
    result,     \* how runAgentRPCJob returned
    events,     \* the client's Events channel
    closed,     \* the channel was closed
    overrun,    \* the full channel dropped this turn's agent_settled
    attach,     \* the current attach call
    hangup,     \* attachErr: what the attach call returned
    pod,        \* the run's pod
    pi,         \* Pi: prompts read, what it is doing, how much it said
    row,        \* jobs.status
    watch,      \* WatchCancellation is running
    cancelled,  \* the watcher saw a cancellation and cancelled the run
    stopped,    \* the process is shutting down: its context is cancelled
    reply,      \* a person's answer waits undelivered
    posts,      \* the events posted to the API, and which of them arrived
    panicked    \* a send on the closed channel took the process down

session == <<pc, turn, ending, result>>
client  == <<events, closed, overrun>>
stream  == <<attach, hangup>>
people  == <<row, reply>>
signals == <<watch, cancelled, stopped>>
vars    == <<session, client, stream, pod, pi, people, signals, posts, panicked>>

(* Mutant: agent_settled is taken for prose.                               *)
ForwardedSettled == {"agent_text", "settled"}

Forwarded == {"agent_text"}
Terminals == {"submit", "build_failed", "run_failed"}
TurnEnds  == {"ask_user"} \cup Terminals
Printed   == Forwarded \cup TurnEnds \cup {"settled", "stats"}
NoEnding  == [kind |-> "none", turn |-> 0]
Endings   == Terminals \cup {"fork_failed", "run_cancelled"}
Over      == {"done", "killed"}

(* Every variable keeps its type, and the channel its capacity.            *)
TypeOK ==
    /\ pc \in {"env", "create", "wait", "fork", "begin", "send", "read", "close", "reply",
               "stats", "readStats", "closeStats", "leave", "delete"} \cup Over
    /\ turn \in 0..(MaxTurns + 1)
    /\ ending \in [kind : TurnEnds, turn : 1..MaxTurns] \cup {NoEnding}
    /\ result \in {"none", "ok", "failed", "cancelled"}
    /\ events \in Seq([kind : Printed, turn : 0..MaxTurns]) /\ Len(events) <= EventBuffer
    /\ closed \in BOOLEAN /\ overrun \in BOOLEAN
    /\ attach \in {"none", "open", "eof", "loose"}
    /\ hangup \in {"none", "clean", "error"}
    /\ pod \in {"none", "pending", "up", "dead", "gone", "left", "refused", "orphan"}
    /\ pi \in [turn : 0..MaxTurns, phase : {"idle", "busy", "trailing", "asked"}, said : 0..MaxProse]
    /\ row \in {"running", "cancelled"}
    /\ watch \in BOOLEAN /\ cancelled \in BOOLEAN /\ stopped \in BOOLEAN
    /\ reply \in BOOLEAN /\ panicked \in BOOLEAN

Init ==
    /\ pc = "env" /\ turn = 0 /\ ending = NoEnding /\ result = "none"
    /\ events = <<>> /\ closed = FALSE /\ overrun = FALSE
    /\ attach = "none" /\ hangup = "none"
    /\ pod = "none"
    /\ pi = [turn |-> 0, phase |-> "idle", said |-> 0]
    /\ row = "running" /\ reply = FALSE
    /\ watch = FALSE /\ cancelled = FALSE /\ stopped = FALSE
    /\ posts = <<>> /\ panicked = FALSE

-----------------------------------------------------------------------------
(* Before the session: environment, pod, and the restored session of a run *)
(* that resumes one.                                                       *)

(* The run posts an event.  PostJobEvent runs under the process's context, *)
(* and a post that fails is logged and dropped: nobody repeats it.         *)
Relay(event) ==
    \E arrived \in BOOLEAN :
        /\ arrived => ~stopped
        /\ ~arrived => stopped \/ "post" \in Faults
        /\ posts' = Append(posts, [event |-> event, arrived |-> arrived])

Return(res, next) == result' = res /\ pc' = next /\ UNCHANGED <<turn, ending>>

Go(next) == pc' = next /\ UNCHANGED <<turn, ending, result>>

(* Mutant: the environment cannot be built and nobody is told.             *)
EnvFailsSilently == Return("failed", "done") /\ UNCHANGED posts

EnvFails == Relay("run_failed") /\ Return("failed", "done")

BuildEnv ==
    /\ pc = "env"
    /\ \/ ~stopped /\ Go("create") /\ UNCHANGED posts
       \/ ("setup" \in Faults \/ stopped) /\ EnvFails
    /\ UNCHANGED <<client, stream, pod, pi, people, signals, panicked>>

(* A creation that is reported as failed may have made the Job all the     *)
(* same; the run returns before its deletion is deferred, and posts nothing.*)
CreateJob ==
    /\ pc = "create"
    /\ \/ ~stopped /\ pod' = "pending" /\ Go("wait")
       \/ /\ "create" \in Faults \/ stopped
          /\ pod' \in {"refused", "orphan"}
          /\ Return("failed", "done")
    /\ UNCHANGED <<client, stream, pi, people, signals, posts, panicked>>

(* Mutant: the deletion of the pod is deferred too late for this return.   *)
UnattachableLeaks == Relay("run_failed") /\ Return("failed", "done")

Unattachable == Relay("run_failed") /\ Return("failed", "delete")

(* A pod that is neither running nor failed is waited for, however long.   *)
WaitForJobPod ==
    /\ pc = "wait"
    /\ \/ pod = "up" /\ ~stopped /\ Relay("run_started") /\ Go("fork")
       \/ (pod = "dead" \/ stopped \/ "pod" \in Faults) /\ Unattachable
    /\ UNCHANGED <<client, stream, pod, pi, people, signals, panicked>>

(* setupForkForJob, then driveAgentSession starts the watcher.             *)
Preamble ==
    /\ pc = "fork"
    /\ \/ Go("begin") /\ watch' = TRUE /\ UNCHANGED posts
       \/ /\ Forked
          /\ Relay("fork_failed")
          /\ Return("failed", "delete")
          /\ UNCHANGED watch
    /\ UNCHANGED <<client, stream, pod, pi, people, cancelled, stopped, panicked>>

-----------------------------------------------------------------------------
(* A turn.                                                                 *)

(* Mutant: the session does not look at its own cancellation.              *)
RunDoneUnlessCancelled == stopped

RunDone == cancelled \/ stopped

(* reportSessionError: the deferred cancel of the turn lets go of an       *)
(* attach call that has not returned, without waiting for it.              *)
SessionError ==
    /\ Relay(IF cancelled THEN "run_cancelled" ELSE "run_failed")
    /\ Return(IF cancelled THEN "cancelled" ELSE "failed", "leave")
    /\ attach' = IF attach = "none" THEN "none" ELSE "loose"
    /\ UNCHANGED <<client, hangup, pod, pi, people, signals, panicked>>

(* Mutant: a turn begins with what the last one left in the channel.       *)
KeepStaleEvents == UNCHANGED events

(* Whatever an earlier turn left in the channel is discarded before this   *)
(* turn prints anything.                                                   *)
DrainStaleEvents == events' = <<>>

Open(next) ==
    /\ DrainStaleEvents
    /\ overrun' = FALSE
    /\ turn' = turn + 1
    /\ attach' = "open"
    /\ hangup' = "none"
    /\ pc' = next

BeginTurn ==
    /\ pc = "begin"
    /\ Open("send")
    /\ ending' = NoEnding
    /\ UNCHANGED <<result, closed, pod, pi, people, signals, posts, panicked>>

(* The pipe buffers the prompt, or the attach call reads it: there is no   *)
(* select here, and the client holds the read end open.                    *)
Taken == turn \notin BigPrompts \/ (attach = "open" /\ pod = "up")

Send ==
    /\ pc = "send"
    /\ Taken
    /\ Go("read")
    /\ UNCHANGED <<client, stream, pod, pi, people, signals, posts, panicked>>

Next1 == Head(events)

Forward ==
    /\ pc = "read"
    /\ events # <<>> /\ Next1.kind \in Forwarded
    /\ Relay(Next1.kind)
    /\ events' = Tail(events)
    /\ UNCHANGED <<session, closed, overrun, stream, pod, pi, people, signals, panicked>>

(* The event that ends a turn: a contract tool, an error of the agent, or  *)
(* agent_settled, which means that no contract tool is coming.             *)
EndTurn ==
    /\ pc = "read"
    /\ events # <<>> /\ Next1.kind \notin Forwarded
    /\ ending' = [kind |-> IF Next1.kind = "settled" THEN "run_failed" ELSE Next1.kind,
                  turn |-> Next1.turn]
    /\ events' = Tail(events)
    /\ attach' = IF attach = "open" THEN "eof" ELSE attach
    /\ pc' = "close"
    /\ UNCHANGED <<turn, result, closed, overrun, hangup, pod, pi, people, signals, posts, panicked>>

(* The select may prefer a hang-up or a done context to a waiting event.   *)
BreakTurn ==
    /\ pc = "read"
    /\ hangup # "none" \/ RunDone
    /\ SessionError

(* Mutant: a failed build counts as a result.                              *)
OutcomeOfAnySubmit(kind) == IF kind \in {"submit", "build_failed"} THEN "ok" ELSE "failed"

Outcome(kind) == IF kind = "submit" THEN "ok" ELSE "failed"

(* closeOutTurn, and what driveAgentSession does with the event.           *)
CloseTurn ==
    /\ pc = "close"
    /\ hangup = "clean"
    /\ Relay(ending.kind)
    /\ \/ ending.kind \in Terminals /\ Return(Outcome(ending.kind), "stats")
       \/ ending.kind = "ask_user" /\ Go("reply")
    /\ UNCHANGED <<client, stream, pod, pi, people, signals, panicked>>

FailToClose ==
    /\ pc = "close"
    /\ hangup = "error" \/ RunDone \/ ("grace" \in Faults /\ hangup = "none")
    /\ SessionError

(* waitForReplyOnce.                                                       *)
TakeReply ==
    /\ pc = "reply"
    /\ reply /\ ~RunDone
    /\ reply' = FALSE
    /\ Go("begin")
    /\ UNCHANGED <<client, stream, pod, pi, row, signals, posts, panicked>>

(* The deadline of this one question passes, or the wait for it fails.     *)
ReplyTimeout ==
    /\ pc = "reply"
    /\ SessionError

(* The wait ends because the run is over.                                  *)
ReplyFails ==
    /\ pc = "reply" /\ RunDone
    /\ SessionError

-----------------------------------------------------------------------------
(* After the last turn: the session's accounting, then the way out.        *)

BeginStats ==
    /\ pc = "stats"
    /\ Open("readStats")
    /\ UNCHANGED <<ending, result, closed, pod, pi, people, signals, posts, panicked>>

(* Any other line on the stream is skipped.                                *)
ReadStats ==
    /\ pc = "readStats"
    /\ events # <<>>
    /\ events' = Tail(events)
    /\ IF Next1.kind = "stats"
       THEN pc' = "closeStats" /\ attach' = IF attach = "open" THEN "eof" ELSE attach
       ELSE UNCHANGED <<pc, attach>>
    /\ UNCHANGED <<turn, ending, result, closed, overrun, hangup, pod, pi, people, signals, posts,
                   panicked>>

(* Mutant: a failed fetch of the accounting is reported as a failed run.   *)
EndStatsReported ==
    /\ pc = "readStats"
    /\ attach' = IF attach = "none" THEN "none" ELSE "loose"
    /\ Relay("run_failed")
    /\ Go("leave")
    /\ UNCHANGED <<client, hangup, pod, pi, people, signals, panicked>>

(* The fetch is bounded by a timeout of its own, and its failure is only   *)
(* logged.                                                                 *)
EndStats ==
    /\ \/ pc = "readStats"
       \/ pc = "closeStats" /\ (hangup # "none" \/ RunDone \/ "grace" \in Faults)
    /\ attach' = IF attach = "none" THEN "none" ELSE "loose"
    /\ Go("leave")
    /\ UNCHANGED <<client, hangup, pod, pi, people, signals, posts, panicked>>

(* driveAgentSession returns: its context is cancelled and the client      *)
(* closed, in this order.                                                  *)
Leave ==
    /\ pc = "leave"
    /\ closed' = TRUE
    /\ watch' = FALSE
    /\ Go("delete")
    /\ UNCHANGED <<events, overrun, stream, pod, pi, people, cancelled, stopped, posts, panicked>>

(* The artifacts are read from the pod, then it is deleted, whatever       *)
(* happened to the process's context.                                      *)
DeleteJob ==
    /\ pc = "delete"
    /\ pod' = "gone" \/ ("delete" \in Faults /\ pod' = "left")
    /\ Go("done")
    /\ UNCHANGED <<client, stream, pi, people, signals, posts, panicked>>

-----------------------------------------------------------------------------
(* The attach call.  Unless TrailsLate it does not return cleanly before   *)
(* Pi has printed the bookkeeping of the turn it concluded.                *)

Clean == TrailsLate \/ pi.phase # "trailing" \/ pod # "up"

Dead == pod \in {"dead", "gone"}

AttachReturns ==
    /\ \/ attach = "eof" /\ Clean
       \/ attach \in {"open", "eof"} /\ Dead
    /\ attach' = "none"
    /\ hangup' = "clean" \/ (Dead /\ hangup' = "error")
    /\ UNCHANGED <<session, client, pod, pi, people, signals, posts, panicked>>

AttachBreaks ==
    /\ "attach" \in Faults
    /\ attach \in {"open", "eof"}
    /\ attach' = "none"
    /\ hangup' = "error" \/ (Clean /\ hangup' = "clean")
    /\ UNCHANGED <<session, client, pod, pi, people, signals, posts, panicked>>

LooseEnds ==
    /\ attach = "loose"
    /\ attach' = "none"
    /\ UNCHANGED <<session, client, hangup, pod, pi, people, signals, posts, panicked>>

Full == Len(events) >= EventBuffer

(* Client.Write and emit: a full channel drops the event, which is only    *)
(* noted, and a closed one panics.                                         *)
Emit(kind) ==
    LET event == [kind |-> kind, turn |-> pi.turn] IN
    IF attach = "none"
    THEN UNCHANGED <<session, client, stream, panicked>>
    ELSE IF closed
    THEN /\ panicked' = TRUE
         /\ pc' = "killed"
         /\ attach' = "none"
         /\ UNCHANGED <<turn, ending, result, client, hangup>>
    ELSE /\ events' = IF Full THEN events ELSE Append(events, event)
         /\ overrun' = (overrun \/ (Full /\ kind = "settled"))
         /\ UNCHANGED <<session, closed, stream, panicked>>

-----------------------------------------------------------------------------
(* Pi and its pod.                                                         *)

PiReads ==
    /\ pod = "up" /\ attach \in {"open", "eof", "loose"}
    /\ pi.phase = "idle" /\ pc \in {"read", "close"} /\ pi.turn < turn
    /\ pi' = [turn |-> turn, phase |-> "busy", said |-> 0]
    /\ UNCHANGED <<session, client, stream, pod, people, signals, posts, panicked>>

PiSpeaks ==
    /\ pod = "up" /\ pi.phase = "busy" /\ pi.said < MaxProse
    /\ pi' = [pi EXCEPT !.said = @ + 1]
    /\ Emit("agent_text")
    /\ UNCHANGED <<pod, people, signals, posts>>

(* A contract tool, a failed request, or nothing: the model stopped short. *)
PiConcludes ==
    /\ pod = "up" /\ pi.phase = "busy"
    /\ pi' = [pi EXCEPT !.phase = "trailing"]
    /\ \/ \E kind \in TurnEnds :
             /\ kind = "ask_user" => pi.turn < MaxTurns
             /\ Emit(kind)
       \/ UNCHANGED <<session, client, stream, panicked>>
    /\ UNCHANGED <<pod, people, signals, posts>>

PiSettles ==
    /\ pod = "up" /\ pi.phase = "trailing"
    /\ pi' = [pi EXCEPT !.phase = "idle"]
    /\ Emit("settled")
    /\ UNCHANGED <<pod, people, signals, posts>>

PiAnswersStats ==
    /\ pod = "up" /\ attach = "open" /\ pc = "readStats"
    /\ pi.phase = "idle"
    /\ pi' = [pi EXCEPT !.phase = "asked"]
    /\ Emit("stats")
    /\ UNCHANGED <<pod, people, signals, posts>>

PodRuns ==
    /\ pod = "pending"
    /\ pod' = "up"
    /\ UNCHANGED <<session, client, stream, pi, people, signals, posts, panicked>>

PodDies ==
    /\ "pod" \in Faults
    /\ pod \in {"pending", "up"}
    /\ pod' = "dead"
    /\ UNCHANGED <<session, client, stream, pi, people, signals, posts, panicked>>

-----------------------------------------------------------------------------
(* People, the watcher and the process.                                    *)

Cancel ==
    /\ row = "running" /\ pc \notin Over
    /\ row' = "cancelled"
    /\ UNCHANGED <<session, client, stream, pod, pi, reply, signals, posts, panicked>>

Reply ==
    /\ pc = "reply" /\ ~reply
    /\ reply' = TRUE
    /\ UNCHANGED <<session, client, stream, pod, pi, row, signals, posts, panicked>>

WatchSees ==
    /\ watch /\ row = "cancelled" /\ ~stopped
    /\ cancelled' = TRUE
    /\ watch' = FALSE
    /\ UNCHANGED <<session, client, stream, pod, pi, people, stopped, posts, panicked>>

(* The watch ends with an error, which nobody looks at.                    *)
WatchEnds ==
    /\ watch
    /\ "db" \in Faults \/ stopped
    /\ watch' = FALSE
    /\ UNCHANGED <<session, client, stream, pod, pi, people, cancelled, stopped, posts, panicked>>

Shutdown ==
    /\ "stop" \in Faults /\ ~stopped
    /\ stopped' = TRUE
    /\ UNCHANGED <<session, client, stream, pod, pi, people, watch, cancelled, posts, panicked>>

(* main returns without waiting for the goroutines.                        *)
Exit ==
    /\ stopped /\ pc \notin Over
    /\ pc' = "killed"
    /\ attach' = "none"
    /\ watch' = FALSE
    /\ UNCHANGED <<turn, ending, result, client, hangup, pod, pi, people, cancelled, stopped, posts, panicked>>

-----------------------------------------------------------------------------
Worker ==
    \/ BuildEnv \/ CreateJob \/ WaitForJobPod \/ Preamble
    \/ BeginTurn \/ Send \/ Forward \/ EndTurn \/ BreakTurn \/ CloseTurn \/ FailToClose
    \/ TakeReply \/ ReplyFails
    \/ BeginStats \/ ReadStats \/ EndStats \/ Leave \/ DeleteJob

Attach == AttachReturns \/ LooseEnds

Pi == PiReads \/ PiSpeaks \/ PiConcludes \/ PiSettles \/ PiAnswersStats

Next ==
    \/ Worker \/ ReplyTimeout
    \/ Attach \/ AttachBreaks \/ Pi
    \/ PodRuns \/ PodDies
    \/ Cancel \/ Reply \/ WatchSees \/ WatchEnds \/ Shutdown \/ Exit

Spec == Init /\ [][Next]_vars

(* The goroutines of the process and of kubelet keep running; nothing is   *)
(* assumed of Pi, of the people, or of the deadline of a question.         *)
FairSpec == Spec /\ WF_vars(Worker) /\ WF_vars(Attach) /\ WF_vars(PodRuns) /\ WF_vars(WatchSees)

-----------------------------------------------------------------------------
(* Every turn is ended by something printed in that turn: an earlier       *)
(* turn's own agent_end or agent_settled never ends the next one           *)
(* (rpc/client.go, DrainStaleEvents).                                      *)
NoStaleEnd == pc = "close" => ending.turn = turn

(* How a run returns, by the event that says so.                           *)
ResultOf(event) ==
    CASE event = "submit" -> "ok" [] event = "run_cancelled" -> "cancelled" [] OTHER -> "failed"

(* The queue row and what the API is told never disagree about how a run   *)
(* ended, although the events of a run may be lost: an ending is posted at *)
(* most once and nothing after it, it is the one the run returns with, and *)
(* a run is reported cancelled only if a person cancelled it.              *)
OutcomeAgrees ==
    /\ result = "cancelled" => row = "cancelled"
    /\ \A i \in 1..Len(posts) :
          posts[i].event \in Endings => i = Len(posts) /\ result = ResultOf(posts[i].event)

(* Every way out of a run goes past the deletion of its pod: a run that    *)
(* returned has asked for it, unless the creation of the Job was reported  *)
(* to it as failed, when a Job that was made all the same is left behind.  *)
RunCleansUp == pc = "done" => pod \in {"none", "gone", "left", "refused", "orphan"}

Told == posts # <<>> /\ posts[Len(posts)].event \in Endings

(* No run returns without posting how it ended (specgrill.go: the feature  *)
(* would be left queued for ever), except where the creation of the Job    *)
(* fails.  The API hears of the end unless that one post is lost.          *)
EveryEndIsTold == pc = "done" => Told \/ pod \in {"refused", "orphan"}

PiFinishes == WF_vars(Pi)

QuestionsExpire == WF_vars(ReplyTimeout)

(* The prompt is larger than the pipe's buffer and nobody reads it.        *)
Stuck == pc = "send" /\ ~Taken

(* A run ends, provided Pi finishes what it is asked, the deadline of a    *)
(* question expires and posts return.  A run that does not waits for ever  *)
(* for the end of a turn whose agent_settled the full channel dropped, or  *)
(* to write a prompt into a pipe that nobody reads: in no other place.     *)
EveryRunEnds ==
    PiFinishes /\ QuestionsExpire =>
        <>(pc \in Over) \/ <>[](pc = "read" /\ overrun) \/ <>[]Stuck

Unwatched == ~watch /\ ~cancelled

(* Once the watcher is up a cancelled run ends, even if Pi hangs and       *)
(* nobody answers its question, unless the watcher itself fails or the run *)
(* is writing a prompt into a pipe that nobody reads.                      *)
CancelHeeded == (watch /\ row = "cancelled") ~> (pc \in Over \/ Unwatched \/ Stuck)

Transcript == INSTANCE RunTranscript WITH asking <- (pc = "reply")

(* What a run tells the API is the transcript RunTranscript promises, with *)
(* gaps where a post was lost.                                             *)
ImplementsTranscript == Transcript!Spec
=============================================================================
