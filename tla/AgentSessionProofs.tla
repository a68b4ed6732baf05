-------------------------- MODULE AgentSessionProofs --------------------------
(***************************************************************************)
(* Proofs about AgentSession, for any number of turns, any amount of prose,*)
(* any capacity of the channel, and any faults.                            *)
(***************************************************************************)
EXTENDS AgentSession, TLAPS

Early   == {"env", "create", "wait"}
Talking == {"fork", "begin", "send", "read", "close", "reply"}
Closing == {"stats", "readStats", "closeStats", "leave", "delete", "done"}
Tellable == {"run_started", "agent_text", "ask_user"} \cup Endings
Post     == [event : Tellable, arrived : BOOLEAN]
Phases   == {"idle", "busy", "trailing", "asked"}

(* The types the story depends on; the bounds on turns come later.         *)
Shape ==
    /\ pc \in Early \cup Talking \cup Closing \cup {"killed"}
    /\ turn \in Nat
    /\ pi \in [turn : Nat, phase : Phases, said : Nat]
    /\ events \in Seq([kind : Printed, turn : Nat])
    /\ posts \in Seq(Post)

(* No ending has been posted yet.                                          *)
Untold == \A i \in 1..Len(posts) : posts[i].event \notin Endings

(* One ending, the last post, and the one the run returns with.            *)
OneEnd ==
    \A i \in 1..Len(posts) :
        posts[i].event \in Endings => i = Len(posts) /\ result = ResultOf(posts[i].event)

(* What the run has told, by where it is.                                  *)
Story ==
    /\ OneEnd
    /\ pc \in Early => posts = <<>>
    /\ pc \in Talking => posts # <<>> /\ Untold
    /\ pc \in Closing => Told \/ (pc = "done" /\ pod \in {"refused", "orphan"})

(* Pi is asked for the accounting after the last turn only.                *)
NoStatsYet ==
    /\ pc \in Early \cup Talking \cup {"stats"} =>
          \A i \in 1..Len(events) : events[i].kind # "stats"
    /\ pc = "close" => ending.kind \in TurnEnds

(* A person's cancellation is behind every one that is reported.           *)
Cancelled == cancelled \/ result = "cancelled" => row = "cancelled"

(* The pod exists between its creation and its deletion.                   *)
PodInv ==
    /\ pc \in {"env", "create"} => pod = "none"
    /\ pc = "done" => pod \in {"none", "gone", "left", "refused", "orphan"}

SInv == Shape /\ Story /\ NoStatsYet /\ Cancelled /\ PodInv

-----------------------------------------------------------------------------
(* The turns, if Pi's bookkeeping does not trail the attach call.          *)

(* How many turns there have been.                                         *)
Counted ==
    /\ pc \in Early \cup {"fork"} => turn = 0
    /\ pc \in {"begin", "reply"} => turn < MaxTurns
    /\ pc \in {"send", "read", "close"} => turn \in 1..MaxTurns
    /\ pc = "stats" => turn <= MaxTurns

(* Between turns no attach call is up and Pi has nothing to print.         *)
Still ==
    /\ pc \in Early \cup {"fork", "begin", "reply", "stats"} =>
          attach = "none" /\ (pod \in {"none", "pending", "up"} => pi.phase = "idle")
    /\ hangup # "none" => attach = "none"
    /\ pc \in Talking \cup {"stats"} => pod \notin {"none", "pending"}

(* In a turn the channel holds that turn's events and no others.           *)
OwnEvents ==
    pc \in {"send", "read", "close"} =>
        \A i \in 1..Len(events) :
            /\ events[i].turn = turn
            /\ events[i].kind = "ask_user" => turn < MaxTurns

(* The turn has printed what ends it.                                      *)
Concluded == pc = "close" \/ \E i \in 1..Len(events) : events[i].kind \notin Forwarded

(* What Pi is doing in a turn.                                             *)
InTurn ==
    pc \in {"send", "read", "close"} /\ pod = "up" =>
        /\ pi.phase = "idle" \/ (pi.phase \in {"busy", "trailing"} /\ pi.turn = turn)
        /\ Concluded => /\ pi.turn = turn /\ pi.phase # "busy"
                        /\ hangup = "clean" => pi.phase = "idle"

Ended ==
    pc = "close" => ending.turn = turn /\ (ending.kind = "ask_user" => turn < MaxTurns)

TInv == SInv /\ TypeOK /\ Counted /\ Still /\ OwnEvents /\ InTurn /\ Ended

-----------------------------------------------------------------------------
(* Sequences.                                                              *)

LEMMA TailSeq ==
    ASSUME NEW S, NEW s \in Seq(S), s # <<>>
    PROVE  /\ Head(s) = s[1] /\ s[1] \in S /\ 1 \in 1..Len(s)
           /\ Tail(s) \in Seq(S)
           /\ Len(Tail(s)) = Len(s) - 1
           /\ \A i \in 1..Len(Tail(s)) : i + 1 \in 1..Len(s) /\ Tail(s)[i] = s[i + 1]
OBVIOUS

LEMMA AppendSeq ==
    ASSUME NEW S, NEW s \in Seq(S), NEW e \in S
    PROVE  /\ Append(s, e) \in Seq(S) /\ Append(s, e) # <<>>
           /\ Len(Append(s, e)) = Len(s) + 1
           /\ Append(s, e)[Len(Append(s, e))] = e
           /\ \A i \in 1..Len(Append(s, e)) :
                 \/ i \in 1..Len(s) /\ Append(s, e)[i] = s[i]
                 \/ i = Len(s) + 1 /\ Append(s, e)[i] = e
OBVIOUS

(* Nothing but the event is added to what was told, arrived or lost.       *)
LEMMA Relays ==
    ASSUME Shape, NEW event \in Tellable, Relay(event)
    PROVE  /\ posts' \in Seq(Post) /\ posts' # <<>>
           /\ posts'[Len(posts')].event = event
           /\ \A i \in 1..Len(posts') :
                 \/ i \in 1..Len(posts) /\ posts'[i] = posts[i]
                 \/ i = Len(posts') /\ posts'[i].event = event
<1>1. PICK arrived \in BOOLEAN : posts' = Append(posts, [event |-> event, arrived |-> arrived])
    BY DEF Relay
<1>. DEFINE post == [event |-> event, arrived |-> arrived]
<1>2. post \in Post /\ post.event = event BY DEF Post
<1>3. posts \in Seq(Post) /\ posts' = Append(posts, post) BY <1>1 DEF Shape
<1>. HIDE DEF post
<1>4. /\ posts' \in Seq(Post) /\ posts' # <<>>
      /\ Len(posts') = Len(posts) + 1
      /\ posts'[Len(posts')] = post
      /\ \A i \in 1..Len(posts') :
            \/ i \in 1..Len(posts) /\ posts'[i] = posts[i]
            \/ i = Len(posts) + 1 /\ posts'[i] = post
    BY <1>2, <1>3, AppendSeq
<1>. QED BY <1>2, <1>4

(* An event that ends nothing leaves the story open.                       *)
LEMMA StillUntold ==
    ASSUME Shape, Untold, NEW event \in Tellable \ Endings, Relay(event)
    PROVE  /\ posts' \in Seq(Post) /\ posts' # <<>>
           /\ Untold' /\ OneEnd'
<1>1. Untold' BY Relays DEF Untold
<1>. QED BY <1>1, Relays DEF Untold, OneEnd

(* What Pi prints is added to the channel, dropped, or takes the process   *)
(* down.                                                                   *)
Emission(kind) ==
    /\ UNCHANGED <<turn, ending, result, hangup, closed>>
    /\ \/ pc' = pc /\ attach' = attach
       \/ pc' = "killed" /\ attach' = "none"
    /\ events' \in Seq([kind : Printed, turn : Nat])
    /\ Len(events') <= EventBuffer \/ events' = events
    /\ \A i \in 1..Len(events') :
          \/ i \in 1..Len(events) /\ events'[i] = events[i]
          \/ events'[i] = [kind |-> kind, turn |-> pi.turn] /\ attach # "none"

LEMMA Emits ==
    ASSUME Shape, NEW kind \in Printed, Emit(kind)
    PROVE  Emission(kind)
<1>. DEFINE event == [kind |-> kind, turn |-> pi.turn]
<1>. USE DEF Shape, session, client, stream
<1>0. event \in [kind : Printed, turn : Nat] OBVIOUS
<1>1. CASE attach = "none" BY <1>1 DEF Emit, Emission
<1>2. CASE attach # "none" /\ closed BY <1>2 DEF Emit, Emission
<1>3. CASE attach # "none" /\ ~closed
  <2>1. /\ events' = IF Full THEN events ELSE Append(events, event)
        /\ UNCHANGED <<session, closed, stream, panicked>>
      BY <1>3 DEF Emit
  <2>2. CASE ~Full
    <3>1. events' = Append(events, event) BY <2>1, <2>2
    <3>0. Len(events) < EventBuffer BY <2>2, AgentSessionAssumption DEF Full
    <3>2. Len(events) \in Nat /\ Len(events') = Len(events) + 1 BY <1>0, <3>1, AppendSeq
    <3>3. events' \in Seq([kind : Printed, turn : Nat]) /\ Len(events') <= EventBuffer
        BY <1>0, <3>0, <3>1, <3>2, AppendSeq, AgentSessionAssumption
    <3>4. \A i \in 1..Len(events') :
            (i \in 1..Len(events) /\ events'[i] = events[i]) \/ events'[i] = event
        BY <1>0, <3>1, AppendSeq
    <3>. QED BY <1>3, <2>1, <3>3, <3>4 DEF Emission
  <2>3. CASE Full
    <3>1. events' = events BY <2>1, <2>3
    <3>. QED BY <2>1, <3>1 DEF Emission
  <2>. QED BY <2>2, <2>3
<1>. QED BY <1>1, <1>2, <1>3

-----------------------------------------------------------------------------
(* The story of a run.                                                     *)

LEMMA InitStory == Init => SInv
BY DEF Init, SInv, Shape, Story, OneEnd, NoStatsYet, Cancelled, PodInv, Early, Talking, Closing, Phases

(* What has been told, and how the run ended, stay as they are while       *)
(* nothing is posted.                                                      *)
LEMMA StoryKept ==
    ASSUME Story, UNCHANGED <<result, posts>>,
           pc = "done" /\ pc' = "done" => pod' = pod,
           \/ pc' = pc \/ pc' = "killed"
           \/ pc \in Early /\ pc' \in Early
           \/ pc \in Talking /\ pc' \in Talking
           \/ pc \in Closing \ {"done"} /\ pc' \in Closing
    PROVE  Story'
BY DEF Story, OneEnd, Untold, Told, Early, Talking, Closing

LEMMA OthersStory ==
    ASSUME SInv,
           \/ AttachReturns \/ AttachBreaks \/ LooseEnds \/ PiReads \/ PodRuns \/ PodDies
           \/ Cancel \/ Reply \/ WatchSees \/ WatchEnds \/ Shutdown \/ Exit
           \/ UNCHANGED vars
    PROVE  SInv'
<1>. USE DEF SInv, vars, session, client, stream, people, signals
<1>1. /\ UNCHANGED <<turn, ending, result, events, posts>>
      /\ pc' = pc \/ pc' = "killed"
      /\ pc = "done" /\ pc' = "done" => pod' = pod
    BY DEF PodInv, AttachReturns, AttachBreaks, LooseEnds, PiReads, PodRuns, PodDies, Cancel,
           Reply, WatchSees, WatchEnds, Shutdown, Exit
<1>2. pi' \in [turn : Nat, phase : Phases, said : Nat]
  <2>1. CASE PiReads BY <2>1 DEF PiReads, Shape, Phases
  <2>2. CASE ~PiReads
    <3>1. pi' = pi
        BY <2>2 DEF AttachReturns, AttachBreaks, LooseEnds, PodRuns, PodDies, Cancel,
               Reply, WatchSees, WatchEnds, Shutdown, Exit
    <3>. QED BY <3>1 DEF Shape
  <2>. QED BY <2>1, <2>2
<1>3. Shape' BY <1>1, <1>2 DEF Shape
<1>4. Story' BY <1>1, StoryKept
<1>5. NoStatsYet' BY <1>1 DEF NoStatsYet, Early, Talking
<1>6. Cancelled'
    BY DEF Cancelled, AttachReturns, AttachBreaks, LooseEnds, PiReads, PodRuns, PodDies,
           Cancel, Reply, WatchSees, WatchEnds, Shutdown, Exit
<1>7. PodInv'
    BY <1>1 DEF PodInv, AttachReturns, AttachBreaks, LooseEnds, PiReads, PodRuns, PodDies,
           Cancel, Reply, WatchSees, WatchEnds, Shutdown, Exit
<1>. QED BY <1>3, <1>4, <1>5, <1>6, <1>7

LEMMA PrintsStory ==
    ASSUME SInv, NEW kind \in Printed, kind = "stats" => pc = "readStats", Emission(kind),
           pi' \in [turn : Nat, phase : Phases, said : Nat],
           UNCHANGED <<pod, people, signals, posts>>
    PROVE  SInv'
<1>. USE DEF SInv, people, signals
<1>1. UNCHANGED <<turn, ending, result>> /\ (pc' = pc \/ pc' = "killed") BY DEF Emission
<1>2. Shape' BY <1>1 DEF Shape, Emission
<1>3. Story' BY <1>1, StoryKept
<1>4. NoStatsYet'
  <2>1. CASE pc' = "killed" BY <2>1 DEF NoStatsYet, Early, Talking
  <2>2. CASE pc' = pc
    <3>1. ASSUME NEW i \in 1..Len(events'), pc \in Early \cup Talking \cup {"stats"}
          PROVE  events'[i].kind # "stats"
      <4>1. kind # "stats" BY <3>1 DEF Early, Talking
      <4>. QED BY <3>1, <4>1 DEF Emission, NoStatsYet
    <3>. QED BY <1>1, <2>2, <3>1 DEF NoStatsYet
  <2>. QED BY <1>1, <2>1, <2>2
<1>5. Cancelled' /\ PodInv' BY <1>1 DEF Cancelled, PodInv
<1>. QED BY <1>2, <1>3, <1>4, <1>5

LEMMA PiTyped ==
    ASSUME pi \in [turn : Nat, phase : Phases, said : Nat]
    PROVE  /\ [pi EXCEPT !.said = @ + 1] \in [turn : Nat, phase : Phases, said : Nat]
           /\ \A phase \in Phases :
                 [pi EXCEPT !.phase = phase] \in [turn : Nat, phase : Phases, said : Nat]
<1>1. pi.said + 1 \in Nat OBVIOUS
<1>. QED BY <1>1

LEMMA PiStory ==
    ASSUME SInv, PiSpeaks \/ PiConcludes \/ PiSettles \/ PiAnswersStats
    PROVE  SInv'
<1>. USE DEF SInv, Shape, Phases, Printed, Forwarded, TurnEnds, Terminals
<1>1. CASE PiSpeaks
  <2>1. pi' \in [turn : Nat, phase : Phases, said : Nat] BY <1>1, PiTyped DEF PiSpeaks
  <2>2. UNCHANGED <<pod, people, signals, posts>> /\ Emit("agent_text") BY <1>1 DEF PiSpeaks
  <2>. QED BY <2>1, <2>2, Emits, PrintsStory
<1>2. CASE PiSettles
  <2>1. pi' \in [turn : Nat, phase : Phases, said : Nat] BY <1>2 DEF PiSettles
  <2>2. UNCHANGED <<pod, people, signals, posts>> /\ Emit("settled") BY <1>2 DEF PiSettles
  <2>. QED BY <2>1, <2>2, Emits, PrintsStory
<1>3. CASE PiAnswersStats
  <2>1. pi' \in [turn : Nat, phase : Phases, said : Nat] BY <1>3 DEF PiAnswersStats
  <2>2. UNCHANGED <<pod, people, signals, posts>> /\ Emit("stats") /\ pc = "readStats"
        BY <1>3 DEF PiAnswersStats
  <2>. QED BY <2>1, <2>2, Emits, PrintsStory
<1>4. CASE PiConcludes
  <2>1. pi' \in [turn : Nat, phase : Phases, said : Nat] BY <1>4 DEF PiConcludes
  <2>4. UNCHANGED <<pod, people, signals, posts>> BY <1>4 DEF PiConcludes
  <2>2. CASE \E kind \in TurnEnds : Emit(kind)
    <3>1. PICK kind \in TurnEnds : Emit(kind) BY <2>2
    <3>2. kind \in Printed /\ kind # "stats" OBVIOUS
    <3>. QED BY <2>1, <2>4, <3>1, <3>2, Emits, PrintsStory
  <2>3. CASE UNCHANGED <<session, client, stream, panicked>>
    <3>1. UNCHANGED <<pc, turn, ending, result, events>>
        BY <2>3 DEF session, client
    <3>2. Shape' BY <2>1, <2>4, <3>1
    <3>3. Story' BY <2>4, <3>1, StoryKept DEF signals
    <3>4. NoStatsYet' /\ Cancelled' /\ PodInv'
        BY <2>4, <3>1 DEF NoStatsYet, Cancelled, PodInv, people, signals
    <3>. QED BY <3>2, <3>3, <3>4
  <2>. QED BY <1>4, <2>2, <2>3 DEF PiConcludes
<1>. QED BY <1>1, <1>2, <1>3, <1>4

(* The goroutine of the job.  It takes events off the channel, and prints  *)
(* none.                                                                   *)
Fewer ==
    /\ events' \in Seq([kind : Printed, turn : Nat])
    /\ \A i \in 1..Len(events') : \E k \in 1..Len(events) : events'[i] = events[k]

LEMMA WorkerTakes ==
    ASSUME Shape, Worker \/ ReplyTimeout
    PROVE  Fewer /\ turn' \in Nat /\ pi' = pi
<1>. USE DEF Shape, session, client, stream, people, signals
<1>1. CASE BeginTurn \/ BeginStats
  <2>1. events' = <<>> /\ turn' = turn + 1 /\ pi' = pi
      BY <1>1 DEF BeginTurn, BeginStats, Open, DrainStaleEvents
  <2>. QED BY <2>1 DEF Fewer
<1>2. CASE Forward \/ EndTurn \/ ReadStats
  <2>1. events # <<>> /\ events' = Tail(events) /\ turn' = turn /\ pi' = pi
      BY <1>2 DEF Forward, EndTurn, ReadStats
  <2>2. events' \in Seq([kind : Printed, turn : Nat]) BY <2>1, TailSeq
  <2>3. ASSUME NEW i \in 1..Len(events')
        PROVE  \E k \in 1..Len(events) : events'[i] = events[k]
    <3>1. i + 1 \in 1..Len(events) /\ events'[i] = events[i + 1] BY <2>1, <2>3, TailSeq
    <3>. QED BY <3>1
  <2>. QED BY <2>1, <2>2, <2>3 DEF Fewer
<1>3. CASE \/ BuildEnv \/ CreateJob \/ WaitForJobPod \/ Preamble \/ Send \/ BreakTurn
           \/ CloseTurn \/ FailToClose \/ TakeReply \/ ReplyFails \/ EndStats \/ Leave
           \/ DeleteJob \/ ReplyTimeout
  <2>1. events' = events /\ turn' = turn /\ pi' = pi
      BY <1>3 DEF BuildEnv, EnvFails, CreateJob, WaitForJobPod, Unattachable, Preamble, Send,
             BreakTurn, CloseTurn, FailToClose, TakeReply, ReplyFails, EndStats, Leave,
             DeleteJob, ReplyTimeout, SessionError, Return, Go
  <2>. QED BY <2>1 DEF Fewer
<1>. QED BY <1>1, <1>2, <1>3 DEF Worker

LEMMA WorkerMoves ==
    ASSUME Shape, Worker \/ ReplyTimeout
    PROVE  /\ pc' \in Early \cup Talking \cup Closing \cup {"killed"}
           /\ UNCHANGED <<row, cancelled, stopped>>
           /\ result' = "cancelled" => cancelled \/ result = "cancelled"
           /\ pc' = "close" => EndTurn
           /\ pc' \in Early \cup Talking \cup {"stats"} => pc \in Early \cup Talking
           /\ pc' \in {"env", "create"} => pc = "env" /\ pod' = pod
           /\ pc' = "done" => \/ pc = "delete" \/ (pc = "env" /\ pod' = pod)
                             \/ pod' \in {"refused", "orphan"}
           /\ pc = "delete" => pod' \in {"gone", "left"}
<1>. USE DEF Shape, Early, Talking, Closing, session, client, stream, people, signals, Return, Go
<1>1. CASE BuildEnv \/ CreateJob \/ WaitForJobPod \/ Preamble
    BY <1>1 DEF BuildEnv, EnvFails, CreateJob, WaitForJobPod, Unattachable, Preamble
<1>2. CASE BeginTurn \/ BeginStats BY <1>2 DEF BeginTurn, BeginStats, Open
<1>6. CASE Send \/ TakeReply BY <1>6 DEF Send, TakeReply
<1>7. CASE Leave BY <1>7 DEF Leave
<1>8. CASE DeleteJob BY <1>8 DEF DeleteJob
<1>3. CASE Forward \/ EndTurn \/ ReadStats \/ EndStats
    BY <1>3 DEF Forward, EndTurn, ReadStats, EndStats
<1>4. CASE BreakTurn \/ FailToClose \/ ReplyFails \/ ReplyTimeout
    BY <1>4 DEF BreakTurn, FailToClose, ReplyFails, ReplyTimeout, SessionError
<1>5. CASE CloseTurn
    BY <1>5 DEF CloseTurn, Outcome
<1>. QED BY <1>1, <1>2, <1>3, <1>4, <1>5, <1>6, <1>7, <1>8 DEF Worker

(* A run ends with a post that agrees with how it returns.                 *)
LEMMA EndTold ==
    ASSUME Shape, Untold, NEW event \in Endings, Relay(event),
           pc' \in Closing, result' = ResultOf(event)
    PROVE  posts' \in Seq(Post) /\ Story'
<1>1. /\ posts' \in Seq(Post) /\ posts' # <<>>
      /\ posts'[Len(posts')].event = event
      /\ \A i \in 1..Len(posts') :
            \/ i \in 1..Len(posts) /\ posts'[i] = posts[i]
            \/ i = Len(posts') /\ posts'[i].event = event
    BY Relays DEF Tellable
<1>2. Told' BY <1>1 DEF Told
<1>3. OneEnd' BY <1>1 DEF OneEnd, Untold
<1>. QED BY <1>1, <1>2, <1>3 DEF Story, Early, Talking, Closing

LEMMA Results ==
    /\ ResultOf("submit") = "ok" /\ ResultOf("run_cancelled") = "cancelled"
    /\ \A event \in {"build_failed", "run_failed", "fork_failed"} : ResultOf(event) = "failed"
    /\ \A kind \in Terminals : Outcome(kind) = ResultOf(kind)
BY DEF ResultOf, Outcome, Terminals

LEMMA WorkerTells ==
    ASSUME SInv, Worker \/ ReplyTimeout
    PROVE  posts' \in Seq(Post) /\ Story'
<1>. USE DEF SInv
<1>0. posts \in Seq(Post) BY DEF Shape
<1>1. CASE \/ BeginTurn \/ BeginStats \/ Send \/ TakeReply \/ EndTurn \/ ReadStats \/ EndStats
           \/ Leave \/ DeleteJob
  <2>1. UNCHANGED <<result, posts>>
      BY <1>1 DEF BeginTurn, BeginStats, Open, Send, TakeReply, EndTurn, ReadStats, EndStats,
             Leave, DeleteJob, Go, session
  <2>2. \/ pc' = pc
        \/ pc \in Talking /\ pc' \in Talking
        \/ pc \in Closing \ {"done"} /\ pc' \in Closing
      BY <1>1 DEF BeginTurn, BeginStats, Open, Send, TakeReply, EndTurn, ReadStats, EndStats,
             Leave, DeleteJob, Go, session, Talking, Closing
  <2>3. ~(pc = "done" /\ pc' = "done")
      BY <1>1 DEF BeginTurn, BeginStats, Open, Send, TakeReply, EndTurn, ReadStats, EndStats,
             Leave, DeleteJob, Go
  <2>. QED BY <1>0, <2>1, <2>2, <2>3, StoryKept
<1>2. CASE BuildEnv
  <2>1. CASE EnvFails
    <3>1. Untold BY <1>2 DEF BuildEnv, Story, Early, Untold
    <3>. QED BY <2>1, <3>1, EndTold, Results DEF EnvFails, Return, Closing, Endings, Terminals
  <2>2. CASE ~EnvFails
    <3>1. UNCHANGED <<result, posts>> /\ pc = "env" /\ pc' = "create"
        BY <1>2, <2>2 DEF BuildEnv, Go
    <3>. QED BY <1>0, <3>1, StoryKept DEF Early
  <2>. QED BY <2>1, <2>2
<1>3. CASE CreateJob
  <2>1. pc = "create" /\ posts' = posts /\ posts = <<>>
      BY <1>3 DEF CreateJob, Story, Early
  <2>2. CASE pc' = "wait" /\ result' = result BY <1>0, <2>1, <2>2, StoryKept DEF Early
  <2>3. CASE pc' = "done" /\ pod' \in {"refused", "orphan"}
      BY <1>0, <2>1, <2>3 DEF Story, OneEnd, Early, Talking
  <2>. QED BY <1>3, <2>2, <2>3 DEF CreateJob, Go, Return
<1>4. CASE WaitForJobPod
  <2>0. Untold BY <1>4 DEF WaitForJobPod, Story, Early, Untold
  <2>1. CASE Unattachable
      BY <2>0, <2>1, EndTold, Results DEF Unattachable, Return, Closing, Endings, Terminals
  <2>2. CASE Relay("run_started") /\ Go("fork")
    <3>1. posts' \in Seq(Post) /\ posts' # <<>> /\ Untold' /\ OneEnd'
        BY <2>0, <2>2, StillUntold DEF Tellable, Endings, Terminals
    <3>. QED BY <2>2, <3>1 DEF Go, Story, Early, Talking, Closing
  <2>. QED BY <1>4, <2>1, <2>2 DEF WaitForJobPod
<1>5. CASE Preamble
  <2>0. Untold BY <1>5 DEF Preamble, Story, Talking
  <2>1. CASE Go("begin") /\ UNCHANGED posts
      BY <1>0, <1>5, <2>1, StoryKept DEF Preamble, Go, Talking
  <2>2. CASE Relay("fork_failed") /\ Return("failed", "delete")
      BY <2>0, <2>2, EndTold, Results DEF Return, Closing, Endings
  <2>. QED BY <1>5, <2>1, <2>2 DEF Preamble
<1>6. CASE Forward
  <2>1. Relay("agent_text") /\ pc = "read" /\ pc' = pc
      BY <1>6 DEF Forward, Forwarded, session
  <2>2. Untold BY <2>1 DEF Story, Talking
  <2>3. posts' \in Seq(Post) /\ posts' # <<>> /\ Untold' /\ OneEnd'
      BY <2>1, <2>2, StillUntold DEF Tellable, Endings, Terminals
  <2>. QED BY <2>1, <2>3 DEF Story, Early, Talking, Closing
<1>7. CASE CloseTurn
  <2>1. pc = "close" /\ ending.kind \in TurnEnds /\ Relay(ending.kind)
      BY <1>7 DEF CloseTurn, NoStatsYet
  <2>0. Untold BY <2>1 DEF Story, Talking
  <2>2. CASE ending.kind \in Terminals /\ Return(Outcome(ending.kind), "stats")
      BY <2>0, <2>1, <2>2, EndTold, Results DEF Return, Closing, Endings
  <2>3. CASE ending.kind = "ask_user" /\ Go("reply")
    <3>1. posts' \in Seq(Post) /\ posts' # <<>> /\ Untold' /\ OneEnd'
        BY <2>0, <2>1, <2>3, StillUntold DEF Tellable, Endings, Terminals
    <3>. QED BY <2>3, <3>1 DEF Go, Story, Early, Talking, Closing
  <2>. QED BY <1>7, <2>2, <2>3 DEF CloseTurn
<1>8. CASE BreakTurn \/ FailToClose \/ ReplyFails \/ ReplyTimeout
  <2>1. /\ Relay(IF cancelled THEN "run_cancelled" ELSE "run_failed")
        /\ Return(IF cancelled THEN "cancelled" ELSE "failed", "leave")
        /\ pc \in Talking
      BY <1>8 DEF BreakTurn, FailToClose, ReplyFails, ReplyTimeout, SessionError, Talking
  <2>0. Untold BY <2>1 DEF Story
  <2>2. CASE cancelled
      BY <2>0, <2>1, <2>2, EndTold, Results DEF Return, Closing, Endings
  <2>3. CASE ~cancelled
      BY <2>0, <2>1, <2>3, EndTold, Results DEF Return, Closing, Endings, Terminals
  <2>. QED BY <2>2, <2>3
<1>. QED BY <1>1, <1>2, <1>3, <1>4, <1>5, <1>6, <1>7, <1>8 DEF Worker

LEMMA WorkerStory ==
    ASSUME SInv, Worker \/ ReplyTimeout
    PROVE  SInv'
<1>. USE DEF SInv
<1>1. Shape' BY WorkerTakes, WorkerMoves, WorkerTells DEF Shape, Fewer
<1>2. Story' BY WorkerTells
<1>3. NoStatsYet'
  <2>1. ASSUME pc' \in Early \cup Talking \cup {"stats"}, NEW i \in 1..Len(events')
        PROVE  events'[i].kind # "stats"
    <3>1. pc \in Early \cup Talking BY <2>1, WorkerMoves
    <3>. QED BY <2>1, <3>1, WorkerTakes DEF Fewer, NoStatsYet
  <2>2. ASSUME pc' = "close" PROVE ending'.kind \in TurnEnds
    <3>1. EndTurn BY <2>2, WorkerMoves
    <3>2. pc = "read" /\ events # <<>> /\ events[1] \in [kind : Printed, turn : Nat]
          /\ Head(events) = events[1] /\ 1 \in 1..Len(events)
        BY <3>1, TailSeq DEF EndTurn, Shape
    <3>3. events[1].kind # "stats" BY <3>2 DEF NoStatsYet, Talking
    <3>4. events[1].kind \notin Forwarded
          /\ ending'.kind = IF events[1].kind = "settled" THEN "run_failed" ELSE events[1].kind
        BY <3>1, <3>2 DEF EndTurn, Next1
    <3>. QED BY <3>2, <3>3, <3>4 DEF Printed, TurnEnds, Terminals
  <2>. QED BY <2>1, <2>2 DEF NoStatsYet
<1>4. Cancelled' BY WorkerMoves DEF Cancelled
<1>5. PodInv' BY WorkerMoves DEF PodInv
<1>. QED BY <1>1, <1>2, <1>3, <1>4, <1>5

LEMMA StoryInvariance == Spec => []SInv
<1>1. SInv /\ [Next]_vars => SInv'
    BY WorkerStory, PiStory, OthersStory DEF Next, Attach, Pi
<1>. QED BY <1>1, InitStory, PTL DEF Spec

(* OutcomeAgrees: the row and what the API is told agree about how a run   *)
(* ended, whatever hangs up, is lost or is cancelled on the way, lost posts*)
(* included (worker/specgrill.go, reportSessionError, driveAgentSession).  *)
THEOREM OutcomesAgree == Spec => []OutcomeAgrees
<1>1. SInv => OutcomeAgrees
    BY DEF SInv, Story, OneEnd, Cancelled, OutcomeAgrees
<1>. QED BY <1>1, StoryInvariance, PTL

(* RunCleansUp: a run that returned has asked for the deletion of its pod, *)
(* unless the creation of its Job was reported as failed                   *)
(* (worker/specgrill.go, the deferred DeleteJob).                          *)
THEOREM RunsCleanUp == Spec => []RunCleansUp
<1>1. SInv => RunCleansUp
    BY DEF SInv, PodInv, RunCleansUp
<1>. QED BY <1>1, StoryInvariance, PTL

(* EveryEndIsTold: for every combination of faults, a run that returned has*)
(* posted how it ended, unless the creation of its Job was reported as     *)
(* failed (worker/specgrill.go).                                           *)
THEOREM EndsAreTold == Spec => []EveryEndIsTold
<1>1. SInv => EveryEndIsTold
    BY DEF SInv, Story, EveryEndIsTold, Closing
<1>. QED BY <1>1, StoryInvariance, PTL

-----------------------------------------------------------------------------
(* The transcript.                                                         *)

LEMMA SameEndings == Transcript!Endings = Endings
BY DEF Transcript!Endings, Endings, Terminals

LEMMA UntoldTranscript ==
    ASSUME posts \in Seq(Post), Untold
    PROVE  ~Transcript!Ended
<1>1. posts # <<>> => Len(posts) \in 1..Len(posts) OBVIOUS
<1>. QED BY <1>1, SameEndings DEF Untold, Transcript!Ended

LEMMA NoQuestion ==
    ASSUME SInv, UNCHANGED posts, pc' = pc \/ pc' # "reply"
    PROVE  [Transcript!Next]_(Transcript!vars)
<1>1. CASE (pc' = "reply") = (pc = "reply") BY <1>1 DEF Transcript!vars
<1>2. CASE pc = "reply" /\ pc' # "reply"
    BY <1>2 DEF Transcript!Next, Transcript!Answer
<1>. QED BY <1>1, <1>2

LEMMA Ending ==
    ASSUME SInv, NEW event \in Endings, Relay(event),
           pc \in {"env", "wait"} \cup Talking, pc' # "reply"
    PROVE  [Transcript!Next]_(Transcript!vars)
<1>1. ~Transcript!Ended
    BY UntoldTranscript DEF SInv, Shape, Story, Untold, Early
<1>2. Transcript!Post(event) BY DEF Relay, Transcript!Post
<1>3. (pc' = "reply") = FALSE OBVIOUS
<1>. QED BY <1>1, <1>2, <1>3, SameEndings DEF Transcript!Next, Transcript!End

LEMMA StepTold ==
    ASSUME SInv, [Next]_vars
    PROVE  [Transcript!Next]_(Transcript!vars)
<1>. USE DEF SInv
<1>1. CASE \/ AttachReturns \/ AttachBreaks \/ LooseEnds \/ PiReads \/ PodRuns \/ PodDies
           \/ Cancel \/ Reply \/ WatchSees \/ WatchEnds \/ Shutdown \/ Exit
           \/ UNCHANGED vars
  <2>1. UNCHANGED posts /\ (pc' = pc \/ pc' # "reply")
      BY <1>1 DEF AttachReturns, AttachBreaks, LooseEnds, PiReads, PodRuns, PodDies,
             Cancel, Reply, WatchSees, WatchEnds, Shutdown, Exit, vars, session
  <2>. QED BY <2>1, NoQuestion
<1>2. CASE PiSpeaks \/ PiConcludes \/ PiSettles \/ PiAnswersStats
  <2>1. UNCHANGED posts BY <1>2 DEF PiSpeaks, PiConcludes, PiSettles, PiAnswersStats
  <2>2. pc' = pc \/ pc' = "killed"
      BY <1>2 DEF PiSpeaks, PiConcludes, PiSettles, PiAnswersStats, Emit, session
  <2>. QED BY <2>1, <2>2, NoQuestion
<1>3. CASE \/ BeginTurn \/ BeginStats \/ Send \/ TakeReply \/ EndTurn \/ ReadStats \/ EndStats
           \/ Leave \/ DeleteJob \/ CreateJob
  <2>1. UNCHANGED posts /\ (pc' = pc \/ pc' # "reply")
      BY <1>3 DEF BeginTurn, BeginStats, Open, Send, TakeReply, EndTurn, ReadStats, EndStats,
             Leave, DeleteJob, CreateJob, Go, Return, session
  <2>. QED BY <2>1, NoQuestion
<1>4. CASE BuildEnv
  <2>1. CASE EnvFails
      BY <1>4, <2>1, Ending DEF BuildEnv, EnvFails, Return, Endings, Terminals
  <2>2. CASE ~EnvFails BY <1>4, <2>2, NoQuestion DEF BuildEnv, Go
  <2>. QED BY <2>1, <2>2
<1>5. CASE WaitForJobPod
  <2>1. CASE Unattachable
      BY <1>5, <2>1, Ending DEF WaitForJobPod, Unattachable, Return, Endings, Terminals
  <2>2. CASE Relay("run_started") /\ Go("fork")
    <3>1. pc = "wait" /\ posts = <<>> BY <1>5 DEF WaitForJobPod, Story, Early
    <3>2. (pc' = "reply") = (pc = "reply") BY <2>2, <3>1 DEF Go
    <3>3. Transcript!Post("run_started") BY <2>2 DEF Relay, Transcript!Post
    <3>. QED BY <3>1, <3>2, <3>3 DEF Transcript!Next, Transcript!Start, Transcript!Started
  <2>. QED BY <1>5, <2>1, <2>2 DEF WaitForJobPod
<1>6. CASE Preamble
  <2>1. CASE Go("begin") /\ UNCHANGED posts BY <2>1, NoQuestion DEF Go
  <2>2. CASE Relay("fork_failed") /\ Return("failed", "delete")
      BY <1>6, <2>2, Ending DEF Preamble, Return, Talking, Endings
  <2>. QED BY <1>6, <2>1, <2>2 DEF Preamble
<1>7. ASSUME pc \in {"read", "close"}
      PROVE  Transcript!Started /\ ~Transcript!Ended
    BY <1>7, UntoldTranscript DEF Shape, Story, Talking, Transcript!Started
<1>8. CASE Forward
  <2>1. Relay("agent_text") /\ pc = "read" /\ pc' = pc
      BY <1>8 DEF Forward, Forwarded, session
  <2>2. Transcript!Post("agent_text") BY <2>1 DEF Relay, Transcript!Post
  <2>3. (pc' = "reply") = (pc = "reply") /\ ~(pc = "reply") BY <2>1
  <2>. QED BY <1>7, <2>1, <2>2, <2>3 DEF Transcript!Next, Transcript!Speak
<1>9. CASE CloseTurn
  <2>1. pc = "close" /\ Relay(ending.kind) BY <1>9 DEF CloseTurn
  <2>2. CASE ending.kind \in Terminals /\ Return(Outcome(ending.kind), "stats")
      BY <2>1, <2>2, Ending DEF Return, Talking, Endings
  <2>3. CASE ending.kind = "ask_user" /\ Go("reply")
    <3>1. Transcript!Post("ask_user") BY <2>1, <2>3 DEF Relay, Transcript!Post
    <3>2. (pc' = "reply") = TRUE /\ ~(pc = "reply") BY <2>1, <2>3 DEF Go
    <3>. QED BY <1>7, <2>1, <3>1, <3>2 DEF Transcript!Next, Transcript!Ask
  <2>. QED BY <1>9, <2>2, <2>3 DEF CloseTurn
<1>10. CASE BreakTurn \/ FailToClose \/ ReplyFails \/ ReplyTimeout
  <2>1. /\ Relay(IF cancelled THEN "run_cancelled" ELSE "run_failed")
        /\ pc' = "leave" /\ pc \in Talking
      BY <1>10 DEF BreakTurn, FailToClose, ReplyFails, ReplyTimeout, SessionError, Return, Talking
  <2>2. CASE cancelled BY <2>1, <2>2, Ending DEF Endings
  <2>3. CASE ~cancelled BY <2>1, <2>3, Ending DEF Endings, Terminals
  <2>. QED BY <2>2, <2>3
<1>. QED
    BY <1>1, <1>2, <1>3, <1>4, <1>5, <1>6, <1>8, <1>9, <1>10 DEF Next, Worker, Attach, Pi

(* ImplementsTranscript: what a run tells the API is a transcript as       *)
(* RunTranscript promises it (announced, then prose and questions, nothing *)
(* while a question is open, one ending that nothing follows), and what the*)
(* API hears is that with gaps where a post was lost.                      *)
THEOREM SessionImplementsTranscript == Spec => ImplementsTranscript
<1>1. Init => Transcript!Init BY DEF Init, Transcript!Init
<1>2. SInv /\ [Next]_vars => [Transcript!Next]_(Transcript!vars) BY StepTold
<1>3. Spec => Transcript!Spec
    BY <1>1, <1>2, StoryInvariance, PTL DEF Spec, Transcript!Spec
<1>. QED BY <1>3 DEF ImplementsTranscript

-----------------------------------------------------------------------------
(* The turns.                                                              *)

LEMMA SeqOf ==
    ASSUME NEW S, NEW T, NEW s \in Seq(T), \A i \in 1..Len(s) : s[i] \in S
    PROVE  s \in Seq(S)
OBVIOUS

Numbered == [kind : Printed, turn : 0..MaxTurns]

LEMMA InitTurns == Init => TInv
<1>. SUFFICES ASSUME Init PROVE TInv OBVIOUS
<1>. USE DEF Init
<1>1. SInv BY InitStory
<1>2. TypeOK
  <2>1. MaxTurns \in Nat \ {0} /\ MaxProse \in Nat /\ EventBuffer \in Nat \ {0}
      BY AgentSessionAssumption
  <2>2. turn \in 0..(MaxTurns + 1) BY <2>1
  <2>3. pi \in [turn : 0..MaxTurns, phase : {"idle", "busy", "trailing", "asked"},
                said : 0..MaxProse]
      BY <2>1
  <2>4. events \in Seq([kind : Printed, turn : 0..MaxTurns]) /\ Len(events) <= EventBuffer
      BY <2>1
  <2>5. ending \in [kind : TurnEnds, turn : 1..MaxTurns] \cup {NoEnding} OBVIOUS
  <2>. QED BY <2>2, <2>3, <2>4, <2>5 DEF TypeOK
<1>3. Counted BY AgentSessionAssumption DEF Counted
<1>4. Still BY DEF Still, Talking
<1>5. OwnEvents /\ InTurn /\ Ended BY DEF OwnEvents, InTurn, Ended
<1>. QED BY <1>1, <1>2, <1>3, <1>4, <1>5 DEF TInv

(* What Pi prints is numbered with the turn it read.                       *)
LEMMA PrintsTyped ==
    ASSUME TInv, NEW kind \in Printed, Emission(kind)
    PROVE  events' \in Seq(Numbered) /\ Len(events') <= EventBuffer
<1>1. events \in Seq(Numbered) /\ Len(events) <= EventBuffer /\ pi.turn \in 0..MaxTurns
    BY DEF TInv, TypeOK, Numbered
<1>2. [kind |-> kind, turn |-> pi.turn] \in Numbered BY <1>1 DEF Numbered
<1>3. \A i \in 1..Len(events') : events'[i] \in Numbered BY <1>1, <1>2 DEF Emission
<1>4. events' \in Seq(Numbered) BY <1>3, SeqOf DEF Emission
<1>. QED BY <1>1, <1>4 DEF Emission

LEMMA TakesTyped ==
    ASSUME TInv, Worker \/ ReplyTimeout
    PROVE  events' \in Seq(Numbered) /\ Len(events') <= EventBuffer
<1>1. events \in Seq(Numbered) /\ Len(events) <= EventBuffer /\ EventBuffer \in Nat \ {0}
    BY AgentSessionAssumption DEF TInv, TypeOK, Numbered
<1>2. events' = events \/ events' = <<>> \/ (events # <<>> /\ events' = Tail(events))
    BY DEF Worker, BeginTurn, BeginStats, Open, DrainStaleEvents, Forward, EndTurn, ReadStats,
           BuildEnv, EnvFails, CreateJob, WaitForJobPod, Unattachable, Preamble, Send,
           BreakTurn, CloseTurn, FailToClose, TakeReply, ReplyFails, EndStats, Leave,
           DeleteJob, ReplyTimeout, SessionError, Return, Go, client
<1>3. CASE events' = events BY <1>1, <1>3
<1>4. CASE events' = <<>> BY <1>1, <1>4
<1>5. CASE events # <<>> /\ events' = Tail(events)
  <2>1. events' \in Seq(Numbered) /\ Len(events') = Len(events) - 1 BY <1>1, <1>5, TailSeq
  <2>. QED BY <1>1, <2>1
<1>. QED BY <1>2, <1>3, <1>4, <1>5

(* The event that ends a turn was printed in it.                           *)
LEMMA EndingTyped ==
    ASSUME TInv, EndTurn
    PROVE  /\ ending' \in [kind : TurnEnds, turn : 1..MaxTurns]
           /\ ending'.turn = turn /\ turn' = turn /\ pc = "read" /\ pc' = "close"
           /\ ending'.kind = "ask_user" => turn < MaxTurns
           /\ Concluded
<1>. USE DEF TInv
<1>1. pc = "read" /\ events # <<>> /\ events[1] \in Numbered
      /\ Head(events) = events[1] /\ 1 \in 1..Len(events)
    BY TailSeq DEF EndTurn, TypeOK, Numbered
<1>2. events[1].turn = turn /\ (events[1].kind = "ask_user" => turn < MaxTurns)
    BY <1>1 DEF OwnEvents
<1>3. events[1].kind # "stats" BY <1>1 DEF SInv, NoStatsYet, Talking
<1>4. turn \in 1..MaxTurns BY <1>1 DEF Counted
<1>5. /\ ending' = [kind |-> IF events[1].kind = "settled" THEN "run_failed" ELSE events[1].kind,
                    turn |-> events[1].turn]
      /\ events[1].kind \notin Forwarded /\ turn' = turn /\ pc' = "close"
    BY <1>1 DEF EndTurn, Next1
<1>6. events[1].kind \in Printed BY <1>1 DEF Numbered
<1>. QED
    BY <1>1, <1>2, <1>3, <1>4, <1>5, <1>6 DEF Concluded, Printed, TurnEnds, Terminals

(* What Pi does to the types.                                              *)
LEMMA PiTypes ==
    ASSUME TInv, Pi
    PROVE  /\ events' \in Seq(Numbered) /\ Len(events') <= EventBuffer
           /\ pi' \in [turn : 0..MaxTurns, phase : Phases, said : 0..MaxProse]
           /\ UNCHANGED <<turn, ending, result, hangup, closed, pod, row, reply, watch,
                          cancelled, stopped>>
           /\ attach' \in {attach, "none"} /\ panicked' \in {panicked, TRUE}
<1>. USE DEF TInv
<1>1. /\ MaxTurns \in Nat \ {0} /\ MaxProse \in Nat
      /\ pi \in [turn : 0..MaxTurns, phase : Phases, said : 0..MaxProse]
      /\ events \in Seq(Numbered) /\ Len(events) <= EventBuffer
      /\ Shape
    BY AgentSessionAssumption DEF TypeOK, Phases, Numbered, SInv
<1>2. ASSUME NEW kind \in Printed, Emit(kind)
      PROVE  /\ events' \in Seq(Numbered) /\ Len(events') <= EventBuffer
             /\ UNCHANGED <<turn, ending, result, hangup, closed>>
             /\ attach' \in {attach, "none"} /\ panicked' \in {panicked, TRUE}
  <2>1. Emission(kind) BY <1>1, <1>2, Emits
  <2>2. panicked' \in {panicked, TRUE} BY <1>2 DEF Emit
  <2>. QED BY <2>1, <2>2, PrintsTyped DEF Emission
<1>3. CASE PiReads
  <2>1. turn \in 1..MaxTurns BY <1>3 DEF PiReads, Counted
  <2>2. pi' = [turn |-> turn, phase |-> "busy", said |-> 0]
        /\ UNCHANGED <<session, client, stream, pod, people, signals, panicked>>
      BY <1>3 DEF PiReads
  <2>. QED BY <1>1, <2>1, <2>2 DEF Phases, session, client, stream, people, signals
<1>4. CASE PiSpeaks
  <2>1. /\ pi' = [pi EXCEPT !.said = @ + 1] /\ pi.said < MaxProse
        /\ Emit("agent_text") /\ "agent_text" \in Printed
        /\ UNCHANGED <<pod, people, signals>>
      BY <1>4 DEF PiSpeaks, Printed, Forwarded
  <2>2. pi.said + 1 \in 0..MaxProse BY <1>1, <2>1
  <2>. QED BY <1>1, <1>2, <2>1, <2>2 DEF people, signals
<1>5. CASE PiConcludes
  <2>1. /\ pi' = [pi EXCEPT !.phase = "trailing"] /\ UNCHANGED <<pod, people, signals>>
        /\ (\E kind \in TurnEnds : Emit(kind)) \/ UNCHANGED <<session, client, stream, panicked>>
      BY <1>5 DEF PiConcludes
  <2>2. pi' \in [turn : 0..MaxTurns, phase : Phases, said : 0..MaxProse]
      BY <1>1, <2>1 DEF Phases
  <2>3. CASE \E kind \in TurnEnds : Emit(kind)
    <3>1. PICK kind \in TurnEnds : Emit(kind) BY <2>3
    <3>2. kind \in Printed BY DEF Printed
    <3>. QED BY <1>2, <2>1, <2>2, <3>1, <3>2 DEF people, signals
  <2>4. CASE UNCHANGED <<session, client, stream, panicked>>
      BY <1>1, <2>1, <2>2, <2>4 DEF session, client, stream, people, signals
  <2>. QED BY <2>1, <2>3, <2>4
<1>6. CASE PiSettles
  <2>1. /\ pi' = [pi EXCEPT !.phase = "idle"] /\ Emit("settled") /\ "settled" \in Printed
        /\ UNCHANGED <<pod, people, signals>>
      BY <1>6 DEF PiSettles, Printed
  <2>. QED BY <1>1, <1>2, <2>1 DEF Phases, people, signals
<1>7. CASE PiAnswersStats
  <2>1. /\ pi' = [pi EXCEPT !.phase = "asked"] /\ Emit("stats") /\ "stats" \in Printed
        /\ UNCHANGED <<pod, people, signals>>
      BY <1>7 DEF PiAnswersStats, Printed
  <2>. QED BY <1>1, <1>2, <2>1 DEF Phases, people, signals
<1>. QED BY <1>3, <1>4, <1>5, <1>6, <1>7 DEF Pi

LEMMA OverrunTyped ==
    ASSUME overrun \in BOOLEAN, [Next]_vars
    PROVE  overrun' \in BOOLEAN
<1>. USE DEF client
<1>1. CASE Pi
  <2>1. ASSUME NEW kind \in Printed, Emit(kind) PROVE overrun' \in BOOLEAN
      BY <2>1 DEF Emit
  <2>. QED
      BY <1>1, <2>1 DEF Pi, PiReads, PiSpeaks, PiConcludes, PiSettles, PiAnswersStats, Printed,
             Forwarded, TurnEnds
<1>2. CASE Worker \/ ReplyTimeout
    BY <1>2 DEF Worker, BeginTurn, BeginStats, Open, Forward, EndTurn, ReadStats, BuildEnv,
             EnvFails, CreateJob, WaitForJobPod, Unattachable, Preamble, Send, BreakTurn,
             CloseTurn, FailToClose, TakeReply, ReplyFails, EndStats, Leave, DeleteJob,
             ReplyTimeout, SessionError
<1>3. CASE ~(Pi \/ Worker \/ ReplyTimeout)
    BY <1>3 DEF Next, Attach, AttachReturns, LooseEnds, AttachBreaks, PodRuns, PodDies, Cancel,
             Reply, WatchSees, WatchEnds, Shutdown, Exit, vars
<1>. QED BY <1>1, <1>2, <1>3

LEMMA TypesKept ==
    ASSUME TInv, SInv', [Next]_vars
    PROVE  TypeOK'
<1>. USE DEF TInv
<1>1. pc' \in Early \cup Talking \cup Closing \cup {"killed"} BY DEF SInv, Shape
<1>2. MaxTurns \in Nat \ {0} /\ MaxProse \in Nat BY AgentSessionAssumption
<1>9. overrun' \in BOOLEAN BY OverrunTyped DEF TypeOK
<1>3. CASE Worker \/ ReplyTimeout
  <2>1. events' \in Seq(Numbered) /\ Len(events') <= EventBuffer BY <1>3, TakesTyped
  <2>2. pi' = pi BY <1>3, WorkerTakes DEF SInv
  <2>3. turn' \in 0..(MaxTurns + 1)
    <3>1. CASE BeginTurn \/ BeginStats
      <4>1. turn' = turn + 1 /\ turn \in 0..MaxTurns
          BY <1>2, <3>1 DEF BeginTurn, BeginStats, Open, Counted, TypeOK
      <4>. QED BY <1>2, <4>1
    <3>2. CASE ~(BeginTurn \/ BeginStats)
      <4>1. turn' = turn
          BY <1>3, <3>2 DEF Worker, Forward, EndTurn, ReadStats, BuildEnv, EnvFails, CreateJob,
             WaitForJobPod, Unattachable, Preamble, Send, BreakTurn, CloseTurn, FailToClose,
             TakeReply, ReplyFails, EndStats, Leave, DeleteJob, ReplyTimeout, SessionError,
             Return, Go, session
      <4>. QED BY <4>1 DEF TypeOK
    <3>. QED BY <3>1, <3>2
  <2>4. ending' \in [kind : TurnEnds, turn : 1..MaxTurns] \cup {NoEnding}
    <3>1. CASE EndTurn BY <3>1, EndingTyped
    <3>2. CASE ~EndTurn
      <4>1. ending' = ending \/ ending' = NoEnding
          BY <1>3, <3>2 DEF Worker, BeginTurn, BeginStats, Forward, ReadStats, BuildEnv,
             EnvFails, CreateJob, WaitForJobPod, Unattachable, Preamble, Send, BreakTurn,
             CloseTurn, FailToClose, TakeReply, ReplyFails, EndStats, Leave, DeleteJob,
             ReplyTimeout, SessionError, Return, Go, session
      <4>. QED BY <4>1 DEF TypeOK
    <3>. QED BY <3>1, <3>2
  <2>5. result' \in {"none", "ok", "failed", "cancelled"}
    <3>1. \/ result' = result
          \/ \E res \in {"ok", "failed", "cancelled"} : result' = res
        BY <1>3 DEF Worker, BeginTurn, BeginStats, Forward, EndTurn, ReadStats, BuildEnv,
             EnvFails, CreateJob, WaitForJobPod, Unattachable, Preamble, Send, BreakTurn,
             CloseTurn, FailToClose, TakeReply, ReplyFails, EndStats, Leave, DeleteJob,
             ReplyTimeout, SessionError, Return, Go, session, Outcome
    <3>. QED BY <3>1 DEF TypeOK
  <2>6. attach' \in {"none", "open", "eof", "loose"} /\ hangup' \in {"none", "clean", "error"}
      BY <1>3 DEF TypeOK, Worker, BeginTurn, BeginStats, Open, Forward, EndTurn, ReadStats,
             BuildEnv, EnvFails, CreateJob, WaitForJobPod, Unattachable, Preamble, Send,
             BreakTurn, CloseTurn, FailToClose, TakeReply, ReplyFails, EndStats, Leave,
             DeleteJob, ReplyTimeout, SessionError, stream
  <2>7. pod' \in {"none", "pending", "up", "dead", "gone", "left", "refused", "orphan"}
      BY <1>3 DEF TypeOK, Worker, BeginTurn, BeginStats, Open, Forward, EndTurn, ReadStats,
             BuildEnv, EnvFails, CreateJob, WaitForJobPod, Unattachable, Preamble, Send,
             BreakTurn, CloseTurn, FailToClose, TakeReply, ReplyFails, EndStats, Leave,
             DeleteJob, ReplyTimeout, SessionError
  <2>8. /\ row' = row /\ cancelled' = cancelled /\ stopped' = stopped /\ panicked' = panicked
        /\ closed' \in {closed, TRUE} /\ watch' \in {watch, TRUE, FALSE}
        /\ reply' \in {reply, FALSE}
      BY <1>3 DEF Worker, BeginTurn, BeginStats, Open, Forward, EndTurn, ReadStats,
             BuildEnv, EnvFails, CreateJob, WaitForJobPod, Unattachable, Preamble, Send,
             BreakTurn, CloseTurn, FailToClose, TakeReply, ReplyFails, EndStats, Leave,
             DeleteJob, ReplyTimeout, SessionError, client, people, signals
  <2>9. /\ closed' \in BOOLEAN /\ watch' \in BOOLEAN /\ reply' \in BOOLEAN
        /\ row' \in {"running", "cancelled"} /\ cancelled' \in BOOLEAN
        /\ stopped' \in BOOLEAN /\ panicked' \in BOOLEAN
      BY <2>8 DEF TypeOK
  <2>10. pi' \in [turn : 0..MaxTurns, phase : Phases, said : 0..MaxProse]
      BY <2>2 DEF TypeOK, Phases
  <2>. QED
      BY <1>1, <1>9, <2>1, <2>3, <2>4, <2>5, <2>6, <2>7, <2>9, <2>10
         DEF TypeOK, Numbered, Early, Talking, Closing, Over, Phases
<1>4. CASE Pi
  <2>1. events' \in Seq(Numbered) /\ Len(events') <= EventBuffer BY <1>4, PiTypes
  <2>2. pi' \in [turn : 0..MaxTurns, phase : Phases, said : 0..MaxProse] BY <1>4, PiTypes
  <2>3. /\ UNCHANGED <<turn, ending, result, hangup, closed, pod, row, reply, watch,
                       cancelled, stopped>>
        /\ attach' \in {attach, "none"} /\ panicked' \in {panicked, TRUE}
      BY <1>4, PiTypes
  <2>4. /\ closed' \in BOOLEAN /\ watch' \in BOOLEAN /\ reply' \in BOOLEAN
        /\ cancelled' \in BOOLEAN /\ stopped' \in BOOLEAN /\ panicked' \in BOOLEAN
      BY <2>3 DEF TypeOK
  <2>5. /\ turn' \in 0..(MaxTurns + 1) /\ attach' \in {"none", "open", "eof", "loose"}
        /\ ending' \in [kind : TurnEnds, turn : 1..MaxTurns] \cup {NoEnding}
        /\ result' \in {"none", "ok", "failed", "cancelled"}
        /\ hangup' \in {"none", "clean", "error"}
        /\ pod' \in {"none", "pending", "up", "dead", "gone", "left", "refused", "orphan"}
        /\ row' \in {"running", "cancelled"}
      BY <2>3 DEF TypeOK
  <2>. QED
      BY <1>1, <1>9, <2>1, <2>2, <2>4, <2>5
         DEF TypeOK, Numbered, Early, Talking, Closing, Over, Phases
<1>5. CASE Attach \/ AttachBreaks
  <2>1. /\ UNCHANGED <<pc, turn, ending, result, events, closed, pod, pi, row, reply, watch,
                       cancelled, stopped, panicked>>
        /\ attach' = "none" /\ hangup' \in {hangup, "clean", "error"}
      BY <1>5 DEF Attach, AttachReturns, LooseEnds, AttachBreaks, session, client, people, signals
  <2>. QED BY <1>9, <2>1 DEF TypeOK
<1>6. CASE PodRuns \/ PodDies
  <2>1. /\ UNCHANGED <<pc, turn, ending, result, events, closed, attach, hangup, pi, row,
                       reply, watch, cancelled, stopped, panicked>>
        /\ pod' \in {"up", "dead"}
      BY <1>6 DEF PodRuns, PodDies, session, client, stream, people, signals
  <2>. QED BY <1>9, <2>1 DEF TypeOK
<1>7. CASE Cancel \/ Reply \/ WatchSees \/ WatchEnds \/ Shutdown \/ Exit
  <2>1. /\ UNCHANGED <<turn, ending, result, events, closed, hangup, pod, pi, panicked>>
        /\ pc' \in {pc, "killed"} /\ attach' \in {attach, "none"}
        /\ row' \in {row, "cancelled"} /\ reply' \in {reply, TRUE}
        /\ watch' \in {watch, FALSE} /\ cancelled' \in {cancelled, TRUE}
        /\ stopped' \in {stopped, TRUE}
      BY <1>7 DEF Cancel, Reply, WatchSees, WatchEnds, Shutdown, Exit, session, client, stream,
                  people, signals
  <2>2. /\ closed' \in BOOLEAN /\ watch' \in BOOLEAN /\ reply' \in BOOLEAN
        /\ cancelled' \in BOOLEAN /\ stopped' \in BOOLEAN /\ panicked' \in BOOLEAN
      BY <2>1 DEF TypeOK
  <2>3. /\ pc' \in {"env", "create", "wait", "fork", "begin", "send", "read", "close", "reply",
                    "stats", "readStats", "closeStats", "leave", "delete"} \cup Over
        /\ attach' \in {"none", "open", "eof", "loose"} /\ row' \in {"running", "cancelled"}
      BY <2>1 DEF TypeOK, Over
  <2>. QED BY <1>9, <2>1, <2>2, <2>3 DEF TypeOK
<1>8. CASE UNCHANGED vars
  BY <1>8, <1>9 DEF TypeOK, vars, session, client, stream, people, signals
<1>. QED BY <1>3, <1>4, <1>5, <1>6, <1>7, <1>8 DEF Next

Turns == Counted /\ Still /\ OwnEvents /\ InTurn /\ Ended

(* Pi prints something in its turn: prose while it is busy, or what ends   *)
(* the turn, or its own bookkeeping.                                       *)
LEMMA PrintsInTurn ==
    ASSUME TInv, NEW kind \in Printed, Emission(kind),
           pod = "up", UNCHANGED pod, pi.phase \in {"busy", "trailing"},
           pi'.turn = pi.turn,
           pi'.phase \in {"idle", "busy", "trailing"},
           pi'.phase = "busy" => pi.phase = "busy" /\ kind \in Forwarded,
           pi'.phase = "trailing" => pi.phase = "busy",
           kind = "ask_user" => pi.turn < MaxTurns
    PROVE  Turns'
<1>. USE DEF TInv
<1>1. CASE pc' = "killed"
  BY <1>1 DEF Turns, Counted, Still, OwnEvents, InTurn, Ended, Emission, Early, Talking
<1>2. CASE pc' = pc /\ attach' = attach
  <2>1. Counted' BY <1>2 DEF Counted, Emission
  <2>2. Still' BY <1>2 DEF Still, Emission
  <2>3. pc \in {"send", "read", "close"} => pi.turn = turn BY DEF InTurn
  <2>4. OwnEvents' BY <1>2, <2>3 DEF OwnEvents, Emission
  <2>5. ASSUME pc \in {"send", "read", "close"}, Concluded'
        PROVE  Concluded \/ (kind \notin Forwarded /\ attach # "none")
      BY <1>2, <2>5 DEF Concluded, Emission
  <2>6. InTurn'
    <3>. SUFFICES ASSUME pc \in {"send", "read", "close"}, Concluded'
                  PROVE  pi'.phase # "busy" /\ (hangup = "clean" => pi'.phase = "idle")
        BY <1>2, <2>3 DEF InTurn, Emission
    <3>1. CASE Concluded
      <4>1. pi.phase = "trailing" BY <3>1 DEF InTurn
      <4>. QED BY <4>1
    <3>2. CASE kind \notin Forwarded /\ attach # "none"
      <4>1. hangup = "none" BY <3>2 DEF Still, TypeOK
      <4>. QED BY <3>2, <4>1
    <3>. QED BY <2>5, <3>1, <3>2
  <2>7. Ended' BY <1>2 DEF Ended, Emission
  <2>. QED BY <2>1, <2>2, <2>4, <2>6, <2>7 DEF Turns
<1>. QED BY <1>1, <1>2 DEF Emission

LEMMA PiTurns ==
    ASSUME TInv, Pi
    PROVE  Turns'
<1>. USE DEF TInv
<1>1. /\ Shape /\ pi \in [turn : 0..MaxTurns, phase : Phases, said : 0..MaxProse]
      /\ MaxTurns \in Nat /\ turn \in Nat
    BY AgentSessionAssumption DEF TypeOK, Phases, SInv, Shape
<1>2. CASE PiReads
  <2>1. /\ pi' = [turn |-> turn, phase |-> "busy", said |-> 0] /\ pi.turn < turn
        /\ pc \in {"read", "close"} /\ pod = "up"
        /\ UNCHANGED <<pc, turn, ending, events, attach, hangup, pod>>
      BY <1>2 DEF PiReads, session, client, stream
  <2>2. ~Concluded BY <1>1, <2>1 DEF InTurn
  <2>3. ~Concluded' BY <2>1, <2>2 DEF Concluded
  <2>4. InTurn' BY <2>1, <2>3 DEF InTurn
  <2>. QED BY <2>1, <2>4 DEF Turns, Counted, Still, OwnEvents, Ended, Early, Talking
<1>3. CASE PiSpeaks
  <2>1. /\ Emission("agent_text") /\ pod = "up" /\ pi.phase = "busy" /\ UNCHANGED pod
        /\ pi' = [pi EXCEPT !.said = @ + 1] /\ "agent_text" \in Forwarded
        /\ "agent_text" \in Printed
      BY <1>1, <1>3, Emits DEF PiSpeaks, Printed, Forwarded
  <2>2. pi'.phase = "busy" /\ pi'.turn = pi.turn
      BY <1>1, <2>1
  <2>. QED BY <2>1, <2>2, PrintsInTurn
<1>4. CASE PiConcludes
  <2>1. /\ pod = "up" /\ pi.phase = "busy" /\ UNCHANGED pod
        /\ pi' = [pi EXCEPT !.phase = "trailing"]
      BY <1>4 DEF PiConcludes
  <2>2. \E kind \in TurnEnds : Emission(kind) /\ (kind = "ask_user" => pi.turn < MaxTurns)
    <3>1. CASE \E kind \in TurnEnds : Emit(kind) /\ (kind = "ask_user" => pi.turn < MaxTurns)
      <4>1. \A kind \in TurnEnds : kind \in Printed BY DEF Printed
      <4>. QED BY <1>1, <3>1, <4>1, Emits
    <3>2. CASE UNCHANGED <<session, client, stream, panicked>>
      <4>1. Emission("submit") BY <1>1, <3>2 DEF Emission, session, client, stream, Shape
      <4>. QED BY <4>1 DEF TurnEnds, Terminals
    <3>. QED BY <1>4, <3>1, <3>2 DEF PiConcludes
  <2>3. PICK kind \in TurnEnds : Emission(kind) /\ (kind = "ask_user" => pi.turn < MaxTurns)
      BY <2>2
  <2>4. kind \in Printed BY DEF Printed
  <2>5. pi'.phase = "trailing" /\ pi'.turn = pi.turn
      BY <1>1, <2>1
  <2>. QED BY <2>1, <2>3, <2>4, <2>5, PrintsInTurn
<1>5. CASE PiSettles
  <2>1. /\ Emission("settled") /\ pod = "up" /\ pi.phase = "trailing" /\ UNCHANGED pod
        /\ pi' = [pi EXCEPT !.phase = "idle"] /\ "settled" \in Printed
      BY <1>1, <1>5, Emits DEF PiSettles, Printed
  <2>2. pi'.phase = "idle" /\ pi'.turn = pi.turn
      BY <1>1, <2>1
  <2>. QED BY <2>1, <2>2, PrintsInTurn
<1>6. CASE PiAnswersStats
  <2>1. Emission("stats") /\ pc = "readStats" /\ UNCHANGED pod
      BY <1>1, <1>6, Emits DEF PiAnswersStats, Printed
  <2>2. pc' \in {"readStats", "killed"} BY <2>1 DEF Emission
  <2>3. hangup' # "none" => attach' = "none" BY <2>1 DEF Still, Emission
  <2>. QED
      BY <2>2, <2>3 DEF Turns, Counted, Still, OwnEvents, InTurn, Ended, Early, Talking
<1>. QED BY <1>2, <1>3, <1>4, <1>5, <1>6 DEF Pi

(* The attach call returns: cleanly, while its pod is up, only once Pi has *)
(* printed the bookkeeping of the turn.                                    *)
LEMMA AttachTurns ==
    ASSUME TInv, ~TrailsLate, Attach \/ AttachBreaks
    PROVE  Turns'
<1>. USE DEF TInv
<1>1. /\ UNCHANGED <<pc, turn, ending, events, pod, pi>> /\ attach' = "none"
      /\ hangup' = "clean" => hangup = "clean" \/ Clean \/ Dead
    BY DEF Attach, AttachReturns, LooseEnds, AttachBreaks, session, client
<1>2. InTurn'
  <2>. SUFFICES ASSUME pc \in {"send", "read", "close"}, pod = "up", Concluded
                PROVE  hangup' = "clean" => pi.phase = "idle"
      BY <1>1 DEF InTurn, Concluded
  <2>1. pi.phase \in {"idle", "trailing"} BY DEF InTurn
  <2>2. hangup = "clean" => pi.phase = "idle" BY DEF InTurn
  <2>. QED BY <1>1, <2>1, <2>2 DEF Clean, Dead
<1>. QED BY <1>1, <1>2 DEF Turns, Counted, Still, OwnEvents, Ended

LEMMA PodTurns ==
    ASSUME TInv, PodRuns \/ PodDies
    PROVE  Turns'
<1>. USE DEF TInv
<1>1. /\ UNCHANGED <<pc, turn, ending, events, attach, hangup, pi>>
      /\ \/ pod = "pending" /\ pod' = "up"
         \/ pod' = "dead"
    BY DEF PodRuns, PodDies, session, client, stream
<1>2. Still' BY <1>1 DEF Still
<1>3. InTurn' BY <1>1 DEF InTurn, Concluded, Still, Talking
<1>. QED BY <1>1, <1>2, <1>3 DEF Turns, Counted, OwnEvents, Ended

LEMMA PeopleTurns ==
    ASSUME TInv, \/ Cancel \/ Reply \/ WatchSees \/ WatchEnds \/ Shutdown \/ Exit
                 \/ UNCHANGED vars
    PROVE  Turns'
<1>. USE DEF TInv
<1>1. /\ UNCHANGED <<turn, ending, events, hangup, pod, pi>>
      /\ (pc' = pc /\ attach' = attach) \/ (pc' = "killed" /\ attach' = "none")
    BY DEF Cancel, Reply, WatchSees, WatchEnds, Shutdown, Exit, session, client, stream, vars
<1>2. Concluded' /\ pc' = pc => Concluded BY <1>1 DEF Concluded
<1>3. InTurn' BY <1>1, <1>2 DEF InTurn
<1>. QED
    BY <1>1, <1>3 DEF Turns, Counted, Still, OwnEvents, Ended, Early, Talking


(* The goroutine of the job.                                               *)
LEMMA BeforeTurns ==
    ASSUME TInv, BuildEnv \/ CreateJob \/ WaitForJobPod \/ Preamble
    PROVE  Turns'
<1>. USE DEF TInv
<1>1. UNCHANGED <<turn, ending, events, attach, hangup, pi>> /\ turn = 0 /\ MaxTurns > 0
    BY AgentSessionAssumption
       DEF BuildEnv, EnvFails, CreateJob, WaitForJobPod, Unattachable, Preamble, Return, Go,
           client, stream, Counted, Early
<1>2. pc' \in {"create", "wait", "fork", "begin", "delete", "done"}
    BY DEF BuildEnv, EnvFails, CreateJob, WaitForJobPod, Unattachable, Preamble, Return, Go
<1>3. Still'
  <2>1. pod \in {"none", "pending", "up"} => attach = "none" /\ pi.phase = "idle"
      BY DEF Still, BuildEnv, CreateJob, WaitForJobPod, Preamble, Early
  <2>2. attach = "none"
      BY DEF Still, BuildEnv, CreateJob, WaitForJobPod, Preamble, Early
  <2>3. \/ pod' = pod \/ (pod = "none" /\ pod' = "pending" /\ pc' = "wait")
        \/ pc' = "done"
      BY DEF BuildEnv, CreateJob, WaitForJobPod, Preamble, Go, Return, SInv, PodInv
  <2>4. pc' \in Talking \cup {"stats"} => pod = "up" \/ pc = "fork"
      BY <1>2 DEF BuildEnv, EnvFails, CreateJob, WaitForJobPod, Unattachable, Preamble, Return,
                  Go, Talking
  <2>5. pc' \in Talking \cup {"stats"} => pod \notin {"none", "pending"} /\ pc' # "wait"
      BY <2>4 DEF Still, Talking
  <2>. QED BY <1>1, <2>1, <2>2, <2>3, <2>5 DEF Still, Early, Talking
<1>4. Counted' BY <1>1, <1>2 DEF Counted, Early
<1>. QED BY <1>2, <1>3, <1>4 DEF Turns, OwnEvents, InTurn, Ended

LEMMA OpeningTurns ==
    ASSUME TInv, BeginTurn \/ BeginStats
    PROVE  Turns'
<1>. USE DEF TInv
<1>1. /\ UNCHANGED <<pod, pi>> /\ events' = <<>> /\ turn' = turn + 1 /\ hangup' = "none"
      /\ \/ pc = "begin" /\ pc' = "send"
         \/ pc = "stats" /\ pc' = "readStats"
    BY DEF BeginTurn, BeginStats, Open, DrainStaleEvents
<1>2. Counted'
  <2>1. pc' = "send" => turn \in 0..MaxTurns /\ turn < MaxTurns /\ MaxTurns \in Nat
      BY <1>1, AgentSessionAssumption DEF Counted, TypeOK, SInv, Shape
  <2>2. pc' = "send" => turn + 1 \in 1..MaxTurns BY <2>1
  <2>. QED BY <1>1, <2>2 DEF Counted, Early
<1>3. Still' BY <1>1 DEF Still, Early, Talking
<1>4. InTurn'
  <2>1. pc' = "send" => ~Concluded' BY <1>1 DEF Concluded
  <2>2. pc' = "send" /\ pod' = "up" => pi'.phase = "idle" BY <1>1 DEF Still
  <2>. QED BY <1>1, <2>1, <2>2 DEF InTurn
<1>. QED BY <1>1, <1>2, <1>3, <1>4 DEF Turns, OwnEvents, Ended

LEMMA ReadingTurns ==
    ASSUME TInv, Send \/ Forward \/ EndTurn
    PROVE  Turns'
<1>. USE DEF TInv
<1>1. CASE Send
  <2>1. UNCHANGED <<turn, ending, events, attach, hangup, pod, pi>> /\ pc = "send" /\ pc' = "read"
      BY <1>1 DEF Send, Go, client, stream
  <2>2. Concluded' => Concluded BY <2>1 DEF Concluded
  <2>. QED
      BY <2>1, <2>2 DEF Turns, Counted, Still, OwnEvents, InTurn, Ended, Early, Talking
<1>2. CASE Forward \/ EndTurn
  <2>1. /\ UNCHANGED <<turn, hangup, pod, pi>> /\ pc = "read" /\ pc' \in {"read", "close"}
        /\ attach = "none" => attach' = "none"
        /\ pc' = "close" => EndTurn
      BY <1>2 DEF Forward, EndTurn, session, stream
  <2>2. \A i \in 1..Len(events') : \E k \in 1..Len(events) : events'[i] = events[k]
      BY <1>2, WorkerTakes DEF Worker, Fewer, SInv
  <2>3. Concluded' => Concluded
      BY <2>1, <2>2, EndingTyped DEF Concluded
  <2>4. Counted' /\ Still' BY <2>1 DEF Counted, Still, Early, Talking
  <2>5. OwnEvents' BY <2>1, <2>2 DEF OwnEvents
  <2>6. InTurn' BY <2>1, <2>3 DEF InTurn
  <2>7. Ended' BY <2>1, EndingTyped DEF Ended
  <2>. QED BY <2>4, <2>5, <2>6, <2>7 DEF Turns
<1>. QED BY <1>1, <1>2

LEMMA ClosingTurns ==
    ASSUME TInv, \/ BreakTurn \/ CloseTurn \/ FailToClose \/ TakeReply \/ ReplyFails
                 \/ ReplyTimeout
    PROVE  Turns'
<1>. USE DEF TInv
<1>1. CASE BreakTurn \/ FailToClose \/ ReplyFails \/ ReplyTimeout
  <2>1. /\ hangup' = hangup /\ (attach = "none" => attach' = "none") /\ pc' = "leave"
      BY <1>1 DEF BreakTurn, FailToClose, ReplyFails, ReplyTimeout, SessionError, Return
  <2>. QED
      BY <2>1 DEF Turns, Counted, Still, OwnEvents, InTurn, Ended, Early, Talking
<1>2. CASE CloseTurn
  <2>1. /\ UNCHANGED <<turn, attach, hangup, pod, pi>> /\ pc = "close" /\ hangup = "clean"
        /\ \/ pc' = "stats"
           \/ pc' = "reply" /\ ending.kind = "ask_user"
      BY <1>2 DEF CloseTurn, Return, Go, stream
  <2>2. Concluded BY <2>1 DEF Concluded
  <2>3. attach = "none" /\ (pod = "up" => pi.phase = "idle") /\ pod \notin {"none", "pending"}
      BY <2>1, <2>2 DEF Still, InTurn, Talking
  <2>4. Still' BY <2>1, <2>3 DEF Still
  <2>5. turn \in 1..MaxTurns /\ MaxTurns \in Nat /\ (ending.kind = "ask_user" => turn < MaxTurns)
      BY <2>1, AgentSessionAssumption DEF Counted, Ended
  <2>6. Counted' BY <2>1, <2>5 DEF Counted, Early
  <2>. QED BY <2>1, <2>4, <2>6 DEF Turns, OwnEvents, InTurn, Ended
<1>3. CASE TakeReply
  <2>1. UNCHANGED <<turn, attach, hangup, pod, pi>> /\ pc = "reply" /\ pc' = "begin"
      BY <1>3 DEF TakeReply, Go, stream
  <2>. QED
      BY <2>1 DEF Turns, Counted, Still, OwnEvents, InTurn, Ended, Early, Talking
<1>. QED BY <1>1, <1>2, <1>3

LEMMA AfterTurns ==
    ASSUME TInv, ReadStats \/ EndStats \/ Leave \/ DeleteJob
    PROVE  Turns'
<1>. USE DEF TInv
<1>1. hangup' = hangup /\ (attach = "none" => attach' = "none")
    BY DEF ReadStats, EndStats, Leave, DeleteJob, stream
<1>2. pc' \in {"readStats", "closeStats", "leave", "delete", "done"}
    BY DEF ReadStats, EndStats, Leave, DeleteJob, Go
<1>. QED
    BY <1>1, <1>2 DEF Turns, Counted, Still, OwnEvents, InTurn, Ended, Early, Talking

(* Unless Pi's bookkeeping trails the attach call, the channel of a turn   *)
(* only ever holds what that turn printed.                                 *)
LEMMA TurnsInvariance == ~TrailsLate => (Spec => []TInv)
<1>. SUFFICES ASSUME ~TrailsLate PROVE Spec => []TInv OBVIOUS
<1>1. TInv /\ SInv' /\ [Next]_vars => TInv'
  <2>. SUFFICES ASSUME TInv, SInv', [Next]_vars PROVE TInv' OBVIOUS
  <2>1. TypeOK' BY TypesKept
  <2>2. Turns'
      BY PiTurns, AttachTurns, PodTurns, PeopleTurns, BeforeTurns, OpeningTurns, ReadingTurns,
         ClosingTurns, AfterTurns DEF Next, Worker
  <2>. QED BY <2>1, <2>2 DEF TInv, Turns
<1>. QED BY <1>1, InitTurns, StoryInvariance, PTL DEF Spec

(* TypeOK: every variable keeps its type, the channel its capacity, and no *)
(* run makes more turns than Pi asks for, whatever the faults.             *)
THEOREM SessionTyped == ~TrailsLate => (Spec => []TypeOK)
<1>1. TInv => TypeOK BY DEF TInv
<1>. QED BY <1>1, TurnsInvariance, PTL

(* NoStaleEnd: if an attach call returns cleanly only once Pi has printed  *)
(* what belongs to its turn, a turn is ended by an event of its own.       *)
THEOREM TurnsEndThemselves == ~TrailsLate => (Spec => []NoStaleEnd)
<1>1. TInv => NoStaleEnd BY DEF TInv, Ended, NoStaleEnd
<1>. QED BY <1>1, TurnsInvariance, PTL
-----------------------------------------------------------------------------
(* The attach calls, whether or not Pi's bookkeeping trails them.          *)

(* The session waits for something that its current call prints or does.   *)
Waiting == {"send", "read", "close", "readStats", "closeStats"}

(* Before the watcher is started, and after the session has returned.      *)
Outside == Early \cup {"fork", "delete", "done", "killed"}

(* A session that waits for its call has one, or knows how it ended: it is *)
(* never left waiting for a call that was given up.  There is no other     *)
(* call at the same time, and only a session on its way out leaves one     *)
(* behind (specgrill.go, the turn's context and attachErr).                *)
OneAttachCall ==
    /\ hangup # "none" => attach = "none"
    /\ pc \in Waiting => attach \in {"open", "eof"} \/ hangup # "none"
    /\ pc \in {"close", "closeStats"} => attach # "open"
    /\ attach # "none" /\ pc \notin Waiting => attach = "loose" /\ pc \in {"leave", "delete", "done"}

(* The channel is closed, and the watcher gone, once the session returns.  *)
Scoped ==
    /\ closed => pc \in {"delete", "done", "killed"}
    /\ watch => pc \notin Outside

Decided == result # "none" => pc \in Closing \cup {"killed"}

CallInv == OneAttachCall /\ Scoped /\ Decided

(* What a session returned stands, whatever the way out still meets (the   *)
(* fetch of the accounting, the deletion of the pod, a shutdown).          *)
ResultIsFinal == [][result # "none" => result' = result]_result

(* The one way the closed channel takes the process down: a call the       *)
(* session gave up prints after the session has returned (rpc/client.go,   *)
(* Close).                                                                 *)
PanicNeedsLooseCall == [][panicked' # panicked => attach = "loose" /\ closed]_panicked

LEMMA CallKept ==
    ASSUME CallInv, UNCHANGED <<pc, result, attach, hangup, closed, watch>>
    PROVE  CallInv'
BY DEF CallInv, OneAttachCall, Scoped, Decided

LEMMA EmitCall ==
    ASSUME CallInv, NEW kind \in Printed, Emit(kind), UNCHANGED watch
    PROVE  /\ CallInv'
           /\ panicked' # panicked => attach = "loose" /\ closed
           /\ UNCHANGED result
<1>1. CASE attach = "none" \/ ~closed
  <2>1. UNCHANGED <<pc, result, attach, hangup, closed, panicked>>
      BY <1>1 DEF Emit, session, client, stream
  <2>. QED BY <2>1, CallKept
<1>2. CASE attach # "none" /\ closed
  <2>1. /\ pc' = "killed" /\ attach' = "none" /\ UNCHANGED <<result, hangup, closed>>
      BY <1>2 DEF Emit, client
  <2>2. attach = "loose" /\ ~watch
      BY <1>2 DEF CallInv, OneAttachCall, Scoped, Waiting, Outside
  <2>. QED BY <1>2, <2>1, <2>2 DEF CallInv, OneAttachCall, Scoped, Decided, Waiting, Outside
<1>. QED BY <1>1, <1>2

LEMMA PiCall ==
    ASSUME CallInv, Pi
    PROVE  /\ CallInv'
           /\ panicked' # panicked => attach = "loose" /\ closed
           /\ UNCHANGED result
<1>1. UNCHANGED watch
    BY DEF Pi, PiReads, PiSpeaks, PiConcludes, PiSettles, PiAnswersStats, signals
<1>2. CASE \E kind \in Printed : Emit(kind) BY <1>1, <1>2, EmitCall
<1>3. CASE UNCHANGED <<session, client, stream, panicked>>
    BY <1>1, <1>3, CallKept DEF session, client, stream
<1>. QED
    BY <1>2, <1>3
       DEF Pi, PiReads, PiSpeaks, PiConcludes, PiSettles, PiAnswersStats, Printed, Forwarded,
           TurnEnds

(* The session gives up.                                                   *)
LEMMA ErrorCall ==
    ASSUME CallInv, pc \in Talking, pc \notin {"fork", "begin"}, SessionError
    PROVE  CallInv'
<1>1. /\ pc' = "leave" /\ UNCHANGED <<hangup, closed, watch>>
      /\ attach' = IF attach = "none" THEN "none" ELSE "loose"
    BY DEF SessionError, Return, client, signals
<1>. QED
    BY <1>1 DEF CallInv, OneAttachCall, Scoped, Decided, Waiting, Outside, Early, Talking, Closing

LEMMA WorkerCall ==
    ASSUME CallInv, Worker \/ ReplyTimeout
    PROVE  CallInv' /\ (result # "none" => result' = result)
<1>. USE DEF CallInv, OneAttachCall, Scoped, Decided, Waiting, Outside, Early, Talking, Closing
<1>1. CASE BuildEnv \/ CreateJob \/ WaitForJobPod
  <2>1. /\ UNCHANGED <<closed, attach, hangup, watch>> /\ pc \in {"env", "create", "wait"}
        /\ \/ pc' \in {"create", "wait", "fork"} /\ UNCHANGED result
           \/ pc' \in {"done", "delete"}
      BY <1>1 DEF BuildEnv, EnvFails, CreateJob, WaitForJobPod, Unattachable, Go, Return, client,
             stream, signals
  <2>. QED BY <2>1
<1>2. CASE Preamble
  <2>1. /\ UNCHANGED <<closed, attach, hangup>> /\ pc = "fork"
        /\ \/ pc' = "begin" /\ UNCHANGED result
           \/ pc' = "delete" /\ UNCHANGED watch
      BY <1>2 DEF Preamble, Go, Return, client, stream
  <2>. QED BY <2>1
<1>3. CASE BeginTurn \/ BeginStats
  <2>1. /\ UNCHANGED <<result, closed, watch>> /\ attach' = "open" /\ hangup' = "none"
        /\ \/ pc = "begin" /\ pc' = "send"
           \/ pc = "stats" /\ pc' = "readStats"
      BY <1>3 DEF BeginTurn, BeginStats, Open, signals
  <2>. QED BY <2>1
<1>4. CASE Send \/ Forward \/ TakeReply
  <2>1. /\ UNCHANGED <<result, closed, attach, hangup, watch>>
        /\ \/ pc = "send" /\ pc' = "read"
           \/ pc = "read" /\ pc' = "read"
           \/ pc = "reply" /\ pc' = "begin"
      BY <1>4 DEF Send, Forward, TakeReply, Go, session, client, stream, signals
  <2>. QED BY <2>1
<1>5. CASE EndTurn \/ ReadStats
  <2>1. /\ UNCHANGED <<result, closed, hangup, watch>>
        /\ \/ /\ pc = "read" /\ pc' = "close"
              /\ attach' = IF attach = "open" THEN "eof" ELSE attach
           \/ /\ pc = "readStats" /\ pc' = "closeStats"
              /\ attach' = IF attach = "open" THEN "eof" ELSE attach
           \/ pc = "readStats" /\ UNCHANGED <<pc, attach>>
      BY <1>5 DEF EndTurn, ReadStats, signals
  <2>. QED BY <2>1
<1>6. CASE BreakTurn \/ FailToClose \/ ReplyFails \/ ReplyTimeout
    BY <1>6, ErrorCall DEF BreakTurn, FailToClose, ReplyFails, ReplyTimeout
<1>7. CASE CloseTurn
  <2>1. /\ UNCHANGED <<closed, attach, hangup, watch>> /\ pc = "close" /\ hangup = "clean"
        /\ \/ pc' = "stats"
           \/ pc' = "reply" /\ UNCHANGED result
      BY <1>7 DEF CloseTurn, Go, Return, client, stream, signals
  <2>. QED BY <2>1
<1>8. CASE EndStats
  <2>1. /\ pc \in {"readStats", "closeStats"} /\ pc' = "leave"
        /\ UNCHANGED <<result, closed, hangup, watch>>
        /\ attach' = IF attach = "none" THEN "none" ELSE "loose"
      BY <1>8 DEF EndStats, Go, client, signals
  <2>. QED BY <2>1
<1>9. CASE Leave
  <2>1. /\ pc = "leave" /\ pc' = "delete" /\ closed' = TRUE /\ watch' = FALSE
        /\ UNCHANGED <<result, attach, hangup>>
      BY <1>9 DEF Leave, Go, stream
  <2>. QED BY <2>1
<1>10. CASE DeleteJob
  <2>1. /\ pc = "delete" /\ pc' = "done" /\ UNCHANGED <<result, closed, attach, hangup, watch>>
      BY <1>10 DEF DeleteJob, Go, client, stream, signals
  <2>. QED BY <2>1
<1>. QED
    BY <1>1, <1>2, <1>3, <1>4, <1>5, <1>6, <1>7, <1>8, <1>9, <1>10 DEF Worker

(* The attach call itself, the pod, people and the process.                *)
LEMMA OthersCall ==
    ASSUME CallInv, ~(Worker \/ ReplyTimeout \/ Pi), [Next]_vars
    PROVE  CallInv' /\ UNCHANGED <<result, panicked>>
<1>1. CASE AttachReturns \/ AttachBreaks \/ LooseEnds
  <2>1. /\ UNCHANGED <<pc, result, closed, watch, panicked>> /\ attach' = "none"
        /\ \/ attach \in {"open", "eof"} /\ hangup' # "none"
           \/ attach = "loose" /\ UNCHANGED hangup
      BY <1>1 DEF AttachReturns, AttachBreaks, LooseEnds, session, client, signals
  <2>. QED BY <2>1 DEF CallInv, OneAttachCall, Scoped, Decided, Waiting, Outside
<1>2. CASE WatchSees \/ WatchEnds
  <2>1. UNCHANGED <<pc, result, closed, attach, hangup, panicked>> /\ watch' = FALSE
      BY <1>2 DEF WatchSees, WatchEnds, session, client, stream
  <2>. QED BY <2>1 DEF CallInv, OneAttachCall, Scoped, Decided
<1>3. CASE Exit
  <2>1. /\ pc' = "killed" /\ attach' = "none" /\ watch' = FALSE
        /\ UNCHANGED <<result, closed, hangup, panicked>>
      BY <1>3 DEF Exit, client
  <2>. QED BY <2>1 DEF CallInv, OneAttachCall, Scoped, Decided, Waiting
<1>4. CASE PodRuns \/ PodDies \/ Cancel \/ Reply \/ Shutdown \/ UNCHANGED vars
  <2>1. UNCHANGED <<pc, result, attach, hangup, closed, watch, panicked>>
      BY <1>4 DEF PodRuns, PodDies, Cancel, Reply, Shutdown, vars, session, client, stream, signals
  <2>. QED BY <2>1, CallKept
<1>. QED BY <1>1, <1>2, <1>3, <1>4 DEF Next, Attach

LEMMA CallInvariance == Spec => []CallInv
<1>1. Init => CallInv
    BY DEF Init, CallInv, OneAttachCall, Scoped, Decided, Waiting
<1>2. CallInv /\ [Next]_vars => CallInv' BY WorkerCall, PiCall, OthersCall
<1>. QED BY <1>1, <1>2, PTL DEF Spec

(* One attach call at a time, and nobody waits for one that was given up,  *)
(* however Pi, its pod, a person and the process interfere (specgrill.go). *)
THEOREM CallsAreExclusive == Spec => []OneAttachCall
<1>1. CallInv => OneAttachCall BY DEF CallInv
<1>. QED BY <1>1, CallInvariance, PTL

(* The result of a run is decided once (driveAgentSession).                *)
THEOREM ResultsStand == Spec => ResultIsFinal
<1>1. CallInv /\ [Next]_vars => [result # "none" => result' = result]_result
    BY WorkerCall, PiCall, OthersCall
<1>. QED BY <1>1, CallInvariance, PTL DEF Spec, ResultIsFinal

(* Only what a given-up call prints ever meets the closed channel, for any *)
(* faults and any behaviour of Pi (rpc/client.go, k8s/attach.go).          *)
THEOREM OnlyLooseCallsPanic == Spec => PanicNeedsLooseCall
<1>1. CallInv /\ [Next]_vars => [panicked' # panicked => attach = "loose" /\ closed]_panicked
  <2>. SUFFICES ASSUME CallInv, [Next]_vars, panicked' # panicked
                PROVE  attach = "loose" /\ closed
      OBVIOUS
  <2>1. ~(Worker \/ ReplyTimeout)
      BY DEF Worker, ReplyTimeout, BuildEnv, CreateJob, WaitForJobPod, Preamble, BeginTurn, Send,
             Forward, EndTurn, BreakTurn, CloseTurn, FailToClose, TakeReply, ReplyFails,
             BeginStats, ReadStats, EndStats, Leave, DeleteJob, SessionError
  <2>. QED BY <2>1, PiCall, OthersCall
<1>. QED BY <1>1, CallInvariance, PTL DEF Spec, PanicNeedsLooseCall
=============================================================================
