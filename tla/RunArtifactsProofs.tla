-------------------------- MODULE RunArtifactsProofs --------------------------
(***************************************************************************)
(* Proofs about RunArtifacts for any faults, any deadline and grace of the *)
(* closing turn, and any steps that take screenshots.                      *)
(***************************************************************************)
EXTENDS RunArtifacts, FiniteSetTheorems, TLAPS

USE DEF Ended

(* What the preamble waits for.                                            *)
Outstanding ==
    CASE at = "switch" -> "switch_session"
      [] at = "fork"   -> "fork"
      [] OTHER         -> "get_state"

(* One command of the preamble is outstanding at a time, and there is      *)
(* never an answer beside it.                                              *)
OneAtATime ==
    at \in Awaits =>
        \/ answers = {} /\ asked \subseteq {Outstanding}
        \/ asked = {} /\ \E says \in Says : answers = {[to |-> Outstanding, says |-> says]}

(* Outside a turn nothing is asked and nothing left unread.                *)
Quiet == at \notin Awaits \cup {"listen"} => asked = {} /\ answers = {}

Restored == {"stored", "empty", "none"}

RunsConv == IF resumes THEN {"branch"} ELSE Own

PastPreamble ==
    {"turns", "ask", "listen", "account", "recording", "session", "points", "bytes", "shots"}

(* Which conversation is active at each step, and what an answer that has  *)
(* not been read says of it.                                               *)
Conversation ==
    /\ at \in {"fetch", "write"} => conv \in Own
    /\ at = "switch" =>
          /\ asked # {} => conv \in Own
          /\ \A answer \in answers : conv \in IF answer.says = "ok" THEN Restored ELSE Own
    /\ at = "verify" =>
          /\ conv \in Restored
          /\ \A answer \in answers : answer.says = conv
    /\ at = "fork" =>
          /\ asked # {} => conv = "stored"
          /\ \A answer \in answers : conv = IF Branched(answer.says) THEN "branch" ELSE "stored"
    /\ at = "locate" => conv = "branch" /\ prompt # "seed"
    /\ at \in PastPreamble => conv \in RunsConv
    /\ at \in Awaits \cup {"fetch", "write"} => resumes
    /\ at = "turns" /\ resumes => prompt # "seed"
    /\ ~resumes => prompt = "seed"

(* A refusal ends the run, and names the right stage.                      *)
Refusals == refusal # NoRefusal => at \in {"delete"} \cup Ended /\ RefusalIsTruthful

(* The closing turn's questions are the ones asked and answered in it.     *)
Asking ==
    at = "listen" => asked \subseteq Questions /\ \A answer \in answers : answer.to \in Questions

(* What the closing turn has read, and how long it can still go on.        *)
Listening ==
    /\ at \in Awaits \cup {"fetch", "write", "turns", "ask"} =>
          got = {} /\ armed = Unarmed /\ clock = 0
    /\ at = "listen" =>
          /\ \A answer \in answers : answer.to = "get_state" => answer.says = conv
          /\ "get_state" \in got => path = conv
    /\ PairIsIn <=> armed # Unarmed
    /\ PairIsIn /\ at = "listen" => clock <= armed + GraceTicks
    /\ ~Closed => ~usage
    /\ usage => path = conv /\ PairIsIn
    /\ accounted => PairIsIn
    /\ at \in {"account"} => usage
    /\ PairInTimeIsReported

(* What the API is told, and from when on.                                 *)
Reports ==
    /\ at \in {"points", "bytes"} => usage /\ FilePath
    /\ at \notin {"shots", "delete"} \cup Ended => session = "unknown"
    /\ AbsenceIsEstablished

IInv ==
    /\ TypeOK /\ OneAtATime /\ Quiet /\ Asking
    /\ Conversation /\ Refusals /\ Listening /\ Reports

-----------------------------------------------------------------------------
(* The types, which need nothing but themselves.                           *)

LEMMA InitTypes == Init => TypeOK
<1>. SUFFICES ASSUME Init PROVE TypeOK OBVIOUS
<1>. USE RunArtifactsAssumption, ClosingTurnAssumption DEF Init, TurnInit, ForkInit, ClosingInit
<1>1. at \in {"fetch", "turns"} BY DEF ForkInit
<1>2. TurnTypeOK BY DEF TurnTypeOK, Own
<1>3. ForkTypeOK BY DEF ForkTypeOK
<1>4. ClosingTypeOK
  <2>1. clock \in 0..TurnTicks OBVIOUS
  <2>2. armed \in 0..TurnTicks \cup {Unarmed} OBVIOUS
  <2>3. got \subseteq Questions OBVIOUS
  <2>4. path \in Says BY DEF Says
  <2>5. usage \in BOOLEAN /\ accounted \in BOOLEAN OBVIOUS
  <2>. QED BY <2>1, <2>2, <2>3, <2>4, <2>5 DEF ClosingTypeOK
<1>5. patience \in 0..Patience OBVIOUS
<1>. QED BY <1>1, <1>2, <1>3, <1>4, <1>5 DEF TypeOK

(* The steps of a turn, whoever takes them.                                *)
LEMMA TurnTypes ==
    ASSUME TurnTypeOK, PiAnswers \/ LinkBreaks \/ Shutdown
    PROVE  TurnTypeOK' /\ at' = at
<1>1. CASE PiAnswers
  <2>1. PICK command \in asked :
           CASE command = "switch_session" -> AnswerSwitch
             [] command = "fork"           -> AnswerFork
             [] command = "get_state"      -> AnswerState
             [] OTHER                      -> AnswerOther(command)
      BY <1>1 DEF PiAnswers
  <2>2. PICK to \in asked, says \in Says :
           Say(to, says) /\ conv' \in {conv, "stored", "empty", "none", "branch"}
      BY <2>1 DEF AnswerSwitch, AnswerFork, AnswerState, AnswerOther, TurnTypeOK, Says, Own
  <2>. QED BY <2>2 DEF Say, TurnTypeOK, Own
<1>2. CASE LinkBreaks \/ Shutdown BY <1>2 DEF LinkBreaks, Shutdown, TurnTypeOK, turnVars
<1>. QED BY <1>1, <1>2

(* What a refusal is made of.                                              *)
LEMMA RefusalType ==
    ASSUME NEW stage \in Stages, NEW error \in BOOLEAN
    PROVE  [stage |-> stage, error |-> error] \in [stage : Stages, error : BOOLEAN]
OBVIOUS

LEMMA RefuseTypes ==
    ASSUME ForkTypeOK, NEW stage \in Stages, Refuse(stage)
    PROVE  at' = "delete" /\ ForkTypeOK'
BY RefusalType DEF Refuse, ForkTypeOK

LEMMA ContinueTypes ==
    ASSUME ForkTypeOK, NEW to, Continue(to)
    PROVE  at' = to /\ ForkTypeOK'
BY DEF Continue, ForkTypeOK, forkVars

LEMMA PreambleTypes ==
    ASSUME TypeOK, ForkIntoSession
    PROVE  at' \in Awaits \cup {"write", "turns", "delete"} /\ TurnTypeOK' /\ ForkTypeOK'
<1>1. ASSUME NEW to \in Awaits \cup {"write", "turns", "delete"},
             \/ Continue(to)
             \/ \E stage \in Stages : to = "delete" /\ Refuse(stage)
      PROVE  at' \in Awaits \cup {"write", "turns", "delete"} /\ ForkTypeOK'
    BY <1>1, RefuseTypes, ContinueTypes DEF TypeOK
<1>. USE DEF TypeOK, TurnTypeOK, Stages, Heard, Awaits, Commands, turnVars
<1>2. CASE FetchJobSession BY <1>1, <1>2 DEF FetchJobSession
<1>3. CASE WritePodFile BY <1>1, <1>3 DEF WritePodFile, Open
<1>4. CASE SwitchSession BY <1>1, <1>4 DEF SwitchSession, Ask, Close
<1>5. CASE VerifySwitch BY <1>1, <1>5 DEF VerifySwitch, Ask, Close
<1>6. CASE Fork
  <2>. PICK answer \in Heard("fork") :
          \/ /\ Branched(answer.says) /\ at' = "locate" /\ Ask("get_state", answer)
             /\ prompt' = PromptOf(answer.says) /\ UNCHANGED <<resumes, refusal>>
          \/ ~Branched(answer.says) /\ Refuse("fork") /\ Close
      BY <1>6 DEF Fork
  <2>1. CASE Refuse("fork") /\ Close
    <3>1. at' = "delete" /\ ForkTypeOK' BY <2>1, RefuseTypes
    <3>. QED BY <1>6, <2>1, <3>1 DEF Close, Fork
  <2>2. CASE /\ at' = "locate" /\ Ask("get_state", answer)
             /\ prompt' = PromptOf(answer.says) /\ UNCHANGED <<resumes, refusal>>
    <3>1. ForkTypeOK' BY <2>2 DEF PromptOf, ForkTypeOK
    <3>2. TurnTypeOK' BY <1>6, <2>2 DEF Ask, Fork
    <3>. QED BY <2>2, <3>1, <3>2
  <2>. QED BY <2>1, <2>2
<1>7. CASE Locate BY <1>1, <1>7 DEF Locate, Close
<1>8. CASE ForkError BY <1>8, RefusalType DEF ForkError, Abandon, ForkTypeOK
<1>. QED BY <1>2, <1>3, <1>4, <1>5, <1>6, <1>7, <1>8 DEF ForkIntoSession, ForkTurn

LEMMA AccountTypes ==
    ASSUME TypeOK, Asking, TakeStats \/ PostJobUsage
    PROVE  at' \in {"listen", "account", "recording"} /\ TurnTypeOK' /\ ClosingTypeOK'
<1>. USE DEF TypeOK, TurnTypeOK, ClosingTypeOK, Go
<1>1. CASE AskForStats
    BY <1>1 DEF AskForStats, Open, Questions, Required, Commands, closingVars
<1>2. CASE ReadAnswer
  <2>. PICK answer \in answers :
          /\ answers' = answers \ {answer}
          /\ got' = got \cup {answer.to}
          /\ path' = IF answer.to = "get_state" THEN answer.says ELSE path
      BY <1>2 DEF ReadAnswer
  <2>1. at' \in {"listen", "recording"} /\ TurnTypeOK'
      BY <1>2 DEF ReadAnswer
  <2>2. got' \subseteq Questions BY <1>2 DEF ReadAnswer, Asking
  <2>3. /\ clock' \in 0..TurnTicks /\ armed' \in 0..TurnTicks \cup {Unarmed}
        /\ usage' \in BOOLEAN /\ accounted' \in BOOLEAN
      BY <1>2 DEF ReadAnswer
  <2>4. path' \in Says OBVIOUS
  <2>. QED BY <2>1, <2>2, <2>3, <2>4
<1>3. CASE Finish BY <1>3 DEF Finish, Close
<1>4. CASE StatsError BY <1>4 DEF StatsError, Abandon, Says
<1>5. CASE PostJobUsage BY <1>5 DEF PostJobUsage, turnVars
<1>. QED BY <1>1, <1>2, <1>3, <1>4, <1>5 DEF TakeStats

LEMMA CollectTypes ==
    ASSUME TypeOK, \/ CollectRecording \/ CollectSession \/ ReportForkPoints \/ ReadSession
                   \/ CollectScreenshot \/ ScreenshotsDone,
           UNCHANGED <<ctx, turnVars, forkVars, closingVars>>
    PROVE  TypeOK'
<1>1. TurnTypeOK' BY DEF TypeOK, TurnTypeOK, turnVars
<1>2. ForkTypeOK' BY DEF TypeOK, ForkTypeOK, forkVars
<1>3. ClosingTypeOK' BY DEF TypeOK, ClosingTypeOK, closingVars
<1>. USE <1>1, <1>2, <1>3, RunArtifactsAssumption DEF TypeOK, Go, Files, Parts, PostJobSession
<1>4. CASE CollectRecording BY <1>4 DEF CollectRecording, Keep
<1>5. CASE CollectSession BY <1>5 DEF CollectSession
<1>6. CASE ReportForkPoints BY <1>6 DEF ReportForkPoints, OutcomeOfPoints
<1>7. CASE ReadSession BY <1>7 DEF ReadSession
<1>8. CASE CollectScreenshot
  <2>. PICK step \in pending :
          /\ pending' = pending \ {step}
          /\ IF patience = 0 THEN UNCHANGED <<patience, wedged, stored, bad>>
             ELSE /\ Keep(step)
                  /\ \/ UNCHANGED <<patience, wedged>>
                     \/ step \in bad' /\ patience' = Spent /\ UNCHANGED wedged
                     \/ step \in bad' \ bad /\ patience' = 0 /\ wedged' = TRUE
      BY <1>8 DEF CollectScreenshot
  <2>0. patience' \in 0..Patience BY DEF Spent
  <2>1. wedged' \in BOOLEAN
    <3>1. UNCHANGED wedged \/ wedged' = TRUE OBVIOUS
    <3>. QED BY <3>1
  <2>2. CASE patience = 0 BY <1>8, <2>2 DEF CollectScreenshot
  <2>3. CASE patience # 0
    <3>1. bad' \in {bad, bad \cup {step}} /\ stored' \in {stored, stored \cup {step}}
        BY <2>3 DEF Keep
    <3>. QED BY <1>8, <2>0, <2>1, <3>1 DEF CollectScreenshot
  <2>. QED BY <2>2, <2>3
<1>9. CASE ScreenshotsDone BY <1>9 DEF ScreenshotsDone, artifactVars
<1>. QED BY <1>4, <1>5, <1>6, <1>7, <1>8, <1>9

(* Every step keeps the types; the closing turn's because of what it asks. *)
LEMMA StepTypes == TypeOK /\ Asking /\ [Next]_vars => TypeOK'
<1>. SUFFICES ASSUME TypeOK, Asking, [Next]_vars PROVE TypeOK' OBVIOUS
<1>1. CASE Restore
    BY <1>1, PreambleTypes DEF Restore, TypeOK, ClosingTypeOK, closingVars, artifactVars
<1>2. CASE Turns
  <2>1. at' \in {"ask", "recording"} BY <1>2 DEF Turns, Go
  <2>2. TurnTypeOK' /\ ForkTypeOK' /\ ClosingTypeOK'
      BY <1>2 DEF Turns, TypeOK, TurnTypeOK, ForkTypeOK, ClosingTypeOK, turnVars, forkVars, closingVars
  <2>3. named' \subseteq Files /\ pending' \subseteq Steps BY <1>2 DEF Turns
  <2>. QED BY <1>2, <2>1, <2>2, <2>3 DEF Turns, TypeOK
<1>3. CASE Account
    BY <1>3, AccountTypes DEF Account, TypeOK, ForkTypeOK, forkVars, artifactVars
<1>4. CASE Collect BY <1>4, CollectTypes DEF Collect
<1>5. CASE DeleteJob \/ UNCHANGED vars
  <2>1. at' \in {at, "done"} /\ UNCHANGED <<ctx, turnVars, forkVars, closingVars, artifactVars>>
      BY <1>5 DEF DeleteJob, Go, vars
  <2>. QED
      BY <2>1 DEF TypeOK, TurnTypeOK, ForkTypeOK, ClosingTypeOK, turnVars, forkVars, closingVars,
                  artifactVars
<1>6. CASE Time
  <2>1. clock' \in 0..TurnTicks
      BY <1>6, ClosingTurnAssumption DEF Time, Tick, TypeOK, ClosingTypeOK
  <2>. QED
      BY <1>6, <2>1 DEF Time, Tick, TypeOK, TurnTypeOK, ForkTypeOK, ClosingTypeOK, turnVars,
                        forkVars, artifactVars
<1>7. CASE Environment
  <2>0. CASE Exit /\ UNCHANGED <<forkVars, closingVars, artifactVars>>
      BY <2>0 DEF Exit, Close, TypeOK, TurnTypeOK, ForkTypeOK, ClosingTypeOK, forkVars, closingVars,
                  artifactVars
  <2>1. CASE /\ PiAnswers \/ LinkBreaks \/ Shutdown
             /\ UNCHANGED <<forkVars, closingVars, artifactVars>>
    <3>1. TurnTypeOK' /\ at' = at BY <2>1, TurnTypes DEF TypeOK
    <3>. QED
        BY <2>1, <3>1 DEF TypeOK, ForkTypeOK, ClosingTypeOK, forkVars, closingVars, artifactVars
  <2>2. CASE Cancel /\ UNCHANGED <<forkVars, artifactVars>>
      BY <2>2 DEF Cancel, TypeOK, TurnTypeOK, ForkTypeOK, ClosingTypeOK, turnVars, forkVars,
                  closingVars, artifactVars
  <2>3. CASE PodDies
      BY <2>3 DEF PodDies, TypeOK, TurnTypeOK, ForkTypeOK, ClosingTypeOK, forkVars, closingVars
  <2>. QED BY <1>7, <2>0, <2>1, <2>2, <2>3 DEF Environment
<1>. QED BY <1>1, <1>2, <1>3, <1>4, <1>5, <1>6, <1>7 DEF Next, Over

-----------------------------------------------------------------------------
(* The other conjuncts of the invariant, which relate the conversation to  *)
(* what is asked, and what has been read to what is reported.              *)

Related == OneAtATime /\ Quiet /\ Asking /\ Conversation /\ Refusals /\ Listening /\ Reports

LEMMA InitRelated == Init => Related
<1>. SUFFICES ASSUME Init PROVE Related OBVIOUS
<1>. USE DEF Init, TurnInit, ForkInit, ClosingInit
<1>1. at = (IF resumes THEN "fetch" ELSE "turns") OBVIOUS
<1>2. OneAtATime /\ Quiet /\ Asking BY <1>1 DEF OneAtATime, Quiet, Asking, Awaits
<1>3. Conversation BY <1>1 DEF Conversation, RunsConv, PastPreamble, Awaits, Own
<1>4. Refusals /\ Reports BY <1>1 DEF Refusals, Reports, AbsenceIsEstablished
<1>5. Listening BY <1>1 DEF Listening, PairInTimeIsReported, PairIsIn, Required, Awaits
<1>. QED BY <1>2, <1>3, <1>4, <1>5 DEF Related

(* The preamble touches neither what the closing turn reads nor reports.   *)
LEMMA PreambleKeeps ==
    ASSUME IInv, ForkIntoSession, UNCHANGED <<closingVars, artifactVars>>
    PROVE  Listening' /\ Reports' /\ Asking'
<1>1. at' \in Awaits \cup {"write", "turns", "delete"} /\ ctx' = ctx
    BY PreambleTypes DEF ForkIntoSession, ForkTurn, FetchJobSession, WritePodFile, SwitchSession,
           VerifySwitch, Fork, Locate, ForkError, Awaits, IInv
<1>2. at \in Awaits \cup {"fetch", "write"}
    BY DEF ForkIntoSession, ForkTurn, FetchJobSession, WritePodFile, SwitchSession, VerifySwitch, Fork,
           Locate, ForkError, Awaits
<1>3. got' = {} /\ armed' = Unarmed /\ clock' = 0 /\ ~usage' /\ ~accounted' /\ session' = "unknown"
      /\ points' = points /\ got = got'
    BY <1>2 DEF IInv, Listening, Reports, closingVars, artifactVars, Closed, Awaits, PairIsIn, Required
<1>4. Listening'
    BY <1>1, <1>3 DEF Listening, PairInTimeIsReported, PairIsIn, Required, Awaits
<1>5. Reports' /\ Asking'
    BY <1>1, <1>3 DEF IInv, Reports, AbsenceIsEstablished, Asking, Awaits
<1>. QED BY <1>4, <1>5

(* A refusal leaves nothing asked, and nothing to run.                     *)
LEMMA RefusalRelates ==
    ASSUME at' = "delete", RefusalIsTruthful',
           asked' = {}, answers' = {}, UNCHANGED <<resumes, prompt>>, Conversation
    PROVE  OneAtATime' /\ Quiet' /\ Conversation' /\ Refusals'
<1>1. OneAtATime' /\ Quiet' BY DEF OneAtATime, Quiet, Awaits
<1>2. Conversation' BY DEF Conversation, PastPreamble, Awaits
<1>3. Refusals' BY DEF Refusals
<1>. QED BY <1>1, <1>2, <1>3

(* What each step of the preamble knows of the conversation when it ends.  *)
LEMMA PreambleRelates ==
    ASSUME IInv, ForkIntoSession
    PROVE  OneAtATime' /\ Quiet' /\ Conversation' /\ Refusals'
<1>. USE DEF IInv
<1>1. at \in Awaits \cup {"fetch", "write"} /\ refusal = NoRefusal /\ resumes
    BY DEF ForkIntoSession, ForkTurn, FetchJobSession, WritePodFile, SwitchSession, VerifySwitch, Fork,
           Locate, ForkError, Awaits, Refusals, Conversation
<1>2. ASSUME NEW stage \in Stages, Refuse(stage), asked' = {}, answers' = {},
             stage = "write" => conv' \in Own,
             stage = "switch" => conv' \notin {"stored", "branch"},
             stage = "fork" => conv' = "stored"
      PROVE  OneAtATime' /\ Quiet' /\ Conversation' /\ Refusals'
  <2>1. refusal'.stage = stage BY <1>2 DEF Refuse
  <2>2. RefusalIsTruthful' BY <1>2, <2>1 DEF RefusalIsTruthful, StageOf, Stages
  <2>. QED BY <1>2, <2>2, RefusalRelates DEF Refuse
<1>3. ASSUME NEW to, Continue(to)
      PROVE  Refusals' /\ at' = to /\ resumes' /\ prompt' = prompt
    BY <1>1, <1>3 DEF Continue, forkVars, Refusals
<1>. USE DEF Heard, forkVars, turnVars, Outstanding
<1>4. CASE FetchJobSession
  <2>1. conv' = conv /\ conv \in Own /\ asked' = {} /\ answers' = {}
      BY <1>4 DEF FetchJobSession, Conversation, Quiet, Awaits
  <2>2. CASE Continue("write")
      BY <1>1, <1>3, <2>1, <2>2 DEF OneAtATime, Quiet, Conversation, PastPreamble, Awaits
  <2>. QED BY <1>2, <1>4, <2>1, <2>2 DEF FetchJobSession, Stages
<1>5. CASE WritePodFile
  <2>1. conv' = conv /\ conv \in Own /\ answers' = {}
      BY <1>5 DEF WritePodFile, Conversation, Quiet, Awaits, Open
  <2>2. CASE Continue("switch") /\ Open({"switch_session"})
      BY <1>1, <1>3, <2>1, <2>2 DEF OneAtATime, Quiet, Conversation, PastPreamble, Awaits, Open
  <2>3. CASE Refuse("write") /\ UNCHANGED turnVars
      BY <1>1, <1>2, <1>5, <2>1, <2>3 DEF Quiet, Awaits, WritePodFile, Stages
  <2>. QED BY <1>5, <2>2, <2>3 DEF WritePodFile
<1>6. CASE SwitchSession
  <2>. PICK answer \in Heard("switch_session") :
          \/ answer.says = "ok" /\ Continue("verify") /\ Ask("get_state", answer)
          \/ answer.says # "ok" /\ Refuse("switch") /\ Close
      BY <1>6 DEF SwitchSession
  <2>1. at = "switch" /\ asked = {} /\ answers = {answer}
      BY <1>6 DEF SwitchSession, OneAtATime, Awaits
  <2>2. conv \in IF answer.says = "ok" THEN Restored ELSE Own BY <2>1 DEF Conversation
  <2>3. CASE answer.says = "ok" /\ Continue("verify") /\ Ask("get_state", answer)
      BY <1>1, <1>3, <2>1, <2>2, <2>3 DEF OneAtATime, Quiet, Conversation, PastPreamble, Awaits, Ask
  <2>4. CASE answer.says # "ok" /\ Refuse("switch") /\ Close
      BY <1>2, <2>2, <2>4 DEF Close, Own, Stages
  <2>. QED BY <2>3, <2>4
<1>7. CASE VerifySwitch
  <2>. PICK answer \in Heard("get_state") :
          \/ Loaded(answer.says) /\ Continue("fork") /\ Ask("fork", answer)
          \/ ~Loaded(answer.says) /\ Refuse("switch") /\ Close
      BY <1>7 DEF VerifySwitch
  <2>1. at = "verify" /\ asked = {} /\ answers = {answer}
      BY <1>7 DEF VerifySwitch, OneAtATime, Awaits
  <2>2. conv \in Restored /\ answer.says = conv BY <2>1 DEF Conversation
  <2>3. CASE Loaded(answer.says) /\ Continue("fork") /\ Ask("fork", answer)
      BY <1>1, <1>3, <2>1, <2>2, <2>3
         DEF OneAtATime, Quiet, Conversation, PastPreamble, Awaits, Ask, Loaded
  <2>4. CASE ~Loaded(answer.says) /\ Refuse("switch") /\ Close
      BY <1>2, <2>2, <2>4 DEF Close, Restored, Stages, Loaded
  <2>. QED BY <2>3, <2>4
<1>8. CASE Fork
  <2>. PICK answer \in Heard("fork") :
          \/ /\ Branched(answer.says) /\ at' = "locate" /\ Ask("get_state", answer)
             /\ prompt' = PromptOf(answer.says) /\ UNCHANGED <<resumes, refusal>>
          \/ ~Branched(answer.says) /\ Refuse("fork") /\ Close
      BY <1>8 DEF Fork
  <2>1. at = "fork" /\ asked = {} /\ answers = {answer}
      BY <1>8 DEF Fork, OneAtATime, Awaits
  <2>2. conv = IF Branched(answer.says) THEN "branch" ELSE "stored" BY <2>1 DEF Conversation
  <2>3. CASE /\ Branched(answer.says) /\ at' = "locate" /\ Ask("get_state", answer)
             /\ prompt' = PromptOf(answer.says) /\ UNCHANGED <<resumes, refusal>>
    <3>1. prompt' # "seed" BY <2>3 DEF PromptOf
    <3>2. conv' = "branch" /\ asked' = {"get_state"} /\ answers' = {} BY <2>1, <2>2, <2>3 DEF Ask
    <3>. QED
        BY <1>1, <2>3, <3>1, <3>2 DEF OneAtATime, Quiet, Conversation, PastPreamble, Awaits, Refusals
  <2>4. CASE ~Branched(answer.says) /\ Refuse("fork") /\ Close
      BY <1>2, <2>2, <2>4 DEF Close, Stages
  <2>. QED BY <2>3, <2>4
<1>9. CASE Locate
  <2>1. at' = "turns" /\ prompt' # "seed" /\ conv' = "branch" /\ asked' = {} /\ answers' = {}
        /\ resumes' = resumes /\ refusal' = NoRefusal
      BY <1>1, <1>9 DEF Locate, Continue, Close, Conversation
  <2>. QED
      BY <1>1, <2>1 DEF OneAtATime, Quiet, Conversation, PastPreamble, RunsConv, Awaits, Refusals
<1>10. CASE ForkError
  <2>1. refusal' # NoRefusal => refusal'.error BY <1>10 DEF ForkError
  <2>2. RefusalIsTruthful' BY <2>1 DEF RefusalIsTruthful
  <2>. QED BY <1>10, <2>2, RefusalRelates DEF ForkError, Abandon
<1>. QED BY <1>4, <1>5, <1>6, <1>7, <1>8, <1>9, <1>10 DEF ForkIntoSession, ForkTurn

-----------------------------------------------------------------------------
(* What Pi may say of the conversation, by the question.                   *)
Said(to, says) ==
    /\ to = "switch_session" => IF says = "ok" THEN conv' \in Restored ELSE conv' = conv
    /\ to = "fork" =>
          IF Branched(says) THEN conv = "stored" /\ conv' = "branch" ELSE conv' = conv
    /\ to = "get_state" => says = conv
    /\ to \notin {"switch_session", "fork"} => conv' = conv

LEMMA PiSays ==
    ASSUME TurnTypeOK, PiAnswers
    PROVE  \E to \in asked, says \in Says : Say(to, says) /\ Said(to, says)
<1>1. PICK command \in asked :
         CASE command = "switch_session" -> AnswerSwitch
           [] command = "fork"           -> AnswerFork
           [] command = "get_state"      -> AnswerState
           [] OTHER                      -> AnswerOther(command)
    BY DEF PiAnswers
<1>2. CASE command = "switch_session"
    BY <1>1, <1>2 DEF AnswerSwitch, Said, Restored, Says
<1>3. CASE command = "fork" BY <1>1, <1>3 DEF AnswerFork, Said, Says, Branched
<1>4. CASE command = "get_state" BY <1>1, <1>4 DEF AnswerState, Said, TurnTypeOK, Says, Own
<1>5. CASE command \notin {"switch_session", "fork", "get_state"}
    BY <1>1, <1>5 DEF AnswerOther, Said, Says
<1>. QED BY <1>2, <1>3, <1>4, <1>5

LEMMA PiRelates ==
    ASSUME IInv, PiAnswers, UNCHANGED <<forkVars, closingVars, artifactVars>>
    PROVE  Related'
<1>. USE DEF IInv, forkVars, closingVars, artifactVars
<1>1. PICK to \in asked, says \in Says : Say(to, says) /\ Said(to, says)
    BY PiSays DEF TypeOK
<1>2. at' = at /\ ctx' = ctx /\ link' = link /\ asked' = asked \ {to}
      /\ answers' = answers \cup {[to |-> to, says |-> says]}
    BY <1>1 DEF Say
<1>3. at \in Awaits \cup {"listen"} BY DEF Quiet
<1>4. at \in Awaits => to = Outstanding /\ answers = {} /\ asked' = {}
    BY <1>2 DEF OneAtATime
<1>5. OneAtATime'
  <2>. SUFFICES ASSUME at \in Awaits PROVE OneAtATime' BY <1>2 DEF OneAtATime
  <2>1. answers' = {[to |-> Outstanding', says |-> says]} BY <1>2, <1>4 DEF Outstanding
  <2>. QED BY <1>4, <2>1 DEF OneAtATime
<1>6. Quiet' BY <1>2, <1>3 DEF Quiet
<1>7. Asking' BY <1>2 DEF Asking
<1>8. at = "listen" => conv' = conv BY <1>1 DEF Asking, Said, Questions, Required
<1>9. Conversation'
  <2>1. CASE at = "listen" BY <1>2, <1>8, <2>1 DEF Conversation, Awaits, PastPreamble, RunsConv
  <2>2. CASE at \in Awaits
    <3>1. answers' = {[to |-> Outstanding, says |-> says]} /\ asked' = {} BY <1>2, <1>4, <2>2
    <3>. USE <1>1, <1>2, <1>4, <2>2, <3>1 DEF Outstanding, Awaits
    <3>2. CASE at = "switch" BY <3>2 DEF Conversation, Said, PastPreamble
    <3>3. CASE at = "verify" BY <3>3 DEF Conversation, Said, PastPreamble
    <3>4. CASE at = "fork" BY <3>4 DEF Conversation, Said, PastPreamble
    <3>5. CASE at = "locate" BY <3>5 DEF Conversation, Said, PastPreamble
    <3>. QED BY <3>2, <3>3, <3>4, <3>5
  <2>. QED BY <1>3, <2>1, <2>2
<1>10. Refusals' BY <1>2, <1>3 DEF Refusals, Awaits
<1>11. ~Closed BY <1>3 DEF Closed, Awaits
<1>12. ~usage /\ ~usage' /\ session' = "unknown" /\ points' = points
    BY <1>3, <1>11 DEF Listening, Reports, Awaits
<1>13. Listening'
  <2>1. at = "listen" => \A answer \in answers' : answer.to = "get_state" => answer.says = conv'
      BY <1>1, <1>2, <1>8 DEF Listening, Said
  <2>2. Closed' = Closed /\ PairIsIn' = PairIsIn BY <1>2 DEF Closed, PairIsIn, Awaits
  <2>. QED BY <1>2, <1>8, <1>11, <1>12, <2>1, <2>2 DEF Listening, PairInTimeIsReported
<1>14. Reports' BY <1>2, <1>3, <1>12 DEF Reports, AbsenceIsEstablished, PairIsIn, Awaits
<1>. QED BY <1>5, <1>6, <1>7, <1>9, <1>10, <1>13, <1>14 DEF Related

(* What ends a context or a connection changes nothing that was said.      *)
LEMMA FaultsRelate ==
    ASSUME IInv, UNCHANGED <<at, conv, asked, answers, forkVars, closingVars, session, points>>,
           ctx' \in {ctx, "cancelled", "stopped"}, link' \in {link, "broken"}
    PROVE  Related'
<1>. USE DEF IInv, forkVars, closingVars
<1>1. OneAtATime' /\ Quiet' /\ Asking'
    BY DEF OneAtATime, Quiet, Asking, Outstanding
<1>2. Conversation' BY DEF Conversation, RunsConv
<1>3. Refusals' BY DEF Refusals, RefusalIsTruthful, StageOf
<1>4. Listening' BY DEF Listening, PairInTimeIsReported, PairIsIn, Closed
<1>5. Reports' BY DEF Reports, AbsenceIsEstablished, FilePath, PairIsIn
<1>. QED BY <1>1, <1>2, <1>3, <1>4, <1>5 DEF Related

-----------------------------------------------------------------------------
(* The turns and the closing turn.                                         *)

(* Past the preamble a conversation does not change.                       *)
LEMMA ConversationStays ==
    ASSUME Conversation, conv' = conv, UNCHANGED forkVars, at \in PastPreamble,
           at' \in (PastPreamble \ {"turns"}) \cup {"delete"} \cup Ended
    PROVE  Conversation'
BY DEF Conversation, PastPreamble, RunsConv, Awaits, forkVars

LEMMA TurnsRelate == ASSUME IInv, Turns PROVE Related'
<1>. USE DEF IInv, forkVars, closingVars, turnVars
<1>1. at = "turns" /\ at' \in {"ask", "recording"}
      /\ UNCHANGED <<ctx, turnVars, forkVars, closingVars, session, points>>
    BY DEF Turns, Go
<1>2. OneAtATime' /\ Quiet' /\ Asking' BY <1>1 DEF OneAtATime, Quiet, Asking, Awaits
<1>3. Conversation' BY <1>1, ConversationStays DEF PastPreamble
<1>4. Refusals' BY <1>1 DEF Refusals
<1>5. got = {} /\ armed = Unarmed /\ clock = 0 /\ ~usage /\ ~accounted /\ session = "unknown"
    BY <1>1 DEF Listening, Reports, Closed, PairIsIn, Required
<1>6. Listening' BY <1>1, <1>5 DEF Listening, PairInTimeIsReported, PairIsIn, Required, Awaits
<1>7. Reports' BY <1>1, <1>5 DEF Reports, AbsenceIsEstablished
<1>. QED BY <1>2, <1>3, <1>4, <1>6, <1>7 DEF Related

LEMMA AccountRelates ==
    ASSUME IInv, TakeStats, UNCHANGED <<forkVars, artifactVars>>
    PROVE  Related'
<1>. USE DEF IInv, forkVars, artifactVars
<1>1. at \in {"ask", "listen"} /\ at' \in {"listen", "account", "recording"}
      /\ UNCHANGED <<ctx, conv, session, points, accounted>>
    BY AccountTypes DEF TakeStats, AskForStats, ReadAnswer, Finish, StatsError, Go, Open, Close, Abandon,
           closingVars
<1>2. OneAtATime' BY <1>1 DEF OneAtATime, Awaits
<1>3. Conversation' BY <1>1, ConversationStays DEF PastPreamble
<1>4. Refusals' BY <1>1 DEF Refusals
<1>5. ~usage /\ session = "unknown" /\ session' = "unknown" /\ points' = points
    BY <1>1 DEF Listening, Reports, Closed
<1>6. got \subseteq got' BY DEF TakeStats, AskForStats, ReadAnswer, Finish, StatsError, closingVars
<1>7. Reports' BY <1>1, <1>5, <1>6 DEF Reports, AbsenceIsEstablished, PairIsIn
<1>8. Quiet' /\ Asking' /\ Listening'
  <2>. USE DEF PairIsIn
  <2>1. CASE AskForStats
    <3>1. at' = "listen" /\ asked' = Questions /\ answers' = {} /\ UNCHANGED closingVars
        BY <2>1 DEF AskForStats, Go, Open
    <3>2. got' = {} /\ armed' = Unarmed /\ clock' = 0 /\ ~usage' /\ ~accounted'
        BY <1>5, <2>1, <3>1 DEF AskForStats, Go, Listening, closingVars, Required
    <3>. QED
        BY <3>1, <3>2 DEF Quiet, Asking, Listening, PairInTimeIsReported, Closed, Awaits, Required
  <2>2. CASE ReadAnswer
    <3>. PICK answer \in answers :
            /\ answers' = answers \ {answer}
            /\ got' = got \cup {answer.to}
            /\ path' = IF answer.to = "get_state" THEN answer.says ELSE path
        BY <2>2 DEF ReadAnswer
    <3>1. at = "listen" /\ at' = "listen" /\ asked' = asked /\ clock' = clock /\ ~usage'
        BY <1>5, <2>2 DEF ReadAnswer
    <3>2. armed' = IF armed = Unarmed /\ PairIsIn' THEN clock ELSE armed
        BY <2>2 DEF ReadAnswer
    <3>3. "get_state" \in got' => path' = conv' BY <1>1, <3>1 DEF Listening
    <3>4. (PairIsIn' <=> armed' # Unarmed) /\ (PairIsIn' => clock' <= armed' + GraceTicks)
      <4>1. clock \in Nat /\ clock # Unarmed BY ClosingTurnAssumption DEF TypeOK, ClosingTypeOK
      <4>2. PairIsIn => PairIsIn' BY <1>6
      <4>3. CASE armed = Unarmed /\ PairIsIn'
          BY <3>1, <3>2, <4>1, <4>3, ClosingTurnAssumption
      <4>4. CASE ~(armed = Unarmed /\ PairIsIn')
          BY <3>1, <3>2, <4>2, <4>4 DEF Listening
      <4>. QED BY <4>3, <4>4
    <3>5. ~Closed' BY <3>1 DEF Closed
    <3>6. Quiet' /\ Asking' BY <3>1 DEF Quiet, Asking
    <3>7. \A a \in answers' : a.to = "get_state" => a.says = conv' BY <1>1, <3>1 DEF Listening
    <3>8. accounted' => PairIsIn' BY <1>1, <1>6 DEF Listening
    <3>. QED
        BY <3>1, <3>3, <3>4, <3>5, <3>6, <3>7, <3>8 DEF Listening, PairInTimeIsReported, Awaits
  <2>3. CASE Finish
    <3>1. at = "listen" /\ at' = "account" /\ usage' /\ asked' = {} /\ answers' = {}
          /\ UNCHANGED <<got, armed, clock, path>> /\ PairIsIn
        BY <2>3 DEF Finish, Go, Close, Enough
    <3>2. path' = conv' BY <1>1, <3>1 DEF Listening, Required
    <3>3. PairIsIn' <=> armed' # Unarmed BY <3>1 DEF Listening
    <3>4. Listening' BY <3>1, <3>2, <3>3 DEF Listening, PairInTimeIsReported, Closed, Awaits
    <3>. QED BY <3>1, <3>4 DEF Quiet, Asking, Awaits
  <2>4. CASE StatsError
    <3>1. at' = "recording" /\ asked' = {} /\ answers' = {} /\ ~usage'
          /\ UNCHANGED <<got, armed, clock>> /\ ctx' = ctx
        BY <1>5, <2>4 DEF StatsError, Abandon
    <3>2. ASSUME PairIsIn, armed + GraceTicks < TurnTicks, ctx = "live", link' # "broken"
          PROVE  FALSE
      <4>1. link # "broken" BY <2>4, <3>2 DEF StatsError, Abandon
      <4>2. clock = TurnTicks BY <2>4, <3>2, <4>1 DEF StatsError, GivesUp
      <4>3. at = "listen" BY <1>1, <3>2 DEF Listening, Required
      <4>4. clock <= armed + GraceTicks /\ armed # Unarmed BY <3>2, <4>3 DEF Listening
      <4>. QED BY <3>2, <4>2, <4>4, ClosingTurnAssumption DEF TypeOK, ClosingTypeOK
    <3>3. PairInTimeIsReported' BY <3>1, <3>2 DEF PairInTimeIsReported
    <3>4. PairIsIn' <=> armed' # Unarmed BY <3>1 DEF Listening
    <3>5. accounted' => PairIsIn' BY <1>1, <1>6 DEF Listening
    <3>6. Listening' BY <3>1, <3>3, <3>4, <3>5 DEF Listening, Awaits
    <3>. QED BY <3>1, <3>6 DEF Quiet, Asking, Awaits
  <2>. QED BY <2>1, <2>2, <2>3, <2>4 DEF TakeStats
<1>. QED BY <1>2, <1>3, <1>4, <1>7, <1>8 DEF Related

LEMMA UsageRelates ==
    ASSUME IInv, PostJobUsage, UNCHANGED <<forkVars, artifactVars>>
    PROVE  Related'
<1>. USE DEF IInv, forkVars, artifactVars, turnVars
<1>1. at = "account" /\ at' = "recording" /\ UNCHANGED <<ctx, turnVars, clock, armed, got, path, usage>>
    BY DEF PostJobUsage, Go
<1>2. OneAtATime' /\ Quiet' /\ Asking' BY <1>1 DEF OneAtATime, Quiet, Asking, Awaits
<1>3. Conversation' BY <1>1, ConversationStays DEF PastPreamble
<1>4. Refusals' BY <1>1 DEF Refusals
<1>5. PairIsIn /\ PairIsIn' BY <1>1 DEF Listening, PairIsIn
<1>6. Listening' BY <1>1, <1>5 DEF Listening, PairInTimeIsReported, Closed, Awaits
<1>7. Reports' BY <1>1, <1>5 DEF Reports, AbsenceIsEstablished
<1>. QED BY <1>2, <1>3, <1>4, <1>6, <1>7 DEF Related

(* The end of the process leaves behind what the API has been told.        *)
LEMMA ExitRelates ==
    ASSUME IInv, Exit, UNCHANGED <<forkVars, closingVars, artifactVars>>
    PROVE  Related'
<1>. USE DEF IInv, forkVars, closingVars, artifactVars
<1>1. at' = "exited" /\ ctx' = "stopped" /\ conv' = conv /\ asked' = {} /\ answers' = {}
    BY DEF Exit, Close
<1>2. OneAtATime' /\ Quiet' /\ Asking' BY <1>1 DEF OneAtATime, Quiet, Asking, Awaits
<1>3. Conversation' BY <1>1 DEF Conversation, PastPreamble, Awaits
<1>4. Refusals' BY <1>1 DEF Refusals, RefusalIsTruthful, StageOf
<1>5. Listening' BY <1>1 DEF Listening, PairInTimeIsReported, PairIsIn, Closed, Awaits
<1>6. Reports' BY <1>1 DEF Reports, AbsenceIsEstablished, PairIsIn
<1>. QED BY <1>2, <1>3, <1>4, <1>5, <1>6 DEF Related

-----------------------------------------------------------------------------
(* The collection, which only reads what the turns have left.              *)

LEMMA CollectRelates ==
    ASSUME IInv, Collect \/ DeleteJob
    PROVE  Related'
<1>. USE DEF IInv
<1>. DEFINE After == {"recording", "session", "points", "bytes", "shots", "delete", "done"}
<1>1. at \in After \ {"done"} /\ at' \in After \ {"recording"}
      /\ UNCHANGED <<ctx, turnVars, forkVars, closingVars>>
    BY DEF Collect, DeleteJob, CollectRecording, CollectSession, ReportForkPoints, ReadSession,
           CollectScreenshot, ScreenshotsDone, Go
<1>. USE DEF turnVars, closingVars
<1>2. OneAtATime' /\ Quiet' /\ Asking' BY <1>1 DEF OneAtATime, Quiet, Asking, Awaits
<1>3. Refusals'
  <2>1. CASE refusal = NoRefusal BY <1>1, <2>1 DEF Refusals, forkVars
  <2>2. CASE refusal # NoRefusal
    <3>1. at = "delete" /\ RefusalIsTruthful BY <1>1, <2>2 DEF Refusals
    <3>2. at' = "done"
        BY <1>1, <3>1 DEF Collect, DeleteJob, CollectRecording, CollectSession, ReportForkPoints,
           ReadSession, CollectScreenshot, ScreenshotsDone, Go
    <3>. QED BY <1>1, <3>1, <3>2 DEF Refusals, RefusalIsTruthful, StageOf, forkVars
  <2>. QED BY <2>1, <2>2
<1>4. Conversation'
  <2>1. CASE at = "delete"
    <3>1. at' = "done"
        BY <1>1, <2>1 DEF Collect, DeleteJob, CollectRecording, CollectSession, ReportForkPoints,
           ReadSession, CollectScreenshot, ScreenshotsDone, Go
    <3>. QED BY <1>1, <3>1 DEF Conversation, PastPreamble, Awaits, forkVars
  <2>2. CASE at # "delete"
      BY <1>1, <2>2, ConversationStays DEF PastPreamble
  <2>. QED BY <2>1, <2>2
<1>5. Listening'
  <2>1. Closed /\ Closed' /\ at' \notin Awaits \cup {"fetch", "write", "turns", "ask", "listen"}
      BY <1>1 DEF Closed, Awaits
  <2>2. PairIsIn' <=> PairIsIn BY <1>1 DEF PairIsIn
  <2>3. PairInTimeIsReported' BY <1>1, <2>1, <2>2 DEF Listening, PairInTimeIsReported
  <2>. QED BY <1>1, <2>1, <2>2, <2>3 DEF Listening
<1>6. Reports'
  <2>. USE <1>1 DEF Reports, AbsenceIsEstablished, FilePath, PairIsIn, forkVars
  <2>1. CASE CollectRecording BY <2>1 DEF CollectRecording, Go
  <2>2. CASE CollectSession
    <3>1. CASE ~usage /\ at' = "shots" /\ PostJobSession("unavailable")
        BY <2>2, <3>1 DEF CollectSession, PostJobSession
    <3>2. CASE usage /\ ~FilePath /\ at' = "shots" /\ PostJobSession("not_collected")
      <4>1. conv \in {"memory", "none"} /\ conv \in RunsConv
          BY <2>2, <3>2 DEF Listening, CollectSession, Conversation, PastPreamble
      <4>2. conv = "memory" BY <4>1 DEF RunsConv, Own
      <4>. QED BY <2>2, <3>2, <4>2 DEF CollectSession, PostJobSession
    <3>3. CASE usage /\ FilePath /\ at' = "points" /\ UNCHANGED session
        BY <2>2, <3>3 DEF CollectSession
    <3>. QED BY <2>2, <3>1, <3>2, <3>3 DEF CollectSession, FileUnknown
  <2>3. CASE ReportForkPoints BY <2>3 DEF ReportForkPoints, OutcomeOfPoints, Go
  <2>4. CASE ReadSession
    <3>1. at = "bytes" /\ at' = "shots" /\ points' = points
          /\ session' \in {session, "collected", "unavailable"}
        BY <2>4 DEF ReadSession, PostJobSession, Go
    <3>2. conv = IF resumes THEN "branch" ELSE "own"
      <4>1. path = conv /\ conv \in RunsConv /\ conv # "memory"
          BY <3>1 DEF Listening, Conversation, PastPreamble
      <4>. QED BY <4>1 DEF RunsConv, Own
    <3>. QED BY <3>1, <3>2
  <2>5. CASE CollectScreenshot BY <2>5 DEF CollectScreenshot
  <2>6. CASE ScreenshotsDone \/ DeleteJob
      BY <2>6 DEF ScreenshotsDone, DeleteJob, Go, artifactVars
  <2>. QED BY <2>1, <2>2, <2>3, <2>4, <2>5, <2>6 DEF Collect
<1>. QED BY <1>2, <1>3, <1>4, <1>5, <1>6 DEF Related

LEMMA TickRelates == ASSUME IInv, Time PROVE Related'
<1>. USE DEF IInv, forkVars, artifactVars, turnVars
<1>1. at = "listen" /\ clock' = clock + 1 /\ ~Enough
      /\ UNCHANGED <<at, ctx, turnVars, armed, got, path, usage, accounted, forkVars, artifactVars>>
    BY DEF Time, Tick
<1>2. OneAtATime' /\ Quiet' /\ Asking' BY <1>1 DEF OneAtATime, Quiet, Asking, Awaits
<1>3. Conversation' BY <1>1 DEF Conversation, RunsConv
<1>4. Refusals' BY <1>1 DEF Refusals
<1>5. PairIsIn => clock' <= armed + GraceTicks
    BY <1>1, ClosingTurnAssumption DEF Enough, Listening, TypeOK, ClosingTypeOK
<1>6. Listening'
    BY <1>1, <1>5 DEF Listening, PairInTimeIsReported, PairIsIn, Closed, Awaits
<1>7. Reports' BY <1>1 DEF Reports, AbsenceIsEstablished, PairIsIn
<1>. QED BY <1>2, <1>3, <1>4, <1>6, <1>7 DEF Related

LEMMA StepRelated == IInv /\ [Next]_vars => Related'
<1>. SUFFICES ASSUME IInv, [Next]_vars PROVE Related' OBVIOUS
<1>1. CASE Restore
  <2>1. Listening' /\ Reports' /\ Asking' BY <1>1, PreambleKeeps DEF Restore
  <2>2. OneAtATime' /\ Quiet' /\ Conversation' /\ Refusals'
      BY <1>1, PreambleRelates DEF Restore
  <2>. QED BY <2>1, <2>2 DEF Related
<1>2. CASE Turns BY <1>2, TurnsRelate
<1>3. CASE Account BY <1>3, AccountRelates, UsageRelates DEF Account
<1>4. CASE Collect \/ DeleteJob BY <1>4, CollectRelates
<1>5. CASE Time BY <1>5, TickRelates
<1>6. CASE Environment
  <2>1. CASE PiAnswers /\ UNCHANGED <<forkVars, closingVars, artifactVars>>
      BY <2>1, PiRelates
  <2>2. CASE (LinkBreaks \/ Shutdown) /\ UNCHANGED <<forkVars, closingVars, artifactVars>>
      BY <2>2, FaultsRelate DEF LinkBreaks, Shutdown, turnVars, artifactVars
  <2>3. CASE Cancel /\ UNCHANGED <<forkVars, artifactVars>>
      BY <2>3, FaultsRelate DEF Cancel, turnVars, artifactVars
  <2>4. CASE PodDies BY <2>4, FaultsRelate DEF PodDies
  <2>5. CASE Exit /\ UNCHANGED <<forkVars, closingVars, artifactVars>> BY <2>5, ExitRelates
  <2>. QED BY <1>6, <2>1, <2>2, <2>3, <2>4, <2>5 DEF Environment
<1>7. CASE UNCHANGED vars BY <1>7, FaultsRelate DEF vars, turnVars, artifactVars
<1>. QED BY <1>1, <1>2, <1>3, <1>4, <1>5, <1>6, <1>7 DEF Next, Over

-----------------------------------------------------------------------------
(* The screenshots that cost the batch its patience are among those that   *)
(* could not be kept and are dealt with.                                   *)
Lost == (bad \cap Steps) \ pending

(* Every artifact the run has named and that can be kept is stored or has  *)
(* its turn still to come, unless it is a screenshot and the batch has no  *)
(* time left, which takes as many reads as it has patience, or an upload.  *)
Kept ==
    /\ at \in Awaits \cup {"fetch", "write", "turns"} =>
          named = {} /\ pending = {} /\ patience = Patience
    /\ at \in {"delete", "done"} => pending = {}
    /\ wedged \/ Patience <= patience + Cardinality(Lost)
    /\ \A part \in named \ bad :
          \/ part \in stored \cup pending
          \/ patience = 0 /\ part \in Steps
          \/ part = "recording" /\ at \in {"ask", "listen", "account", "recording"}
          \/ at = "exited"

(* What is lost can only become more, as long as pending does not grow.    *)
LEMMA LostGrows ==
    ASSUME TypeOK, bad \subseteq bad', pending' \subseteq pending
    PROVE  /\ Cardinality(Lost) \in Nat /\ Cardinality(Lost') \in Nat
           /\ Cardinality(Lost) <= Cardinality(Lost')
           /\ \A step \in Lost' \ Lost : Cardinality(Lost) + 1 <= Cardinality(Lost')
<1>1. IsFiniteSet(Lost) /\ IsFiniteSet(Lost')
    BY RunArtifactsAssumption, FS_Subset DEF Lost
<1>2. Lost \subseteq Lost' BY DEF Lost
<1>3. ASSUME NEW step \in Lost' \ Lost PROVE Cardinality(Lost) + 1 <= Cardinality(Lost')
  <2>1. Lost \cup {step} \subseteq Lost' BY <1>2
  <2>2. Cardinality(Lost \cup {step}) = Cardinality(Lost) + 1
      BY <1>1, FS_AddElement
  <2>. QED BY <1>1, <2>1, <2>2, FS_Subset, FS_CardinalityType
<1>. QED BY <1>1, <1>2, <1>3, FS_Subset, FS_CardinalityType

LEMMA InitKept == Init => Kept
<1>. SUFFICES ASSUME Init PROVE Kept OBVIOUS
<1>1. patience = Patience /\ named = {} /\ pending = {} BY DEF Init
<1>2. Cardinality(Lost) \in Nat
    BY InitTypes, RunArtifactsAssumption, FS_Subset, FS_CardinalityType DEF Lost
<1>3. at \notin {"delete", "done"} BY DEF Init, ForkInit
<1>. QED BY <1>1, <1>2, <1>3, RunArtifactsAssumption DEF Kept

(* A step that leaves the artifacts to the collection.                     *)
LEMMA OthersKeep ==
    ASSUME TypeOK, Kept, UNCHANGED <<named, pending, patience, wedged, stored>>, bad \subseteq bad',
           \/ at' = at
           \/ at \in Awaits \cup {"fetch", "write"} /\ at' \in Awaits \cup {"write", "turns", "delete"}
           \/ at \in {"ask", "listen", "account"} /\ at' \in {"listen", "account", "recording"}
           \/ at = "delete" /\ at' = "done"
           \/ at' = "exited"
    PROVE  Kept'
<1>1. wedged' \/ Patience <= patience' + Cardinality(Lost')
  <2>1. Cardinality(Lost) \in Nat /\ Cardinality(Lost') \in Nat
        /\ Cardinality(Lost) <= Cardinality(Lost')
      BY LostGrows
  <2>. QED BY <2>1, RunArtifactsAssumption DEF Kept, TypeOK
<1>2. \A part \in named \ bad :
         part = "recording" /\ at \in {"ask", "listen", "account", "recording"} =>
            at' \in {"ask", "listen", "account", "recording", "exited"}
    BY DEF Awaits
<1>3. (at \in Awaits \cup {"fetch", "write", "turns"} => named = {} /\ pending = {} /\ patience = Patience)'
      /\ (at \in {"delete", "done"} => pending = {})'
    BY DEF Kept, Awaits
<1>. QED BY <1>1, <1>2, <1>3 DEF Kept

LEMMA ScreenshotKept == ASSUME TypeOK, Kept, CollectScreenshot PROVE Kept'
<1>. PICK step \in pending :
        /\ pending' = pending \ {step}
        /\ IF patience = 0 THEN UNCHANGED <<patience, wedged, stored, bad>>
           ELSE /\ Keep(step)
                /\ \/ UNCHANGED <<patience, wedged>>
                   \/ step \in bad' /\ patience' = Spent /\ UNCHANGED wedged
                   \/ step \in bad' \ bad /\ patience' = 0 /\ wedged' = TRUE
    BY DEF CollectScreenshot
<1>1. at = "shots" /\ at' = "shots" /\ named' = named BY DEF CollectScreenshot
<1>2. bad \subseteq bad' /\ stored \subseteq stored' BY DEF Keep
<1>3. /\ Cardinality(Lost) \in Nat /\ Cardinality(Lost') \in Nat
      /\ Cardinality(Lost) <= Cardinality(Lost')
      /\ \A lost \in Lost' \ Lost : Cardinality(Lost) + 1 <= Cardinality(Lost')
    BY <1>2, LostGrows
<1>4. wedged' \/ Patience <= patience' + Cardinality(Lost')
  <2>1. CASE patience' = patience /\ wedged' = wedged BY <1>3, <2>1, RunArtifactsAssumption DEF Kept, TypeOK
  <2>2. CASE step \in bad' /\ patience' = Spent /\ patience # 0 /\ wedged' = wedged
    <3>1. step \in Lost' \ Lost BY <2>2 DEF Lost, TypeOK
    <3>. QED BY <1>3, <2>2, <3>1, RunArtifactsAssumption DEF Kept, TypeOK, Spent
  <2>. QED BY <2>1, <2>2
<1>5. patience = 0 => patience' = 0 OBVIOUS
<1>6. patience # 0 => step \in stored' \cup bad' BY DEF Keep
<1>7. \A part \in named' \ bad' :
         part \in stored' \cup pending' \/ (patience' = 0 /\ part \in Steps)
  <2>. SUFFICES ASSUME NEW part \in named' \ bad', part \notin stored' \cup pending'
                PROVE  patience' = 0 /\ part \in Steps
      OBVIOUS
  <2>1. CASE part = step BY <1>5, <1>6, <2>1 DEF TypeOK
  <2>2. CASE part # step
    <3>1. part \in named \ bad /\ part \notin stored \cup pending BY <1>1, <1>2, <2>2
    <3>. QED BY <1>1, <1>5, <3>1 DEF Kept
  <2>. QED BY <2>1, <2>2
<1>. QED BY <1>1, <1>4, <1>7 DEF Kept, Awaits

LEMMA CollectKept == ASSUME TypeOK, Kept, Collect PROVE Kept'
<1>1. CASE CollectScreenshot BY <1>1, ScreenshotKept
<1>2. CASE \/ CollectRecording \/ CollectSession \/ ReportForkPoints \/ ReadSession
           \/ ScreenshotsDone
  <2>1. bad \subseteq bad' /\ stored \subseteq stored' /\ UNCHANGED <<named, pending, patience, wedged>>
      BY <1>2 DEF CollectRecording, Keep, CollectSession, ReportForkPoints, ReadSession,
                  ScreenshotsDone, artifactVars
  <2>2. at \in {"recording", "session", "points", "bytes", "shots"}
        /\ at' \in {"session", "points", "bytes", "shots", "delete"}
        /\ (at' = "delete" => pending = {})
      BY <1>2 DEF CollectRecording, CollectSession, ReportForkPoints, ReadSession,
                  ScreenshotsDone, Go
  <2>3. at = "recording" /\ "recording" \in named => "recording" \in stored' \cup bad'
      BY <1>2 DEF CollectRecording, Keep, CollectSession, ReportForkPoints, ReadSession,
                  ScreenshotsDone, Go
  <2>4. wedged' \/ Patience <= patience' + Cardinality(Lost')
    <3>1. Cardinality(Lost) \in Nat /\ Cardinality(Lost') \in Nat
          /\ Cardinality(Lost) <= Cardinality(Lost')
        BY <2>1, LostGrows
    <3>. QED BY <2>1, <3>1, RunArtifactsAssumption DEF Kept, TypeOK
  <2>5. \A part \in named' \ bad' :
           part \in stored' \cup pending' \/ (patience' = 0 /\ part \in Steps)
    <3>. SUFFICES ASSUME NEW part \in named' \ bad', part \notin stored' \cup pending'
                  PROVE  patience' = 0 /\ part \in Steps
        OBVIOUS
    <3>1. part \in named \ bad /\ part \notin stored \cup pending /\ patience' = patience BY <2>1
    <3>2. ~(part = "recording" /\ at = "recording") BY <2>3, <3>1
    <3>3. at # "exited" /\ at \notin {"ask", "listen", "account"} BY <2>2
    <3>. QED BY <3>1, <3>2, <3>3 DEF Kept
  <2>. QED BY <2>1, <2>2, <2>4, <2>5 DEF Kept, Awaits
<1>. QED BY <1>1, <1>2 DEF Collect

LEMMA StepKept == TypeOK /\ Kept /\ [Next]_vars => Kept'
<1>. SUFFICES ASSUME TypeOK, Kept, [Next]_vars PROVE Kept' OBVIOUS
<1>. USE DEF artifactVars
<1>1. CASE Restore
  <2>1. at' \in Awaits \cup {"write", "turns", "delete"}
      BY <1>1, PreambleTypes DEF Restore
  <2>2. at \in Awaits \cup {"fetch", "write"}
      BY <1>1 DEF Restore, ForkIntoSession, ForkTurn, FetchJobSession, WritePodFile, SwitchSession,
             VerifySwitch, Fork, Locate, ForkError, Awaits
  <2>. QED BY <1>1, <2>1, <2>2, OthersKeep DEF Restore
<1>2. CASE Turns
  <2>1. at = "turns" /\ at' \in {"ask", "recording"} /\ named' \subseteq Files
        /\ pending' = named' \cap Steps /\ UNCHANGED <<bad, patience, wedged, stored>>
      BY <1>2 DEF Turns, Go
  <2>2. Cardinality(Lost') \in Nat
      BY RunArtifactsAssumption, FS_Subset, FS_CardinalityType DEF Lost
  <2>3. patience' = Patience BY <2>1 DEF Kept
  <2>4. \A part \in named' \ bad' : part \in pending' \/ part = "recording" BY <2>1 DEF Files
  <2>. QED BY <2>1, <2>2, <2>3, <2>4, RunArtifactsAssumption DEF Kept, Awaits
<1>3. CASE Account
  <2>1. at \in {"ask", "listen", "account"} /\ at' \in {"listen", "account", "recording"}
      BY <1>3 DEF Account, TakeStats, AskForStats, ReadAnswer, Finish, StatsError, PostJobUsage, Go
  <2>. QED BY <1>3, <2>1, OthersKeep DEF Account
<1>4. CASE Collect BY <1>4, CollectKept
<1>5. CASE DeleteJob BY <1>5, OthersKeep DEF DeleteJob, Go
<1>6. CASE Time BY <1>6, OthersKeep DEF Time, Tick
<1>7. CASE Environment
  <2>1. CASE (PiAnswers \/ LinkBreaks \/ Shutdown) /\ UNCHANGED artifactVars
      BY <2>1, TurnTypes, OthersKeep DEF TypeOK
  <2>2. CASE Cancel /\ UNCHANGED artifactVars BY <2>2, OthersKeep DEF Cancel
  <2>3. CASE PodDies BY <2>3, OthersKeep DEF PodDies, TypeOK
  <2>4. CASE Exit /\ UNCHANGED artifactVars BY <2>4, OthersKeep DEF Exit
  <2>. QED BY <1>7, <2>1, <2>2, <2>3, <2>4 DEF Environment
<1>8. CASE UNCHANGED vars BY <1>8, OthersKeep DEF vars
<1>. QED BY <1>1, <1>2, <1>3, <1>4, <1>5, <1>6, <1>7, <1>8 DEF Next, Over

-----------------------------------------------------------------------------
LEMMA Invariance == Spec => [](IInv /\ Kept)
<1>1. Init => IInv /\ Kept BY InitTypes, InitRelated, InitKept DEF IInv, Related
<1>2. IInv /\ Kept /\ [Next]_vars => (IInv /\ Kept)'
  <2>. SUFFICES ASSUME IInv, Kept, [Next]_vars PROVE IInv' /\ Kept' OBVIOUS
  <2>1. TypeOK' BY StepTypes DEF IInv
  <2>2. Related' BY StepRelated
  <2>3. Kept' BY StepKept DEF IInv
  <2>. QED BY <2>1, <2>2, <2>3 DEF IInv, Related
<1>. QED BY <1>1, <1>2, PTL DEF Spec

(* Every variable keeps its type.                                          *)
THEOREM TypeCorrect == Spec => []TypeOK
BY Invariance, PTL DEF IInv

(* A run that resumes another one asks its first question, which is what   *)
(* the fork returned, in a branch of that run's conversation and nowhere   *)
(* else, whatever Pi answers and whatever fails on the way (worker/fork.go)*)
THEOREM ForkRunsInItsBranch == Spec => []RunsInItsBranch
<1>1. IInv => RunsInItsBranch
    BY DEF IInv, Conversation, PastPreamble, RunsConv, RunsInItsBranch
<1>. QED BY <1>1, Invariance, PTL

(* The stage a refused fork names is the one it stopped at.                *)
THEOREM ForkRefusalIsTruthful == Spec => []RefusalIsTruthful
<1>1. IInv => RefusalIsTruthful BY DEF IInv, Refusals, RefusalIsTruthful
<1>. QED BY <1>1, Invariance, PTL

(* Two answers that came in time for the grace of the third are reported,  *)
(* whatever the third one does (worker/usage.go), for any deadline and any *)
(* grace.                                                                  *)
THEOREM PairIsReported == Spec => []PairInTimeIsReported
<1>1. IInv => PairInTimeIsReported BY DEF IInv, Listening
<1>. QED BY <1>1, Invariance, PTL

(* What the API is told of the session and its fork points was established *)
(* by an answer of Pi's (worker/sessions.go).                              *)
THEOREM ReportsAreEstablished == Spec => []AbsenceIsEstablished
<1>1. IInv => AbsenceIsEstablished BY DEF IInv, Reports
<1>. QED BY <1>1, Invariance, PTL

(* The recording that was named and can be kept is stored, and so are the  *)
(* screenshots unless an upload hangs or the reads use up the time of the  *)
(* batch (worker/screenshots.go), for any number of steps and in any run   *)
(* whose process lives to its end.                                         *)
THEOREM GoodArtifactsStored == Spec => []GoodArtifactsAreKept
<1>1. IInv /\ Kept => GoodArtifactsAreKept
  <2>. SUFFICES ASSUME IInv, Kept, at = "done"
                PROVE  /\ "recording" \in named \ bad => "recording" \in stored
                       /\ ~wedged /\ Cardinality(bad \cap Steps) < Patience =>
                             named \ bad \subseteq stored
      BY DEF GoodArtifactsAreKept
  <2>1. pending = {} BY DEF Kept
  <2>2. "recording" \in named \ bad => "recording" \in stored
      BY <2>1, RunArtifactsAssumption DEF Kept
  <2>3. ASSUME ~wedged, Cardinality(bad \cap Steps) < Patience PROVE named \ bad \subseteq stored
    <3>1. Lost = bad \cap Steps BY <2>1 DEF Lost
    <3>2. Cardinality(bad \cap Steps) \in Nat
        BY RunArtifactsAssumption, FS_Subset, FS_CardinalityType
    <3>3. patience # 0 BY <2>3, <3>1, <3>2, RunArtifactsAssumption DEF Kept
    <3>. QED BY <2>1, <3>3 DEF Kept
  <2>. QED BY <2>2, <2>3
<1>. QED BY <1>1, Invariance, PTL
=============================================================================
