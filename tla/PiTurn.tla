-------------------------------- MODULE PiTurn --------------------------------
(***************************************************************************)
(* What a turn of questions to Pi is made of: the commands sent and not    *)
(* answered, the answers printed and not read, and the attach call that    *)
(* carries them.  Pi is modelled from how worker/fork.go, worker/usage.go  *)
(* and the parsers of rpc/ take its answers: it answers in any order or    *)
(* not at all, and an answer no parser accepts is as good as none.         *)
(***************************************************************************)
EXTENDS Naturals

CONSTANT Faults     \* which faults the environment may inject

VARIABLES
    at,         \* where runAgentRPCJob is
    ctx,        \* the run's context: live, cancelled by a person, or the process stops
    link,       \* the attach call of the turn
    conv,       \* the conversation Pi has active
    asked,      \* commands sent in this turn that Pi has not answered
    answers     \* answers on the Events channel

turnVars == <<link, conv, asked, answers>>

Own == {"own", "memory"}    \* the run's own session: with a file, or without one

Commands == {"switch_session", "get_state", "fork", "get_session_stats", "get_fork_messages"}
Says     == {"ok", "bare", "declined", "refused"} \cup Own \cup {"none", "empty", "stored", "branch"}

TurnTypeOK ==
    /\ ctx \in {"live", "cancelled", "stopped"}
    /\ link \in {"none", "open", "broken"}
    /\ conv \in Own \cup {"none", "empty", "stored", "branch"}
    /\ asked \subseteq Commands
    /\ answers \subseteq [to : Commands, says : Says]

TurnInit ==
    /\ ctx = "live" /\ link = "none" /\ conv \in Own
    /\ asked = {} /\ answers = {}

Ended == {"done", "exited"}

Go(from, to) == at = from /\ at' = to

(* BeginTurn, Attach and the first Send.                                   *)
Open(commands) == link' = "open" /\ asked' = commands /\ answers' = {} /\ UNCHANGED conv

Ask(command, answer) ==
    /\ asked' = asked \cup {command}
    /\ answers' = answers \ {answer}
    /\ UNCHANGED <<link, conv>>

(* EndTurn, and the attach call returns.                                   *)
Close == link' = "none" /\ asked' = {} /\ answers' = {} /\ UNCHANGED conv

(* The turn is given up; a broken attach call stays one.                   *)
Abandon ==
    /\ link' = IF link = "broken" THEN "broken" ELSE "none"
    /\ asked' = {} /\ answers' = {}
    /\ UNCHANGED conv

-----------------------------------------------------------------------------
(* Pi.                                                                     *)

Say(command, says) ==
    /\ asked' = asked \ {command}
    /\ answers' = answers \cup {[to |-> command, says |-> says]}
    /\ UNCHANGED <<at, ctx, link>>

(* A session that cannot be loaded is reported as loaded, and nothing is.  *)
AnswerSwitch ==
    \/ \E loaded \in {"stored", "empty", "none"} : conv' = loaded /\ Say("switch_session", "ok")
    \/ \E no \in {"declined", "refused"} : Say("switch_session", no) /\ UNCHANGED conv

(* There is an entry to fork at only in the conversation it was taken from.*)
(* A success need not carry the text of that entry.                        *)
AnswerFork ==
    \/ \E done \in {"ok", "bare"} :
          conv = "stored" /\ conv' = "branch" /\ Say("fork", done)
    \/ \E no \in {"declined", "refused"} : Say("fork", no) /\ UNCHANGED conv

AnswerState == Say("get_state", conv) /\ UNCHANGED conv

AnswerOther(command) == Say(command, "ok") /\ UNCHANGED conv

PiAnswers ==
    /\ link = "open"
    /\ \E command \in asked :
          CASE command = "switch_session" -> AnswerSwitch
            [] command = "fork"           -> AnswerFork
            [] command = "get_state"      -> AnswerState
            [] OTHER                      -> AnswerOther(command)

(* The attach call ends on its own.                                        *)
LinkBreaks ==
    /\ "attach" \in Faults
    /\ link = "open" /\ link' = "broken"
    /\ UNCHANGED <<at, ctx, conv, asked, answers>>

(* The process begins to stop.                                             *)
Shutdown ==
    /\ "stop" \in Faults
    /\ at \notin Ended /\ ctx # "stopped" /\ ctx' = "stopped"
    /\ UNCHANGED <<at, turnVars>>

(* main waits for its web server and for no job: the process may be gone   *)
(* at any step of this one, and the pod stays behind.                      *)
Exit ==
    /\ ctx = "stopped"
    /\ at \notin Ended /\ at' = "exited"
    /\ Close
    /\ UNCHANGED ctx
=============================================================================
