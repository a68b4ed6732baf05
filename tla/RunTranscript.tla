---------------------------- MODULE RunTranscript ----------------------------
(***************************************************************************)
(* What the API may count on when it reads the events of one agent run.    *)
(* The run tells it: an optional announcement that it started, then prose  *)
(* and questions, nothing but an ending while a question is open, and one  *)
(* ending that nothing follows.  Any of these may be lost on its way, so   *)
(* the API hears this story with gaps, never anything out of turn.         *)
(* AgentSession is shown to implement this module.                         *)
(***************************************************************************)
EXTENDS Sequences

VARIABLES
    posts,      \* the events told, in order, and whether each arrived
    asking      \* a question is open

vars == <<posts, asking>>

Endings == {"submit", "build_failed", "run_failed", "fork_failed", "run_cancelled"}

Started == posts # <<>>
Ended   == posts # <<>> /\ posts[Len(posts)].event \in Endings

Init == posts = <<>> /\ asking = FALSE

Post(event) ==
    \E arrived \in BOOLEAN : posts' = Append(posts, [event |-> event, arrived |-> arrived])

Start == ~Started /\ Post("run_started") /\ UNCHANGED asking

Speak == Started /\ ~Ended /\ ~asking /\ Post("agent_text") /\ UNCHANGED asking

Ask == Started /\ ~Ended /\ ~asking /\ Post("ask_user") /\ asking' = TRUE

Answer == asking /\ asking' = FALSE /\ UNCHANGED posts

End == ~Ended /\ (\E ending \in Endings : Post(ending)) /\ asking' = FALSE

Next == Start \/ Speak \/ Ask \/ Answer \/ End

Spec == Init /\ [][Next]_vars
=============================================================================
