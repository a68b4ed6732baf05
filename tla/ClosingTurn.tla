------------------------------ MODULE ClosingTurn ------------------------------
(***************************************************************************)
(* The last turn of a run (fetchSessionStats of worker/usage.go, called by *)
(* driveAgentSession): three questions at once, two of which must be       *)
(* answered.  It is bounded by a deadline, and the third answer by a grace *)
(* that begins when the other two are there.  Time passes in ticks, each   *)
(* far longer than it takes to read an answer.                             *)
(***************************************************************************)
EXTENDS PiTurn

CONSTANTS
    TurnTicks,      \* usageFetchTimeout
    GraceTicks,     \* forkMessagesGrace
    Unarmed

ASSUME ClosingTurnAssumption ==
    /\ TurnTicks \in Nat \ {0} /\ GraceTicks \in Nat \ {0}
    /\ Unarmed \notin Nat

VARIABLES
    clock,      \* ticks since the turn began
    armed,      \* when the grace began
    got,        \* the questions whose answers have been read
    path,       \* what get_state said: the conversation whose file it names
    usage,      \* the accounting has been read, and is posted
    accounted   \* the API holds it

closingVars == <<clock, armed, got, path, usage, accounted>>

Required  == {"get_session_stats", "get_state"}
Questions == Required \cup {"get_fork_messages"}

ClosingTypeOK ==
    /\ clock \in 0..TurnTicks
    /\ armed \in 0..TurnTicks \cup {Unarmed}
    /\ got \subseteq Questions
    /\ path \in Says
    /\ usage \in BOOLEAN /\ accounted \in BOOLEAN

ClosingInit ==
    /\ clock = 0 /\ armed = Unarmed /\ got = {} /\ path = "none"
    /\ usage = FALSE /\ accounted = FALSE

-----------------------------------------------------------------------------
AskForStats ==
    /\ ctx = "live"
    /\ Go("ask", "listen")
    /\ Open(Questions)
    /\ UNCHANGED <<ctx, closingVars>>

PairIsIn == Required \subseteq got

(* Mutant: the third answer is waited for like the other two.              *)
EnoughWithAll == got = Questions

Enough == PairIsIn /\ (got = Questions \/ clock >= armed + GraceTicks)

ReadAnswer ==
    /\ at = "listen" /\ ~Enough
    /\ \E answer \in answers :
          /\ answers' = answers \ {answer}
          /\ got' = got \cup {answer.to}
          /\ path' = IF answer.to = "get_state" THEN answer.says ELSE path
    /\ armed' = IF armed = Unarmed /\ Required \subseteq got' THEN clock ELSE armed
    /\ UNCHANGED <<at, ctx, link, conv, asked, clock, usage, accounted>>

(* The report is complete enough: the turn is closed.                      *)
Finish ==
    /\ Enough
    /\ Go("listen", "account")
    /\ usage' = TRUE
    /\ Close
    /\ UNCHANGED <<ctx, clock, armed, got, path, accounted>>

(* A post that fails is logged and dropped.  It is made under a context    *)
(* that never ends.                                                        *)
PostJobUsage ==
    /\ Go("account", "recording")
    /\ \/ accounted' = TRUE
       \/ "api" \in Faults /\ UNCHANGED accounted
    /\ UNCHANGED <<ctx, turnVars, clock, armed, got, path, usage>>

(* Mutant: nothing bounds the turn as long as the attach call is up.       *)
GivesUpOnError == link = "broken" \/ ctx # "live"

GivesUp == link = "broken" \/ ctx # "live" \/ clock = TurnTicks

(* Whatever has been read is dropped; got still says what Pi answered.     *)
StatsError ==
    /\ at \in {"ask", "listen"} /\ GivesUp
    /\ at' = "recording"
    /\ path' = "none"
    /\ Abandon
    /\ UNCHANGED <<ctx, clock, armed, got, usage, accounted>>

TakeStats == AskForStats \/ ReadAnswer \/ Finish \/ StatsError

Tick ==
    /\ at = "listen" /\ clock < TurnTicks
    /\ answers = {} /\ ~Enough
    /\ clock' = clock + 1
    /\ UNCHANGED <<at, ctx, turnVars, armed, got, path, usage, accounted>>

(* A person cancels the run, or a reply deadline does.                     *)
Cancel ==
    /\ at \in {"turns", "ask", "listen"}
    /\ ctx = "live" /\ ctx' = "cancelled"
    /\ UNCHANGED <<at, turnVars, closingVars>>

-----------------------------------------------------------------------------
Closed == at \notin {"fetch", "write", "switch", "verify", "fork", "locate", "turns",
                     "ask", "listen"}

(* Once Pi has answered the two required questions with time left for the  *)
(* grace, the accounting is read and posted and the session known, whether  *)
(* or not Pi knows the third question: only a broken connection or the end *)
(* of the run's context takes that away (usage.go: the third answer must   *)
(* not cost the other two).                                                *)
PairInTimeIsReported ==
    Closed /\ PairIsIn /\ armed + GraceTicks < TurnTicks /\ ctx = "live" /\ link # "broken"
        => usage
=============================================================================
