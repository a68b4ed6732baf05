----------------------------- MODULE ForkPreamble -----------------------------
(***************************************************************************)
(* How a run that resumes an earlier one puts that run's stored session    *)
(* into its pod and branches it before the first turn (worker/fork.go,     *)
(* rpc/fork.go, k8s/exec.go).  One command is outstanding at a time.       *)
(***************************************************************************)
EXTENDS PiTurn

CONSTANT NoRefusal

VARIABLES
    resumes,    \* the run resumes an earlier one
    prompt,     \* what the first turn sends
    refusal     \* the fork_failed event, and whether an error is behind it

forkVars == <<resumes, prompt, refusal>>

Stages == {"write", "switch", "fork"}

ForkTypeOK ==
    /\ resumes \in BOOLEAN
    /\ prompt \in {"seed", "point", "empty"}
    /\ refusal \in [stage : Stages, error : BOOLEAN] \cup {NoRefusal}

ForkInit == resumes \in BOOLEAN /\ prompt = "seed" /\ refusal = NoRefusal

-----------------------------------------------------------------------------
(* A reported outcome: the run is failed, and its pod deleted.             *)
Refuse(stage) ==
    /\ at' = "delete"
    /\ refusal' = [stage |-> stage, error |-> FALSE]
    /\ UNCHANGED <<resumes, prompt>>

(* An answer that goes on to the next step.                                *)
Continue(to) == at' = to /\ UNCHANGED forkVars

(* Neither this call nor the next has a deadline: the preamble's own       *)
(* begins with the turn.                                                   *)
FetchJobSession ==
    /\ at = "fetch"
    /\ \/ ctx = "live" /\ Continue("write")
       \/ ("api" \in Faults \/ ctx # "live") /\ Refuse("write")
    /\ UNCHANGED <<ctx, turnVars>>

WritePodFile ==
    /\ at = "write"
    /\ \/ ctx = "live" /\ Continue("switch") /\ Open({"switch_session"})
       \/ ("exec" \in Faults \/ ctx # "live") /\ Refuse("write") /\ UNCHANGED turnVars
    /\ UNCHANGED ctx

Heard(command) == {answer \in answers : answer.to = command}

SwitchSession ==
    /\ at = "switch"
    /\ \E answer \in Heard("switch_session") :
          \/ answer.says = "ok" /\ Continue("verify") /\ Ask("get_state", answer)
          \/ answer.says # "ok" /\ Refuse("switch") /\ Close
    /\ UNCHANGED ctx

(* Mutant: a session that is where it should be is not looked into.        *)
LoadedByPath(says) == says \in {"stored", "empty"}

(* verifySwitch: Pi names the restored file, and it holds messages.        *)
Loaded(says) == says = "stored"

VerifySwitch ==
    /\ at = "verify"
    /\ \E answer \in Heard("get_state") :
          \/ Loaded(answer.says) /\ Continue("fork") /\ Ask("fork", answer)
          \/ ~Loaded(answer.says) /\ Refuse("switch") /\ Close
    /\ UNCHANGED ctx

(* Mutant: only a fork that an extension declined is taken for a failure.  *)
BranchedUnlessDeclined(says) == says # "declined"

Branched(says) == says \in {"ok", "bare"}

(* The text the fork returned, or none.                                    *)
PromptOf(says) == IF says = "bare" THEN "empty" ELSE "point"

Fork ==
    /\ at = "fork"
    /\ \E answer \in Heard("fork") :
          \/ /\ Branched(answer.says) /\ at' = "locate" /\ Ask("get_state", answer)
             /\ prompt' = PromptOf(answer.says) /\ UNCHANGED <<resumes, refusal>>
          \/ ~Branched(answer.says) /\ Refuse("fork") /\ Close
    /\ UNCHANGED ctx

(* The state is read once more, and what it says is not looked at.         *)
Locate ==
    /\ at = "locate"
    /\ Heard("get_state") # {}
    /\ Continue("turns")
    /\ Close
    /\ UNCHANGED ctx

Awaits == {"switch", "verify", "fork", "locate"}

(* The attach call or the context ended, or the minute is over, which      *)
(* needs no condition: runAgentRPCJob reports it as the stage "write".     *)
ForkError ==
    /\ at \in Awaits
    /\ at' = "delete"
    /\ refusal' = [stage |-> "write", error |-> TRUE]
    /\ Abandon
    /\ UNCHANGED <<ctx, resumes, prompt>>

(* What forkTurnTimeout bounds.                                            *)
ForkTurn == SwitchSession \/ VerifySwitch \/ Fork \/ Locate \/ ForkError

ForkIntoSession == FetchJobSession \/ WritePodFile \/ ForkTurn

-----------------------------------------------------------------------------
(* The first turn of a run that resumes another one is what the fork       *)
(* returned, never the usual seed, asked in a branch of that run's         *)
(* conversation: never in an empty one, in the restored one itself, or in  *)
(* a session of the run's own (fork.go: switch_session reports success for *)
(* a session that does not exist).                                         *)
RunsInItsBranch ==
    at = "turns" => IF resumes THEN conv = "branch" /\ prompt # "seed"
                               ELSE conv \in Own /\ prompt = "seed"

(* The stage a refusal names is where it stopped: "write" if Pi was never  *)
(* asked, "switch" if the stored conversation is not there, "fork" if it   *)
(* is and has not been branched (fork.go: each stage is a different thing  *)
(* for an operator to do).                                                 *)
StageOf(report) ==
    CASE report.stage = "write"  -> conv \in Own
      [] report.stage = "switch" -> conv \notin {"stored", "branch"}
      [] report.stage = "fork"   -> conv = "stored"

RefusalIsTruthful == refusal # NoRefusal /\ ~refusal.error => StageOf(refusal)
=============================================================================
