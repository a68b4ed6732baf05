----------------------------- MODULE RunArtifacts -----------------------------
(***************************************************************************)
(* What a run restores before its first turn and leaves behind after its   *)
(* last one (runAgentRPCJob of worker/specgrill.go, worker/sessions.go,    *)
(* worker/recordings.go, worker/screenshots.go).  The turns themselves are *)
(* AgentSession's; here they end, with or without a terminal event, and    *)
(* have named some files.  Each is read out of the pod and posted, before  *)
(* the pod is deleted and whatever the run came to.                        *)
(***************************************************************************)
EXTENDS ForkPreamble, ClosingTurn, FiniteSets

CONSTANTS
    Steps,          \* test steps that take screenshots
    SessionsKept,   \* SessionMaxBytes > 0
    Patience        \* screenshot reads that may hang before their time is over

ASSUME RunArtifactsAssumption ==
    /\ IsFiniteSet(Steps) /\ Steps \cap {"recording", "session"} = {}
    /\ SessionsKept \in BOOLEAN /\ Patience \in Nat \ {0}

VARIABLES
    named,      \* the recording and the steps whose files the agent has named
    bad,        \* what could not be read, was too large, or was not taken by the API
    pending,    \* screenshots still to be collected
    patience,   \* reads the batch of screenshots still has time for
    wedged,     \* the upload of one has hung
    stored,     \* recordings and screenshots the API holds
    session,    \* what the API knows of the run's session
    points      \* what it knows of its fork points

artifactVars == <<named, bad, pending, patience, wedged, stored, session, points>>
vars == <<at, ctx, turnVars, forkVars, closingVars, artifactVars>>

Files == {"recording"} \cup Steps
Parts == Files \cup {"session"}

(* Every variable keeps its type.                                          *)
TypeOK ==
    /\ at \in {"fetch", "write", "turns", "ask", "listen", "account", "recording",
               "session", "points", "bytes", "shots", "delete"} \cup Awaits \cup Ended
    /\ TurnTypeOK /\ ForkTypeOK /\ ClosingTypeOK
    /\ named \subseteq Files /\ bad \subseteq Parts
    /\ pending \subseteq Steps /\ patience \in 0..Patience /\ wedged \in BOOLEAN
    /\ stored \subseteq Files
    /\ session \in {"unknown", "collected", "not_collected", "unavailable"}
    /\ points \in {"unknown", "captured", "unavailable"}

Init ==
    /\ TurnInit /\ ForkInit /\ ClosingInit
    /\ at = IF resumes THEN "fetch" ELSE "turns"
    /\ named = {} /\ bad = {}
    /\ pending = {} /\ patience = Patience /\ wedged = FALSE
    /\ stored = {} /\ session = "unknown" /\ points = "unknown"

-----------------------------------------------------------------------------
(* The turns end: with a terminal event, after which Pi is asked, or       *)
(* without one.                                                            *)
Turns ==
    /\ \/ Go("turns", "ask")
       \/ ctx # "live" /\ Go("turns", "recording")
       \/ "attach" \in Faults /\ Go("turns", "recording")
    /\ named' \in SUBSET Files
    /\ pending' = named' \cap Steps
    /\ UNCHANGED <<bad, patience, wedged, stored, session, points>>
    /\ UNCHANGED <<ctx, turnVars, forkVars, closingVars>>

(* A file that can be read, is not too large and is taken by the API, in a *)
(* context that outlives the run's.                                        *)
Keep(part) ==
    /\ bad' \in {bad, bad \cup {part}}
    /\ stored' = IF part \notin bad' THEN stored \cup {part} ELSE stored

CollectRecording ==
    /\ Go("recording", IF SessionsKept THEN "session" ELSE "shots")
    /\ IF "recording" \in named THEN Keep("recording") ELSE UNCHANGED <<stored, bad>>
    /\ UNCHANGED <<named, pending, patience, wedged, session, points>>

(* The post may not arrive, and nothing depends on it.                     *)
PostJobSession(outcome) ==
    \/ session' = outcome
    \/ "api" \in Faults /\ UNCHANGED session

(* Mutant: a question nobody asked is taken for one without an answer.     *)
FileUnknownNever == FALSE

FileUnknown == ~usage

FilePath == path \notin {"memory", "none"}

(* Without an answer, or without a file, nothing is said about the fork    *)
(* points either.                                                          *)
CollectSession ==
    /\ at = "session"
    /\ \/ FileUnknown /\ at' = "shots" /\ PostJobSession("unavailable")
       \/ ~FileUnknown /\ ~FilePath /\ at' = "shots" /\ PostJobSession("not_collected")
       \/ ~FileUnknown /\ FilePath /\ at' = "points" /\ UNCHANGED session
    /\ UNCHANGED <<named, bad, pending, patience, wedged, stored, points>>

OutcomeOfPoints == IF "get_fork_messages" \in got THEN "captured" ELSE "unavailable"

ReportForkPoints ==
    /\ Go("points", "bytes")
    /\ \/ points' = OutcomeOfPoints
       \/ "api" \in Faults /\ UNCHANGED points
    /\ UNCHANGED <<named, bad, pending, patience, wedged, stored, session>>

ReadSession ==
    /\ Go("bytes", "shots")
    /\ \/ "session" \notin bad /\ PostJobSession("collected")
       \/ PostJobSession("unavailable")
    /\ UNCHANGED <<named, bad, pending, patience, wedged, stored, points>>

(* Mutant: a read that hangs takes the time of the whole batch.            *)
SpentAtOnce == 0

Spent == patience - 1

(* One screenshot after the other.  A read that hangs costs the batch its  *)
(* own timeout; an upload has none, and takes whatever time is left.       *)
CollectScreenshot ==
    /\ at = "shots" /\ at' = at
    /\ \E step \in pending :
          /\ pending' = pending \ {step}
          /\ IF patience = 0 THEN UNCHANGED <<patience, wedged, stored, bad>>
             ELSE /\ Keep(step)
                  /\ \/ UNCHANGED <<patience, wedged>>
                     \/ step \in bad' /\ patience' = Spent /\ UNCHANGED wedged
                     \/ step \in bad' \ bad /\ patience' = 0 /\ wedged' = TRUE
    /\ UNCHANGED <<named, session, points>>

ScreenshotsDone == pending = {} /\ Go("shots", "delete") /\ UNCHANGED artifactVars

Collect ==
    /\ \/ CollectRecording \/ CollectSession \/ ReportForkPoints \/ ReadSession
       \/ CollectScreenshot \/ ScreenshotsDone
    /\ UNCHANGED <<ctx, turnVars, forkVars, closingVars>>

DeleteJob ==
    /\ Go("delete", "done")
    /\ UNCHANGED <<ctx, turnVars, forkVars, closingVars, artifactVars>>

-----------------------------------------------------------------------------
(* The pod is gone, and with it what has not been read.                    *)
PodDies ==
    /\ "pod" \in Faults
    /\ at \notin Ended /\ bad # Parts
    /\ bad' = Parts
    /\ link' = IF link = "open" THEN "broken" ELSE link
    /\ UNCHANGED <<at, ctx, conv, asked, answers, forkVars, closingVars>>
    /\ UNCHANGED <<named, pending, patience, wedged, stored, session, points>>

Restore == ForkIntoSession /\ UNCHANGED <<closingVars, artifactVars>>

Account == (TakeStats \/ PostJobUsage) /\ UNCHANGED <<forkVars, artifactVars>>

Environment ==
    \/ /\ PiAnswers \/ LinkBreaks \/ Shutdown \/ Exit
       /\ UNCHANGED <<forkVars, closingVars, artifactVars>>
    \/ Cancel /\ UNCHANGED <<forkVars, artifactVars>>
    \/ PodDies

Time == Tick /\ UNCHANGED <<forkVars, artifactVars>>

Over == at \in Ended /\ UNCHANGED vars

Next == Restore \/ Turns \/ Account \/ Collect \/ DeleteJob \/ Time \/ Environment \/ Over

Spec == Init /\ [][Next]_vars

(* What a context with a deadline bounds goes on, and time passes.         *)
(* Nothing is assumed of Pi, of people or of the turns, nor of the calls   *)
(* nothing bounds: FetchJobSession, WritePodFile, PostJobUsage, DeleteJob. *)
FairSpec ==
    /\ Spec
    /\ WF_vars(ForkTurn /\ UNCHANGED <<closingVars, artifactVars>>)
    /\ WF_vars(TakeStats /\ UNCHANGED <<forkVars, artifactVars>>)
    /\ WF_vars(Collect) /\ WF_vars(Time)

-----------------------------------------------------------------------------
(* What the API says is absent, or present, was established: it is told    *)
(* "not_collected" only of a run whose session has no file, "collected"    *)
(* only of a run's own session or branch, "captured" only if Pi answered,  *)
(* and it holds an accounting only if Pi gave one (sessions.go: nobody     *)
(* found out is not the same as there is none).                            *)
AbsenceIsEstablished ==
    /\ session = "not_collected" => conv = "memory"
    /\ session = "collected" => conv = IF resumes THEN "branch" ELSE "own"
    /\ points = "captured" => "get_fork_messages" \in got
    /\ accounted => PairIsIn

(* A run that ends, cancelled or in the middle of a shutdown, has stored   *)
(* what it named and what could be read and posted: the recording          *)
(* whatever becomes of the rest, the screenshots as long as no upload has  *)
(* hung and fewer reads fail than the batch has time for (screenshots.go:  *)
(* one wedged exec costs one timeout).  It is no promise about a process   *)
(* that exits first.                                                       *)
GoodArtifactsAreKept ==
    at = "done" =>
        /\ "recording" \in named \ bad => "recording" \in stored
        /\ ~wedged /\ Cardinality(bad \cap Steps) < Patience => named \ bad \subseteq stored

Bounded == Awaits \cup {"ask", "listen", "recording", "session", "points", "bytes", "shots"}

(* What waits for Pi or collects does not hold the worker slot for ever: a *)
(* Pi that accepts a command and never answers it is given up, in the      *)
(* preamble as in the closing turn (usage.go, fork.go).  The calls that    *)
(* nothing bounds are not among it.                                        *)
WaitsEnd == at \in Bounded ~> at \notin Bounded
=============================================================================
