---------------------------- MODULE PrimaryRelease ----------------------------
(***************************************************************************)
(* The project's primary Helm release and the API's deploy ledger          *)
(* (helm/deploy.go; runDeploy, runRollback and reportDeployResult of       *)
(* worker/worker.go).  Helm numbers the revisions of a release; a job that *)
(* appended one waits for it to be live, and reports to the ledger the     *)
(* revision it believes it made.                                           *)
(***************************************************************************)
EXTENDS Naturals, Sequences, JobBody

CONSTANTS
    TargetRevision, \* the revision a rollback goes back to
    Attempts,       \* attempts at a report: the backoffs and one
    MaxLost,        \* bound: requests or answers of reports ever lost
    NoReport

PrimaryReleaseAssumption ==
    /\ TargetRevision \in Nat \ {0}
    /\ Attempts \in Nat \ {0} /\ MaxLost \in Nat
    /\ NoReport \notin [revision : Nat, error : BOOLEAN, unread : BOOLEAN]

VARIABLES
    release,    \* the history of the release: the status of each revision
    produced,   \* the revision each job appended; 0 if none
    result,     \* what each job is going to report
    tries,      \* attempts each job has made at its report
    lost,       \* requests and answers lost so far
    ledger      \* the API's deploy ledger, one row per job

releaseVars == <<release, produced, result, tries, lost, ledger>>

Pending  == "pending"
Live     == {"deployed", "superseded"}
(* unread: the error says that the rollback worked and reading its         *)
(* revision back did not.                                                  *)
Reports   == [revision : Nat, error : BOOLEAN, unread : BOOLEAN]
Worked(n) == [revision |-> n, error |-> FALSE, unread |-> FALSE]
Refused   == [revision |-> 0, error |-> TRUE, unread |-> FALSE]
Unread    == [revision |-> 0, error |-> TRUE, unread |-> TRUE]

ReleaseTypeOK ==
    /\ release \in Seq({Pending, "failed"} \cup Live)
    /\ produced \in [Jobs -> Nat]
    /\ result \in [Jobs -> Reports \cup {NoReport}]
    /\ tries \in [Jobs -> 0..Attempts]
    /\ lost \in 0..MaxLost
    /\ ledger \in [Jobs -> Reports \cup {NoReport}]

(* Nothing was ever deployed, or one deploy was, which a rollback needs.   *)
ReleaseInit ==
    /\ release \in {<<>>, <<"deployed">>}
    /\ (\E j \in Jobs : kind[j] = "rollback") => release # <<>>
    /\ produced = [j \in Jobs |-> 0]
    /\ result = [j \in Jobs |-> NoReport]
    /\ tries = [j \in Jobs |-> 0]
    /\ lost = 0
    /\ ledger = [j \in Jobs |-> NoReport]

Decide(j, report) == result' = [result EXCEPT ![j] = report]

-----------------------------------------------------------------------------
(* Helm, as the code uses it: an operation appends a pending revision, and *)
(* none begins while the last one is pending.                              *)

Busy == release # <<>> /\ release[Len(release)] = Pending

Append1(j) ==
    /\ release' = Append(release, Pending)
    /\ produced' = [produced EXCEPT ![j] = Len(release) + 1]

Conclude(j, status) ==
    release' = [i \in 1..Len(release) |->
                  IF i = produced[j] THEN status
                  ELSE IF status = "deployed" /\ release[i] = "deployed" THEN "superseded"
                  ELSE release[i]]

(* The operation is refused and the refusal is reported.                   *)
Refuse(j, from) ==
    /\ Go(j, from, "report")
    /\ Decide(j, Refused)
    /\ UNCHANGED <<release, produced, tries, lost, ledger>>

-----------------------------------------------------------------------------
(* Deploy: the chart is resolved, then the history says whether to install *)
(* or to upgrade.                                                          *)
CheckHistory(j) ==
    /\ Works
    /\ kind[j] = "deploy"
    /\ Go(j, "chart", IF release = <<>> THEN "install" ELSE "upgrade")
    /\ UNCHANGED releaseVars

NoChart(j) ==
    /\ MayFail("api")
    /\ kind[j] = "deploy"
    /\ Go(j, "chart", "failed")
    /\ UNCHANGED releaseVars

Install(j) ==
    \/ /\ Works /\ release = <<>>
       /\ Go(j, "install", "wait")
       /\ Append1(j)
       /\ UNCHANGED <<result, tries, lost, ledger>>
    \/ (release # <<>> \/ MayFail("k8s")) /\ Refuse(j, "install")

(* Mutant: an upgrade that does not mind another operation going on.       *)
UpgradeOverPending(j) ==
    /\ Works
    /\ Go(j, "upgrade", "wait")
    /\ Append1(j)
    /\ UNCHANGED <<result, tries, lost, ledger>>

Upgrade(j) ==
    \/ /\ Works /\ ~Busy
       /\ Go(j, "upgrade", "wait")
       /\ Append1(j)
       /\ UNCHANGED <<result, tries, lost, ledger>>
    \/ (Busy \/ MayFail("k8s")) /\ Refuse(j, "upgrade")

(* Mutant: the revision is read from the history, as after a rollback.     *)
DeployEndsReread(j) ==
    /\ kind[j] = "deploy"
    /\ Go(j, "wait", "readBack")
    /\ Conclude(j, "deployed")
    /\ UNCHANGED <<produced, result, tries, lost, ledger>>

(* The deploy is live, or it timed out or was interrupted.                 *)
DeployEnds(j) ==
    /\ kind[j] = "deploy"
    /\ Go(j, "wait", "report")
    /\ \/ /\ Works
          /\ Conclude(j, "deployed")
          /\ Decide(j, Worked(produced[j]))
       \/ /\ MayFail("helm")
          /\ Conclude(j, "failed")
          /\ Decide(j, Refused)
    /\ UNCHANGED <<produced, tries, lost, ledger>>

-----------------------------------------------------------------------------
(* Rollback: it takes no context, and returns no revision.                 *)

Rollback(j) ==
    \/ /\ TargetRevision <= Len(release) /\ ~Busy
       /\ Go(j, "rollback", "wait")
       /\ Append1(j)
       /\ UNCHANGED <<result, tries, lost, ledger>>
    \/ /\ TargetRevision > Len(release) \/ Busy \/ "k8s" \in Faults
       /\ Refuse(j, "rollback")

RollbackEnds(j) ==
    /\ kind[j] = "rollback"
    /\ \/ /\ Go(j, "wait", "readBack")
          /\ Conclude(j, "deployed")
          /\ UNCHANGED result
       \/ /\ "helm" \in Faults
          /\ Go(j, "wait", "report")
          /\ Conclude(j, "failed")
          /\ Decide(j, Refused)
    /\ UNCHANGED <<produced, tries, lost, ledger>>

(* The greatest revision of the history is taken for the rollback's own.   *)
ReadBack(j) ==
    /\ Go(j, "readBack", "report")
    /\ \/ Decide(j, Worked(Len(release)))
       \/ "k8s" \in Faults /\ Decide(j, Unread)
    /\ UNCHANGED <<release, produced, tries, lost, ledger>>

-----------------------------------------------------------------------------
(* The report.  Only a deploy that worked goes on, to its Ingress.         *)

Reported(j) ==
    IF result[j].error THEN "failed" ELSE IF kind[j] = "deploy" THEN "expose" ELSE "done"

(* The API keeps the first row it was sent for a job.                      *)
Ingest(j) == ledger' = IF ledger[j] = NoReport THEN [ledger EXCEPT ![j] = result[j]] ELSE ledger

Report(j) ==
    /\ Works /\ at[j] = "report"
    /\ Go(j, "report", Reported(j))
    /\ Ingest(j)
    /\ UNCHANGED <<release, produced, result, tries, lost>>

(* Mutant: a report is tried as often as there are backoffs.               *)
IsLastEarly(attempt) == attempt >= Attempts - 1

IsLast(attempt) == attempt >= Attempts

(* The request is lost, or only its answer: the next attempt waits for its *)
(* backoff, and the last one gives up.                                     *)
ReportLost(j) ==
    /\ Works /\ at[j] = "report" /\ lost < MaxLost
    /\ \E to \in {"report", Reported(j)} :
          /\ to = Reported(j) <=> IsLast(tries[j] + 1)
          /\ Go(j, "report", to)
    /\ Ingest(j) \/ UNCHANGED ledger
    /\ tries' = [tries EXCEPT ![j] = @ + 1]
    /\ lost' = lost + 1
    /\ UNCHANGED <<release, produced, result>>

(* The context is done: no attempt is made any more, and the row of the    *)
(* job cannot be closed either.                                            *)
ReportAbandoned(j) ==
    /\ stopped
    /\ Go(j, "report", "killed")
    /\ Ingest(j) \/ UNCHANGED ledger
    /\ UNCHANGED <<release, produced, result, tries, lost>>

Roll(j) ==
    \/ CheckHistory(j) \/ NoChart(j) \/ Install(j) \/ Upgrade(j) \/ DeployEnds(j)
    \/ Rollback(j) \/ RollbackEnds(j) \/ ReadBack(j)
    \/ Report(j) \/ ReportLost(j) \/ ReportAbandoned(j)

-----------------------------------------------------------------------------
TookEffect(j) == produced[j] # 0 /\ release[produced[j]] \in Live

Truthful(j) ==
    ledger[j] # NoReport =>
        /\ ~ledger[j].error <=> TookEffect(j)
        /\ ~ledger[j].error => ledger[j].revision = produced[j]

(* The ledger tells the truth about every deploy: a row without an error   *)
(* names the revision that very deploy made and that went live, and a row  *)
(* with one belongs to a deploy that did not (deploy.go: the revision is   *)
(* returned, not derived from a history another operation may extend).     *)
DeployLedgerIsTrue == \A j \in Jobs : kind[j] = "deploy" => Truthful(j)

(* The same for rollbacks: Rollback "returns the revision the rollback     *)
(* itself produced" (deploy.go).                                           *)
RollbackLedgerIsTrue == \A j \in Jobs : kind[j] = "rollback" => Truthful(j)

(* What is live when its job gets past the report is in the ledger, as     *)
(* long as fewer messages are lost than the report is tried (worker.go: a  *)
(* revision missing from the ledger cannot be rolled back to).  A deploy   *)
(* has a row without an error and with its own revision.  A rollback whose *)
(* revision could not be read back has a row with an error, which says so: *)
(* any other error means that nothing went live.                           *)
LiveIsRecorded ==
    \A j \in Jobs :
        /\ at[j] \in {"expose", "putIngress", "done", "failed"}
        /\ TookEffect(j)
        => /\ ledger[j] # NoReport
           /\ kind[j] = "deploy" => ~ledger[j].error /\ ledger[j].revision = produced[j]
           /\ ledger[j].error => ledger[j].unread
=============================================================================
