-------------------------- MODULE RunInClusterProofs --------------------------
(***************************************************************************)
(* Proofs about RunInCluster: the deploy ledger, the cluster cache, the    *)
(* image builds and the quota, for any jobs, any history of the release,   *)
(* any number of attempts at a report, and any faults of the cluster, of   *)
(* Helm and of the API.                                                    *)
(***************************************************************************)
EXTENDS RunInCluster, TLAPS

(* The steps before a job appends a revision.                              *)
Before == {"queued", "fetch", "build", "gate", "quota", "namespace", "createQuota",
           "updateQuota", "secrets", "putSecret", "chart", "install", "upgrade",
           "rollback", "create", "await"}

(* The steps from there to the report.                                     *)
Deploying == {"wait", "readBack", "report"}

(* The types the ledger depends on.                                        *)
LedgerTypeOK ==
    /\ at \in [Jobs -> Steps] /\ kind \in [Jobs -> Kinds]
    /\ release \in Seq({"pending", "failed", "deployed", "superseded"})
    /\ produced \in [Jobs -> Nat]
    /\ result \in [Jobs -> Primary!Reports \cup {NoReport}]
    /\ ledger \in [Jobs -> Primary!Reports \cup {NoReport}]
    /\ tries \in [Jobs -> Nat] /\ lost \in 0..MaxLost

(* A revision in the history belongs to the one job that appended it.      *)
OwnRevision ==
    /\ \A j \in Jobs : produced[j] <= Len(release)
    /\ \A j, k \in Jobs : produced[j] = produced[k] /\ produced[j] # 0 => j = k

(* What a job knows of its revision by where it is.                        *)
Position(j) ==
    /\ at[j] \in Before => produced[j] = 0 /\ result[j] = NoReport
    /\ at[j] = "wait" => produced[j] # 0 /\ release[produced[j]] = "pending" /\ result[j] = NoReport
    /\ at[j] = "readBack" =>
          /\ kind[j] = "rollback" /\ result[j] = NoReport
          /\ produced[j] # 0 => release[produced[j]] \in Primary!Live
    /\ at[j] = "report" => result[j] # NoReport

(* What a job is going to report of its deploy is true, and stays true     *)
(* because its revision is not pending any more.                           *)
Outcome(j) ==
    result[j] # NoReport =>
        /\ produced[j] # 0 => release[produced[j]] # "pending"
        /\ result[j].error /\ ~result[j].unread => ~Primary!TookEffect(j)
        /\ kind[j] = "deploy" =>
              /\ ~result[j].error <=> Primary!TookEffect(j)
              /\ ~result[j].error => result[j].revision = produced[j]

(* The ledger holds what was reported.  It holds it when the job goes on,  *)
(* if messages are not lost as often as a report is tried.                 *)
Row(j) ==
    /\ ledger[j] \in {NoReport, result[j]}
    /\ tries[j] <= lost
    /\ MaxLost < Attempts /\ at[j] \in {"expose", "putIngress", "done", "failed"} /\ produced[j] # 0 =>
          ledger[j] # NoReport

LedgerInv ==
    /\ LedgerTypeOK /\ OwnRevision
    /\ \A j \in Jobs : Position(j) /\ Outcome(j) /\ Row(j)

-----------------------------------------------------------------------------
LEMMA InitLedger == Init => LedgerInv
<1>. SUFFICES ASSUME Init PROVE LedgerInv OBVIOUS
<1>. USE DEF Init, Primary!ReleaseInit
<1>1. LedgerTypeOK
  <2>1. at \in [Jobs -> Steps] /\ kind \in [Jobs -> Kinds] BY DEF Steps
  <2>2. release \in Seq({"pending", "failed", "deployed", "superseded"})
    <3>1. CASE release = <<>> BY <3>1
    <3>2. CASE release = <<"deployed">> BY <3>2
    <3>. QED BY <3>1, <3>2
  <2>3. produced \in [Jobs -> Nat] /\ tries \in [Jobs -> Nat] OBVIOUS
  <2>4. result \in [Jobs -> Primary!Reports \cup {NoReport}]
        /\ ledger \in [Jobs -> Primary!Reports \cup {NoReport}]
      OBVIOUS
  <2>5. lost \in 0..MaxLost
      BY RunInClusterAssumption DEF Primary!PrimaryReleaseAssumption
  <2>. QED BY <2>1, <2>2, <2>3, <2>4, <2>5 DEF LedgerTypeOK
<1>2. OwnRevision BY <1>1 DEF OwnRevision, LedgerTypeOK
<1>3. ASSUME NEW j \in Jobs PROVE Position(j) /\ Outcome(j) /\ Row(j)
  <2>1. at[j] = "queued" /\ produced[j] = 0 /\ result[j] = NoReport /\ ledger[j] = NoReport
        /\ tries[j] = 0 /\ lost = 0
      OBVIOUS
  <2>. QED BY <2>1 DEF Position, Outcome, Row, Before
<1>. QED BY <1>1, <1>2, <1>3 DEF LedgerInv

-----------------------------------------------------------------------------
(* Steps that leave the release and the ledger alone.                      *)

Moves(k) ==
    \/ at'[k] = at[k]
    \/ at[k] \in Before /\ at'[k] \in Before \cup Ends
    \/ at[k] \in {"expose", "putIngress"} /\ at'[k] \in {"putIngress", "done", "failed"}
    \/ at'[k] = "killed"

(* A step of a job, or of the environment, that is not one on the release. *)
Aside ==
    /\ at' \in [Jobs -> Steps]
    /\ UNCHANGED <<kind, releaseVars>>
    /\ \A k \in Jobs : Moves(k)

LEMMA Elsewhere == ASSUME LedgerInv, Aside PROVE LedgerInv'
<1>. USE DEF LedgerInv, Aside, releaseVars
<1>1. LedgerTypeOK' /\ OwnRevision' BY DEF LedgerTypeOK, OwnRevision
<1>2. ASSUME NEW k \in Jobs PROVE (Position(k) /\ Outcome(k) /\ Row(k))'
  <2>1. Position(k)' BY DEF Position, Moves, Before, Ends
  <2>2. Outcome(k)' BY DEF Outcome, Primary!TookEffect
  <2>3. Row(k)' BY DEF Row, Position, Moves, Before, Ends
  <2>. QED BY <2>1, <2>2, <2>3
<1>. QED BY <1>1, <1>2

(* One job goes on, and the others stay where they are.                    *)
LEMMA OneMoves ==
    ASSUME LedgerTypeOK, NEW j \in Jobs, NEW to \in Steps, at' = [at EXCEPT ![j] = to],
           UNCHANGED <<kind, releaseVars>>, Moves(j)
    PROVE  Aside
<1>1. at' \in [Jobs -> Steps] BY DEF LedgerTypeOK
<1>2. \A k \in Jobs : Moves(k) BY DEF Moves, LedgerTypeOK
<1>. QED BY <1>1, <1>2 DEF Aside

LEMMA CacheElsewhere ==
    ASSUME LedgerTypeOK, NEW j \in Jobs, Resolve(j), UNCHANGED kind
    PROVE  Aside
<1>1. PICK to \in Before \cup {"failed"} : at[j] \in Before /\ at' = [at EXCEPT ![j] = to]
    BY DEF Resolve, Cache!Resolve, Cache!Cached, Cache!Ask, Cache!FetchOrganizationCluster,
           Cache!FetchFails, Cache!Reuse, Cache!Build, Cache!BuildFails, Cache!Go, Before
<1>2. UNCHANGED releaseVars BY DEF Resolve
<1>3. at'[j] = to BY <1>1 DEF LedgerTypeOK
<1>. QED BY <1>1, <1>2, <1>3, OneMoves DEF Moves, Before, Steps, Ends

LEMMA ObjectsElsewhere ==
    ASSUME LedgerTypeOK, NEW j \in Jobs, Provision(j), UNCHANGED kind
    PROVE  Aside
<1>1. PICK to \in Steps :
         /\ at' = [at EXCEPT ![j] = to]
         /\ \/ at[j] \in Before /\ to \in Before \cup Ends
            \/ at[j] \in {"expose", "putIngress"} /\ to \in {"putIngress", "done", "failed"}
    BY DEF Provision, Objects!Provision, Objects!FetchQuota, Objects!ReadQuota,
           Objects!CreateQuota, Objects!UpdateQuota, Objects!QuotaFails, Objects!PushSecret,
           Objects!PutSecret, Objects!SecretFails, Objects!ReadIngress, Objects!PutIngress,
           Objects!IngressFails, Objects!Go, Objects!GiveUp, Objects!Body, Before, Steps, Ends
<1>2. UNCHANGED releaseVars BY DEF Provision
<1>3. at'[j] = to BY <1>1 DEF LedgerTypeOK
<1>. QED BY <1>1, <1>2, <1>3, OneMoves DEF Moves

LEMMA ImagesElsewhere ==
    ASSUME LedgerTypeOK, NEW j \in Jobs, BuildImage(j) \/ Gate(j), UNCHANGED kind
    PROVE  Aside
<1>1. PICK to \in Before \cup {"done", "failed"} : at[j] \in Before /\ at' = [at EXCEPT ![j] = to]
    BY DEF BuildImage, Images!BuildImage, Images!NothingToBuild, Images!ClearName,
           Images!CreateBuildJob, Images!AwaitResult, Images!BuildRejected, Images!BuildTimesOut,
           Images!BuildFailsEarly, Images!Settle, Images!Go, Gate, Go, Before
<1>2. UNCHANGED releaseVars BY DEF BuildImage, Gate
<1>3. at'[j] = to BY <1>1 DEF LedgerTypeOK
<1>. QED BY <1>1, <1>2, <1>3, OneMoves DEF Moves, Before, Steps, Ends

LEMMA OthersElsewhere ==
    ASSUME LedgerTypeOK, Environment \/ Shutdown \/ Exit \/ UNCHANGED vars
    PROVE  Aside
<1>1. CASE Exit
  <2>1. at' \in [Jobs -> Steps] /\ UNCHANGED <<kind, releaseVars>>
      BY <1>1 DEF Exit, LedgerTypeOK, Steps, Ends
  <2>2. \A k \in Jobs : Moves(k) BY <1>1 DEF Exit, Moves
  <2>. QED BY <2>1, <2>2 DEF Aside
<1>2. CASE Environment \/ Shutdown \/ UNCHANGED vars
  <2>1. UNCHANGED <<at, kind, releaseVars>>
      BY <1>2 DEF Environment, Shutdown, vars, Cache!StoreKubeconfig, Cache!Tick,
             Objects!AddForeignLimit, Images!BuildCluster, Images!BuildPodStarts,
             Images!BuildPodEnds, Images!CollectBuildPod
  <2>. QED BY <2>1 DEF Aside, Moves, LedgerTypeOK
<1>. QED BY <1>1, <1>2

(* So a step is one on the release, or it leaves the release alone.        *)
LEMMA RollOrAside ==
    ASSUME LedgerTypeOK, [Next]_vars
    PROVE  Aside \/ \E j \in Jobs : Roll(j) /\ UNCHANGED kind
<1>1. ASSUME NEW j \in Jobs, RunJob(j) PROVE Aside \/ (Roll(j) /\ UNCHANGED kind)
    BY <1>1, CacheElsewhere, ObjectsElsewhere, ImagesElsewhere DEF RunJob
<1>. QED BY <1>1, OthersElsewhere DEF Next

-----------------------------------------------------------------------------
(* Steps on the release.                                                   *)

Statuses == {"pending", "failed", "deployed", "superseded"}

(* A job that does not move keeps what it knows, as long as its revision   *)
(* keeps its number and a revision that is over stays as good as it was.   *)
Keeps(k) ==
    /\ at'[k] = at[k] /\ kind'[k] = kind[k]
    /\ produced'[k] = produced[k] /\ result'[k] = result[k] /\ ledger'[k] = ledger[k]
    /\ tries'[k] = tries[k] /\ lost <= lost'
    /\ produced[k] # 0 =>
          /\ release'[produced[k]] = "pending" <=> release[produced[k]] = "pending"
          /\ release'[produced[k]] \in Primary!Live <=> release[produced[k]] \in Primary!Live

LEMMA OthersKept ==
    ASSUME LedgerInv, NEW k \in Jobs, Keeps(k), lost' \in Nat
    PROVE  (Position(k) /\ Outcome(k) /\ Row(k))'
<1>. USE DEF LedgerInv, Keeps
<1>1. Position(k)' BY DEF Position
<1>2. Outcome(k)' BY DEF Outcome, Primary!TookEffect
<1>3. Row(k)'
  <2>1. tries[k] \in Nat /\ lost \in Nat /\ tries[k] <= lost
      BY RunInClusterAssumption DEF LedgerTypeOK, Row, Primary!PrimaryReleaseAssumption
  <2>2. tries'[k] <= lost' BY <2>1
  <2>. QED BY <2>2 DEF Row
<1>. QED BY <1>1, <1>2, <1>3

(* A revision is appended.                                                 *)
LEMMA Appends ==
    ASSUME LedgerInv, NEW j \in Jobs, at[j] \in Before, at' = [at EXCEPT ![j] = "wait"],
           Primary!Append1(j), UNCHANGED <<kind, result, tries, lost, ledger>>
    PROVE  LedgerInv'
<1>. USE DEF LedgerInv, Primary!Append1, Primary!Pending
<1>. DEFINE n == Len(release) + 1
<1>1. release \in Seq(Statuses) /\ produced \in [Jobs -> Nat] /\ lost \in Nat
    BY RunInClusterAssumption DEF LedgerTypeOK, Statuses, Primary!PrimaryReleaseAssumption
<1>2. release' = Append(release, "pending") /\ produced' = [produced EXCEPT ![j] = n] /\ n \in Nat
    BY <1>1
<1>3. /\ Len(release') = n /\ release' \in Seq(Statuses) /\ release'[n] = "pending"
      /\ \A i \in 1..Len(release) : release'[i] = release[i]
    BY <1>1, <1>2 DEF Statuses
<1>4. LedgerTypeOK' BY <1>2, <1>3 DEF LedgerTypeOK, Steps, Statuses
<1>5. \A k \in Jobs : produced[k] \in 0..Len(release) BY <1>1 DEF OwnRevision
<1>6. OwnRevision' BY <1>1, <1>2, <1>3, <1>5 DEF OwnRevision
<1>7. ASSUME NEW k \in Jobs, k # j PROVE (Position(k) /\ Outcome(k) /\ Row(k))'
  <2>1. produced[k] # 0 => produced[k] \in 1..Len(release) BY <1>1, <1>5
  <2>2. Keeps(k) BY <1>1, <1>2, <1>3, <1>7, <2>1 DEF Keeps, LedgerTypeOK
  <2>. QED BY <1>1, <2>2, OthersKept
<1>8. (Position(j) /\ Outcome(j) /\ Row(j))'
  <2>1. at'[j] = "wait" /\ produced'[j] = n /\ result'[j] = NoReport
      BY <1>1, <1>2 DEF LedgerTypeOK, Position
  <2>2. n # 0 BY <1>1
  <2>. QED BY <1>1, <1>3, <2>1, <2>2 DEF Position, Outcome, Row, Before
<1>. QED BY <1>4, <1>6, <1>7, <1>8

(* Only what one job reports is decided.                                   *)
LEMMA Decides ==
    ASSUME LedgerInv, NEW j \in Jobs, at[j] \in Before \cup {"readBack"},
           at' = [at EXCEPT ![j] = "report"],
           NEW report \in Primary!Reports, Primary!Decide(j, report),
           kind[j] = "deploy" => report.error /\ ~Primary!TookEffect(j),
           report.error /\ ~report.unread => ~Primary!TookEffect(j),
           produced[j] # 0 => release[produced[j]] # "pending",
           UNCHANGED <<kind, release, produced, tries, lost, ledger>>
    PROVE  LedgerInv'
<1>. USE DEF LedgerInv, Primary!Decide
<1>1. LedgerTypeOK' BY DEF LedgerTypeOK, Steps
<1>2. OwnRevision' BY DEF OwnRevision
<1>3. lost \in Nat
    BY RunInClusterAssumption DEF LedgerTypeOK, Primary!PrimaryReleaseAssumption
<1>4. ASSUME NEW k \in Jobs, k # j PROVE (Position(k) /\ Outcome(k) /\ Row(k))'
  <2>1. Keeps(k) BY <1>3, <1>4 DEF Keeps, LedgerTypeOK
  <2>. QED BY <1>3, <2>1, OthersKept
<1>5. (Position(j) /\ Outcome(j) /\ Row(j))'
  <2>1. at'[j] = "report" /\ result'[j] = report BY DEF LedgerTypeOK
  <2>2. report # NoReport
      BY RunInClusterAssumption DEF Primary!PrimaryReleaseAssumption, Primary!Reports
  <2>3. ledger[j] = NoReport BY DEF Row, Position
  <2>4. Position(j)' BY <2>1, <2>2 DEF Position, Before
  <2>5. Outcome(j)' BY <2>1 DEF Outcome, Primary!TookEffect
  <2>6. Row(j)' BY <2>1, <2>3 DEF Row
  <2>. QED BY <2>4, <2>5, <2>6
<1>. QED BY <1>1, <1>2, <1>4, <1>5

(* A revision is waited for no more.                                       *)
LEMMA Concludes ==
    ASSUME LedgerInv, NEW j \in Jobs, at[j] = "wait",
           NEW status \in {"deployed", "failed"}, Primary!Conclude(j, status),
           \/ /\ at' = [at EXCEPT ![j] = "report"]
              /\ \E report \in Primary!Reports :
                    /\ Primary!Decide(j, report)
                    /\ report.error <=> status = "failed"
                    /\ ~report.error => report.revision = produced[j]
           \/ /\ at' = [at EXCEPT ![j] = "readBack"] /\ kind[j] = "rollback"
              /\ status = "deployed" /\ UNCHANGED result,
           UNCHANGED <<kind, produced, tries, lost, ledger>>
    PROVE  LedgerInv'
<1>. USE DEF LedgerInv
<1>. DEFINE n == produced[j]
<1>1. release \in Seq(Statuses) /\ produced \in [Jobs -> Nat] /\ lost \in Nat
    BY RunInClusterAssumption DEF LedgerTypeOK, Statuses, Primary!PrimaryReleaseAssumption
<1>2. n \in 1..Len(release) /\ release[n] = "pending" /\ result[j] = NoReport
    BY <1>1 DEF OwnRevision, Position
<1>3. /\ release' \in Seq(Statuses) /\ Len(release') = Len(release) /\ release'[n] = status
      /\ \A i \in 1..Len(release) \ {n} :
            release'[i] = IF status = "deployed" /\ release[i] = "deployed" THEN "superseded"
                          ELSE release[i]
    BY <1>1, <1>2 DEF Primary!Conclude, Statuses
<1>4. OwnRevision' BY <1>3 DEF OwnRevision
<1>5. ASSUME NEW k \in Jobs, k # j
      PROVE  (Position(k) /\ Outcome(k) /\ Row(k))'
             /\ result'[k] \in Primary!Reports \cup {NoReport}
  <2>1. produced[k] # 0 => produced[k] \in 1..Len(release) \ {n}
      BY <1>1, <1>2, <1>5 DEF OwnRevision
  <2>2. produced[k] # 0 =>
           /\ release'[produced[k]] = "pending" <=> release[produced[k]] = "pending"
           /\ release'[produced[k]] \in Primary!Live <=> release[produced[k]] \in Primary!Live
      BY <1>3, <2>1 DEF Primary!Live
  <2>3. Keeps(k) BY <1>1, <1>5, <2>2 DEF Keeps, LedgerTypeOK, Primary!Decide
  <2>. QED BY <1>1, <2>3, OthersKept DEF Keeps, LedgerTypeOK
<1>6. ledger[j] = NoReport BY <1>2 DEF Row
<1>7. CASE at' = [at EXCEPT ![j] = "report"]
           /\ \E report \in Primary!Reports :
                 /\ Primary!Decide(j, report)
                 /\ report.error <=> status = "failed"
                 /\ ~report.error => report.revision = produced[j]
  <2>. PICK report \in Primary!Reports :
          /\ Primary!Decide(j, report)
          /\ report.error <=> status = "failed"
          /\ ~report.error => report.revision = produced[j]
      BY <1>7
  <2>1. at'[j] = "report" /\ result'[j] = report
      BY <1>7 DEF LedgerTypeOK, Primary!Decide
  <2>2. LedgerTypeOK' BY <1>3, <1>7 DEF LedgerTypeOK, Steps, Statuses, Primary!Decide
  <2>3. report # NoReport
      BY RunInClusterAssumption DEF Primary!PrimaryReleaseAssumption, Primary!Reports
  <2>4. Position(j)' BY <2>1, <2>3 DEF Position, Before
  <2>5. release'[produced'[j]] = status /\ produced'[j] = n /\ n # 0 BY <1>1, <1>2, <1>3
  <2>6. Outcome(j)' BY <2>1, <2>5 DEF Outcome, Primary!TookEffect, Primary!Live
  <2>7. Row(j)' BY <1>6, <2>1 DEF Row
  <2>. QED BY <1>4, <1>5, <2>2, <2>4, <2>6, <2>7
<1>8. CASE at' = [at EXCEPT ![j] = "readBack"] /\ kind[j] = "rollback"
           /\ status = "deployed" /\ UNCHANGED result
  <2>1. at'[j] = "readBack" /\ release'[produced'[j]] \in Primary!Live
      BY <1>3, <1>8 DEF LedgerTypeOK, Primary!Live
  <2>2. LedgerTypeOK' BY <1>3, <1>8 DEF LedgerTypeOK, Steps, Statuses
  <2>3. (Position(j) /\ Outcome(j) /\ Row(j))'
      BY <1>2, <1>6, <1>8, <2>1 DEF Position, Outcome, Row, Before
  <2>. QED BY <1>4, <1>5, <2>2, <2>3
<1>. QED BY <1>7, <1>8

(* An attempt at the report.                                               *)
LEMMA Attempted ==
    ASSUME LedgerInv, NEW j \in Jobs, at[j] = "report",
           NEW to \in {"report", "expose", "done", "failed", "killed"},
           at' = [at EXCEPT ![j] = to],
           Primary!Ingest(j) \/ UNCHANGED ledger,
           \/ UNCHANGED <<tries, lost>>
           \/ tries' = [tries EXCEPT ![j] = @ + 1] /\ lost < MaxLost /\ lost' = lost + 1,
           MaxLost < Attempts /\ to \in {"expose", "done", "failed"} => Primary!Ingest(j),
           UNCHANGED <<kind, release, produced, result>>
    PROVE  LedgerInv'
<1>. USE DEF LedgerInv
<1>1. MaxLost \in Nat /\ lost \in 0..MaxLost /\ lost' \in 0..MaxLost /\ lost \in Nat
    BY RunInClusterAssumption DEF LedgerTypeOK, Primary!PrimaryReleaseAssumption
<1>2. LedgerTypeOK'
  <2>1. at' \in [Jobs -> Steps] /\ tries' \in [Jobs -> Nat] BY DEF LedgerTypeOK, Steps, Ends
  <2>2. ledger' \in [Jobs -> Primary!Reports \cup {NoReport}]
      BY DEF LedgerTypeOK, Primary!Ingest
  <2>. QED BY <1>1, <2>1, <2>2 DEF LedgerTypeOK
<1>3. OwnRevision' BY DEF OwnRevision
<1>4. ASSUME NEW k \in Jobs, k # j PROVE (Position(k) /\ Outcome(k) /\ Row(k))'
  <2>1. Keeps(k) BY <1>1, <1>4 DEF Keeps, LedgerTypeOK, Primary!Ingest
  <2>. QED BY <1>1, <2>1, OthersKept
<1>5. (Position(j) /\ Outcome(j) /\ Row(j))'
  <2>1. at'[j] = to /\ result'[j] = result[j] /\ result[j] # NoReport
      BY DEF LedgerTypeOK, Position
  <2>2. ledger'[j] \in {NoReport, result[j]} BY DEF Row, LedgerTypeOK, Primary!Ingest
  <2>3. Primary!Ingest(j) => ledger'[j] # NoReport BY <2>1 DEF LedgerTypeOK, Primary!Ingest
  <2>4. tries'[j] <= lost' BY <1>1 DEF LedgerTypeOK, Row
  <2>5. Position(j)' BY <2>1 DEF Position, Before
  <2>6. Outcome(j)' BY <2>1 DEF Outcome, Primary!TookEffect
  <2>7. Row(j)' BY <2>1, <2>2, <2>3, <2>4 DEF Row
  <2>. QED BY <2>5, <2>6, <2>7
<1>. QED BY <1>2, <1>3, <1>4, <1>5

LEMMA RollKeeps ==
    ASSUME LedgerInv, NEW j \in Jobs, Roll(j), UNCHANGED kind
    PROVE  LedgerInv'
<1>. USE DEF LedgerInv
<1>1. Primary!Refused \in Primary!Reports /\ Primary!Refused.error = TRUE
    BY DEF Primary!Refused, Primary!Reports
<1>2. at[j] \in Before => produced[j] = 0 BY DEF Position
<1>3. ASSUME NEW from \in Before, Primary!Refuse(j, from) PROVE LedgerInv'
    BY <1>1, <1>2, <1>3, Decides DEF Primary!Refuse, Primary!Go, Primary!TookEffect
<1>4. CASE Primary!CheckHistory(j) \/ Primary!NoChart(j)
  <2>1. PICK to \in Before \cup {"failed"} : at[j] \in Before /\ at' = [at EXCEPT ![j] = to]
      BY <1>4 DEF Primary!CheckHistory, Primary!NoChart, Primary!Go, Before
  <2>2. UNCHANGED releaseVars
      BY <1>4 DEF Primary!CheckHistory, Primary!NoChart, Primary!releaseVars, releaseVars
  <2>3. at'[j] = to BY <2>1 DEF LedgerTypeOK
  <2>. QED BY <2>1, <2>2, <2>3, OneMoves, Elsewhere DEF Moves, Before, Steps, Ends
<1>5. CASE Primary!Install(j) \/ Primary!Upgrade(j) \/ Primary!Rollback(j)
    BY <1>3, <1>5, Appends
       DEF Primary!Install, Primary!Upgrade, Primary!Rollback, Primary!Go, Before
<1>6. CASE Primary!DeployEnds(j)
  <2>. USE <1>6 DEF Primary!DeployEnds, Primary!Go
  <2>1. CASE /\ Primary!Conclude(j, "deployed")
             /\ Primary!Decide(j, Primary!Worked(produced[j]))
    <3>. DEFINE report == Primary!Worked(produced[j])
    <3>1. report \in Primary!Reports /\ report.error = FALSE /\ report.revision = produced[j]
        BY DEF LedgerTypeOK, Primary!Reports, Primary!Worked
    <3>. HIDE DEF report
    <3>. QED BY <2>1, <3>1, Concludes DEF report
  <2>2. CASE Primary!Conclude(j, "failed") /\ Primary!Decide(j, Primary!Refused)
      BY <1>1, <2>2, Concludes
  <2>. QED BY <2>1, <2>2
<1>7. CASE Primary!RollbackEnds(j)
  <2>. USE <1>7 DEF Primary!RollbackEnds, Primary!Go
  <2>1. CASE at' = [at EXCEPT ![j] = "readBack"] /\ Primary!Conclude(j, "deployed")
             /\ UNCHANGED result
      BY <2>1, Concludes
  <2>2. CASE at' = [at EXCEPT ![j] = "report"] /\ Primary!Conclude(j, "failed")
             /\ Primary!Decide(j, Primary!Refused)
      BY <1>1, <2>2, Concludes
  <2>. QED BY <2>1, <2>2
<1>8. CASE Primary!ReadBack(j)
  <2>1. at[j] = "readBack" /\ kind[j] = "rollback" BY <1>8 DEF Primary!ReadBack, Primary!Go, Position
  <2>2. PICK report \in Primary!Reports :
           Primary!Decide(j, report) /\ (report.error => report.unread)
    <3>1. /\ Primary!Worked(Len(release)) \in Primary!Reports
          /\ Primary!Worked(Len(release)).error = FALSE
        BY DEF LedgerTypeOK, Primary!Reports, Primary!Worked
    <3>2. Primary!Unread \in Primary!Reports /\ Primary!Unread.unread = TRUE
        BY DEF Primary!Reports, Primary!Unread
    <3>3. CASE Primary!Decide(j, Primary!Worked(Len(release))) BY <3>1, <3>3
    <3>4. CASE Primary!Decide(j, Primary!Unread) BY <3>2, <3>4
    <3>. QED BY <1>8, <3>3, <3>4 DEF Primary!ReadBack
  <2>3. produced[j] # 0 => release[produced[j]] # "pending"
      BY <2>1 DEF Position, Primary!Live
  <2>4. at' = [at EXCEPT ![j] = "report"] /\ UNCHANGED <<release, produced, tries, lost, ledger>>
      BY <1>8 DEF Primary!ReadBack, Primary!Go
  <2>. QED BY <2>1, <2>2, <2>3, <2>4, Decides
<1>9. CASE Primary!Report(j)
    BY <1>9, Attempted DEF Primary!Report, Primary!Reported, Primary!Go
<1>10. CASE Primary!ReportLost(j)
  <2>1. PICK to \in {"report", "expose", "done", "failed"} :
           /\ at' = [at EXCEPT ![j] = to]
           /\ to # "report" => Primary!IsLast(tries[j] + 1)
      BY <1>10 DEF Primary!ReportLost, Primary!Reported, Primary!Go
  <2>2. ~(MaxLost < Attempts /\ to # "report")
    <3>1. tries[j] <= lost /\ lost < MaxLost BY <1>10 DEF Row, Primary!ReportLost
    <3>. QED
        BY <2>1, <3>1, RunInClusterAssumption
           DEF LedgerTypeOK, Primary!PrimaryReleaseAssumption, Primary!IsLast
  <2>. QED BY <1>10, <2>1, <2>2, Attempted DEF Primary!ReportLost
<1>11. CASE Primary!ReportAbandoned(j)
    BY <1>11, Attempted DEF Primary!ReportAbandoned, Primary!Go
<1>. QED BY <1>4, <1>5, <1>6, <1>7, <1>8, <1>9, <1>10, <1>11 DEF Roll, Primary!Roll

-----------------------------------------------------------------------------
LEMMA LedgerInvariance == Spec => []LedgerInv
<1>1. LedgerInv /\ [Next]_vars => LedgerInv'
  <2>. SUFFICES ASSUME LedgerInv, [Next]_vars PROVE LedgerInv' OBVIOUS
  <2>1. LedgerTypeOK BY DEF LedgerInv
  <2>. QED BY <2>1, RollOrAside, Elsewhere, RollKeeps
<1>. QED BY <1>1, InitLedger, PTL DEF Spec

(* The deploy ledger tells the truth about every deploy, whatever other    *)
(* deploys, rollbacks and failures come between its upgrade and its report *)
(* (helm/deploy.go, runDeploy of worker/worker.go).                        *)
THEOREM LedgerIsTrue == Spec => []DeployLedgerIsTrue
<1>1. LedgerInv => DeployLedgerIsTrue
  <2>. SUFFICES ASSUME LedgerInv, NEW j \in Jobs, kind[j] = "deploy" PROVE Primary!Truthful(j)
      BY DEF DeployLedgerIsTrue, Primary!DeployLedgerIsTrue
  <2>1. ledger[j] # NoReport => ledger[j] = result[j] /\ result[j] # NoReport
      BY DEF LedgerInv, Row
  <2>. QED BY <2>1 DEF LedgerInv, Outcome, Primary!Truthful
<1>. QED BY <1>1, LedgerInvariance, PTL

(* What went live is in the ledger when its job goes on, if fewer messages *)
(* can be lost than a report is tried (reportDeployResult): a deploy under *)
(* its own revision, and a rollback under an error only if its revision    *)
(* could not be read back (helm/deploy.go).                                *)
THEOREM LiveRevisionIsRecorded == MaxLost < Attempts => (Spec => []LiveIsRecorded)
<1>. SUFFICES ASSUME MaxLost < Attempts PROVE Spec => []LiveIsRecorded OBVIOUS
<1>1. LedgerInv => LiveIsRecorded
  <2>. SUFFICES ASSUME LedgerInv, NEW j \in Jobs, Primary!TookEffect(j),
                       at[j] \in {"expose", "putIngress", "done", "failed"}
                PROVE  /\ ledger[j] # NoReport
                       /\ kind[j] = "deploy" =>
                             ~ledger[j].error /\ ledger[j].revision = produced[j]
                       /\ ledger[j].error => ledger[j].unread
      BY DEF LiveIsRecorded, Primary!LiveIsRecorded
  <2>1. ledger[j] # NoReport /\ ledger[j] = result[j]
      BY DEF LedgerInv, Row, Primary!TookEffect
  <2>2. ledger[j] \in Primary!Reports BY <2>1 DEF LedgerInv, LedgerTypeOK
  <2>. QED BY <2>1, <2>2 DEF LedgerInv, Outcome, Primary!Reports
<1>. QED BY <1>1, LedgerInvariance, PTL

-----------------------------------------------------------------------------
(* The history of the release.                                             *)

(* Only the last revision may be pending, at most one is deployed, and     *)
(* whatever was appended was appended by a job.                            *)
OneAtATime ==
    /\ \A i \in 1..Len(release) : release[i] = "pending" => i = Len(release)
    /\ \A i, k \in 1..Len(release) : release[i] = "deployed" /\ release[k] = "deployed" => i = k
    /\ Len(release) > 1 => \E k \in Jobs : produced[k] = Len(release)

(* How wrong a rollback may be about its revision: it took effect, and if  *)
(* it names another one than its own, then a later one of another job.     *)
NamesOwnOrLater(j, revision) ==
    \/ revision = produced[j]
    \/ revision > produced[j] /\ \E k \in Jobs \ {j} : produced[k] = revision

Hindsight(j) ==
    /\ at[j] = "readBack" => produced[j] # 0
    /\ kind[j] = "rollback" /\ result[j] # NoReport /\ ~result[j].error =>
          Primary!TookEffect(j) /\ NamesOwnOrLater(j, result[j].revision)

(* A job that may still report has an attempt left.                        *)
Patience(j) ==
    /\ tries[j] <= Attempts
    /\ at[j] \in Before \cup Deploying => tries[j] < Attempts

ReleaseInv == OneAtATime /\ \A j \in Jobs : Hindsight(j) /\ Patience(j)

LEMMA InitRelease == Init => ReleaseInv
<1>. SUFFICES ASSUME Init PROVE ReleaseInv OBVIOUS
<1>. USE DEF Init, Primary!ReleaseInit
<1>1. OneAtATime
  <2>1. CASE release = <<>> BY <2>1 DEF OneAtATime
  <2>2. CASE release = <<"deployed">> BY <2>2 DEF OneAtATime
  <2>. QED BY <2>1, <2>2
<1>2. ASSUME NEW j \in Jobs PROVE Hindsight(j) /\ Patience(j)
    BY RunInClusterAssumption
       DEF Hindsight, Patience, Before, Deploying, Primary!PrimaryReleaseAssumption
<1>. QED BY <1>1, <1>2 DEF ReleaseInv

LEMMA AsideKeepsRelease == ASSUME LedgerInv, ReleaseInv, Aside PROVE ReleaseInv'
<1>1. OneAtATime' BY DEF ReleaseInv, OneAtATime, Aside, releaseVars
<1>2. ASSUME NEW k \in Jobs PROVE (Hindsight(k) /\ Patience(k))'
  <2>1. Hindsight(k)'
      BY DEF ReleaseInv, Hindsight, NamesOwnOrLater, Aside, Moves, releaseVars, Before, Ends,
             Primary!TookEffect
  <2>2. Patience(k)'
      BY DEF ReleaseInv, Patience, Aside, Moves, releaseVars, Before, Ends, Deploying
  <2>. QED BY <2>1, <2>2
<1>. QED BY <1>1, <1>2 DEF ReleaseInv

(* The three shapes a step on the release takes: an operation starts, the  *)
(* operation of the job is over, or the history is left alone.             *)
Appended(j) ==
    /\ ~Primary!Busy
    /\ at[j] \in Before /\ at' = [at EXCEPT ![j] = "wait"]
    /\ Primary!Append1(j)
    /\ UNCHANGED <<result, tries>>

Concluded(j) ==
    /\ at[j] = "wait"
    /\ \E status \in {"deployed", "failed"} : Primary!Conclude(j, status)
    /\ \/ at' = [at EXCEPT ![j] = "readBack"] /\ UNCHANGED result
       \/ /\ at' = [at EXCEPT ![j] = "report"]
          /\ \E report \in Primary!Reports :
                Primary!Decide(j, report) /\ (report.error \/ kind[j] = "deploy")
    /\ UNCHANGED <<produced, tries>>

LeftAlone(j) ==
    /\ UNCHANGED <<release, produced>>
    /\ \/ /\ at[j] \in Before \cup {"report"}
          /\ \E to \in Steps \ (Deploying \ {"report"}) : at' = [at EXCEPT ![j] = to]
          /\ UNCHANGED <<result, tries>>
       \/ /\ at[j] \in Before \cup {"readBack"} /\ at' = [at EXCEPT ![j] = "report"]
          /\ \E report \in Primary!Reports :
                /\ Primary!Decide(j, report)
                /\ report.error \/ (at[j] = "readBack" /\ report.revision = Len(release))
          /\ UNCHANGED tries
       \/ /\ at[j] = "report"
          /\ \E to \in Steps \ (Deploying \ {"report"}) :
                /\ at' = [at EXCEPT ![j] = to]
                /\ to = "report" => ~Primary!IsLast(tries[j] + 1)
                /\ to \notin Before
          /\ tries' = [tries EXCEPT ![j] = @ + 1]
          /\ UNCHANGED result

LEMMA RollShapes ==
    ASSUME LedgerTypeOK, NEW j \in Jobs, Roll(j)
    PROVE  Appended(j) \/ Concluded(j) \/ LeftAlone(j)
<1>1. Primary!Refused \in Primary!Reports /\ Primary!Refused.error
    BY DEF Primary!Refused, Primary!Reports
<1>2. ASSUME NEW from \in Before, Primary!Refuse(j, from) PROVE LeftAlone(j)
    BY <1>1, <1>2 DEF Primary!Refuse, Primary!Go, LeftAlone
<1>3. CASE Primary!CheckHistory(j) \/ Primary!NoChart(j)
  <2>1. PICK to \in {"install", "upgrade", "failed"} :
           at[j] = "chart" /\ at' = [at EXCEPT ![j] = to]
      BY <1>3 DEF Primary!CheckHistory, Primary!NoChart, Primary!Go
  <2>2. UNCHANGED releaseVars
      BY <1>3 DEF Primary!CheckHistory, Primary!NoChart, Primary!releaseVars, releaseVars
  <2>. QED BY <2>1, <2>2 DEF LeftAlone, releaseVars, Before, Deploying, Steps, Ends
<1>4. CASE Primary!Install(j) \/ Primary!Upgrade(j) \/ Primary!Rollback(j)
  <2>1. ASSUME NEW from \in {"install", "upgrade", "rollback"}, Primary!Go(j, from, "wait"),
               Primary!Append1(j), UNCHANGED <<result, tries>>, ~Primary!Busy
        PROVE  Appended(j)
      BY <2>1 DEF Appended, Before, Primary!Go
  <2>2. release = <<>> => ~Primary!Busy BY DEF Primary!Busy
  <2>. QED
      BY <1>2, <1>4, <2>1, <2>2 DEF Primary!Install, Primary!Upgrade, Primary!Rollback, Before
<1>5. CASE Primary!DeployEnds(j)
  <2>. USE <1>5 DEF Primary!DeployEnds, Primary!Go
  <2>1. PICK report \in Primary!Reports : Primary!Decide(j, report)
    <3>1. Primary!Worked(produced[j]) \in Primary!Reports
        BY DEF LedgerTypeOK, Primary!Reports, Primary!Worked
    <3>. QED BY <1>1, <3>1
  <2>. QED BY <2>1 DEF Concluded
<1>6. CASE Primary!RollbackEnds(j)
    BY <1>1, <1>6 DEF Primary!RollbackEnds, Primary!Go, Concluded
<1>7. CASE Primary!ReadBack(j)
  <2>. USE <1>7 DEF Primary!ReadBack, Primary!Go
  <2>. DEFINE last == Primary!Worked(Len(release))
  <2>1. last \in Primary!Reports /\ last.revision = Len(release)
      BY DEF LedgerTypeOK, Primary!Reports, Primary!Worked
  <2>2. PICK report \in Primary!Reports :
           Primary!Decide(j, report) /\ (report.error \/ report.revision = Len(release))
    <3>. HIDE DEF last
    <3>1. CASE Primary!Decide(j, last) BY <2>1, <3>1
    <3>2. CASE Primary!Decide(j, Primary!Unread)
      <4>1. Primary!Unread \in Primary!Reports /\ Primary!Unread.error
          BY DEF Primary!Reports, Primary!Unread
      <4>. QED BY <3>2, <4>1
    <3>. QED BY <3>1, <3>2 DEF last
  <2>. QED BY <2>2 DEF LeftAlone
<1>8. CASE Primary!Report(j) \/ Primary!ReportAbandoned(j)
  <2>1. PICK to \in {"expose", "done", "failed", "killed"} :
           at[j] = "report" /\ at' = [at EXCEPT ![j] = to]
      BY <1>8 DEF Primary!Report, Primary!ReportAbandoned, Primary!Reported, Primary!Go
  <2>2. UNCHANGED <<release, produced, result, tries>>
      BY <1>8 DEF Primary!Report, Primary!ReportAbandoned
  <2>. QED BY <2>1, <2>2 DEF LeftAlone, Deploying, Steps, Ends
<1>9. CASE Primary!ReportLost(j)
  <2>1. PICK to \in {"report", "expose", "done", "failed"} :
           /\ at[j] = "report" /\ at' = [at EXCEPT ![j] = to]
           /\ to = "report" => ~Primary!IsLast(tries[j] + 1)
      BY <1>9 DEF Primary!ReportLost, Primary!Reported, Primary!Go
  <2>2. UNCHANGED <<release, produced, result>> /\ tries' = [tries EXCEPT ![j] = @ + 1]
      BY <1>9 DEF Primary!ReportLost
  <2>. QED BY <2>1, <2>2 DEF LeftAlone, Before, Deploying, Steps, Ends
<1>. QED BY <1>3, <1>4, <1>5, <1>6, <1>7, <1>8, <1>9 DEF Roll, Primary!Roll

(* What another job knows of its own revision survives, as long as the     *)
(* history only grows and a revision that went live stays as good.         *)
LEMMA OthersKeepHindsight ==
    ASSUME ReleaseInv, NEW k \in Jobs, at'[k] = at[k], UNCHANGED kind,
           produced'[k] = produced[k], result'[k] = result[k], tries'[k] = tries[k],
           \A i \in Jobs : produced[i] # 0 => produced'[i] = produced[i],
           produced[k] # 0 /\ release[produced[k]] \in Primary!Live =>
               release'[produced[k]] \in Primary!Live,
           LedgerTypeOK
    PROVE  (Hindsight(k) /\ Patience(k))'
<1>1. Patience(k)' BY DEF ReleaseInv, Patience
<1>2. CASE kind[k] = "rollback" /\ result[k] # NoReport /\ ~result[k].error
  <2>1. /\ produced[k] # 0 /\ release[produced[k]] \in Primary!Live
        /\ NamesOwnOrLater(k, result[k].revision)
      BY <1>2 DEF ReleaseInv, Hindsight, Primary!TookEffect
  <2>2. Primary!TookEffect(k)' BY <2>1 DEF Primary!TookEffect
  <2>3. NamesOwnOrLater(k, result[k].revision)'
    <3>1. CASE result[k].revision = produced[k] BY <3>1 DEF NamesOwnOrLater
    <3>2. CASE result[k].revision # produced[k]
      <4>1. PICK i \in Jobs \ {k} :
               result[k].revision > produced[k] /\ produced[i] = result[k].revision
          BY <2>1, <3>2 DEF NamesOwnOrLater
      <4>2. produced[i] \in Nat /\ produced[k] \in Nat /\ produced[i] > produced[k]
          BY <4>1 DEF LedgerTypeOK
      <4>3. produced'[i] = produced[i] BY <4>2
      <4>. QED BY <4>1, <4>3 DEF NamesOwnOrLater
    <3>. QED BY <3>1, <3>2
  <2>. QED BY <1>1, <2>1, <2>2, <2>3 DEF Hindsight
<1>3. CASE ~(kind[k] = "rollback" /\ result[k] # NoReport /\ ~result[k].error)
    BY <1>1, <1>3 DEF ReleaseInv, Hindsight
<1>. QED BY <1>2, <1>3

LEMMA AppendedKeepsRelease ==
    ASSUME LedgerInv, ReleaseInv, NEW j \in Jobs, Appended(j), UNCHANGED kind
    PROVE  ReleaseInv'
<1>. DEFINE n == Len(release) + 1
<1>1. /\ release \in Seq(Statuses) /\ produced \in [Jobs -> Nat] /\ at \in [Jobs -> Steps]
      /\ Len(release) \in Nat /\ LedgerTypeOK
    BY DEF LedgerInv, LedgerTypeOK, Statuses
<1>2. /\ release' = Append(release, "pending") /\ produced' = [produced EXCEPT ![j] = n]
      /\ at' = [at EXCEPT ![j] = "wait"] /\ UNCHANGED <<result, tries>>
    BY DEF Appended, Primary!Append1, Primary!Pending
<1>3. /\ Len(release') = n /\ release'[n] = "pending"
      /\ \A i \in 1..Len(release) : release'[i] = release[i]
    BY <1>1, <1>2
<1>4. produced[j] = 0 /\ result[j] = NoReport BY DEF Appended, LedgerInv, Position
<1>5. OneAtATime'
  <2>1. \A i \in 1..Len(release) : release[i] # "pending"
    <3>1. release # <<>> => release[Len(release)] # "pending"
        BY DEF Appended, Primary!Busy, Primary!Pending
    <3>. QED BY <1>1, <3>1 DEF ReleaseInv, OneAtATime
  <2>2. \A i \in 1..n : i \in 1..Len(release) \/ i = n BY <1>1
  <2>3. \A i \in 1..n : release'[i] = "pending" => i = n BY <1>3, <2>1, <2>2
  <2>4. \A i, k \in 1..n : release'[i] = "deployed" /\ release'[k] = "deployed" => i = k
      BY <1>3, <2>2 DEF ReleaseInv, OneAtATime
  <2>5. produced'[j] = n BY <1>1, <1>2
  <2>. QED BY <1>3, <2>3, <2>4, <2>5 DEF OneAtATime
<1>6. ASSUME NEW k \in Jobs, k # j PROVE (Hindsight(k) /\ Patience(k))'
  <2>1. produced[k] # 0 => produced[k] \in 1..Len(release)
      BY <1>1 DEF LedgerInv, OwnRevision
  <2>2. \A i \in Jobs : produced[i] # 0 => produced'[i] = produced[i] BY <1>1, <1>2, <1>4
  <2>. QED BY <1>1, <1>2, <1>3, <1>6, <2>1, <2>2, OthersKeepHindsight
<1>7. (Hindsight(j) /\ Patience(j))'
  <2>1. at'[j] = "wait" /\ result'[j] = NoReport /\ tries'[j] = tries[j] BY <1>1, <1>2, <1>4
  <2>2. tries[j] < Attempts /\ tries[j] <= Attempts BY DEF ReleaseInv, Patience, Appended
  <2>. QED BY <2>1, <2>2 DEF Hindsight, Patience
<1>. QED BY <1>5, <1>6, <1>7 DEF ReleaseInv

(* A job whose revision is pending waits for the last one.                 *)
LEMMA WaitsForLast ==
    ASSUME LedgerInv, ReleaseInv, NEW j \in Jobs, at[j] = "wait"
    PROVE  produced[j] = Len(release) /\ produced[j] \in 1..Len(release)
           /\ release[Len(release)] = "pending"
BY DEF LedgerInv, LedgerTypeOK, OwnRevision, Position, ReleaseInv, OneAtATime

LEMMA ConcludedKeepsRelease ==
    ASSUME LedgerInv, ReleaseInv, NEW j \in Jobs, Concluded(j), UNCHANGED kind
    PROVE  ReleaseInv'
<1>. DEFINE n == Len(release)
<1>1. /\ release \in Seq(Statuses) /\ produced \in [Jobs -> Nat] /\ at \in [Jobs -> Steps]
      /\ n \in Nat /\ LedgerTypeOK /\ tries \in [Jobs -> Nat]
      /\ result \in [Jobs -> Primary!Reports \cup {NoReport}]
    BY DEF LedgerInv, LedgerTypeOK, Statuses
<1>2. at[j] = "wait" /\ produced[j] = n /\ n \in 1..n /\ release[n] = "pending"
    BY WaitsForLast DEF Concluded
<1>3. PICK status \in {"deployed", "failed"} : Primary!Conclude(j, status) BY DEF Concluded
<1>4. /\ Len(release') = n /\ release'[n] = status
      /\ \A i \in 1..n \ {n} :
            release'[i] = IF status = "deployed" /\ release[i] = "deployed" THEN "superseded"
                          ELSE release[i]
    BY <1>1, <1>2, <1>3 DEF Primary!Conclude
<1>5. UNCHANGED <<produced, tries>> BY DEF Concluded
<1>6. OneAtATime'
  <2>1. \A i \in 1..n : release'[i] # "pending" BY <1>4 DEF ReleaseInv, OneAtATime
  <2>2. \A i, k \in 1..n : release'[i] = "deployed" /\ release'[k] = "deployed" => i = k
    <3>1. CASE status = "deployed"
      <4>1. \A i \in 1..n \ {n} : release'[i] # "deployed" BY <1>4, <3>1
      <4>. QED BY <4>1
    <3>2. CASE status = "failed" BY <1>4, <3>2 DEF ReleaseInv, OneAtATime
    <3>. QED BY <3>1, <3>2
  <2>3. n > 1 => \E k \in Jobs : produced'[k] = n BY <1>2, <1>5
  <2>. QED BY <1>4, <2>1, <2>2, <2>3 DEF OneAtATime
<1>7. ASSUME NEW k \in Jobs, k # j PROVE (Hindsight(k) /\ Patience(k))'
  <2>1. produced[k] # 0 => produced[k] \in 1..n \ {n}
      BY <1>1, <1>2, <1>7 DEF LedgerInv, OwnRevision
  <2>2. produced[k] # 0 /\ release[produced[k]] \in Primary!Live =>
            release'[produced[k]] \in Primary!Live
      BY <1>4, <2>1 DEF Primary!Live
  <2>3. at'[k] = at[k] /\ result'[k] = result[k]
      BY <1>1, <1>7 DEF Concluded, Primary!Decide
  <2>. QED BY <1>1, <1>5, <2>2, <2>3, OthersKeepHindsight
<1>8. (Hindsight(j) /\ Patience(j))'
  <2>1. tries'[j] = tries[j] /\ tries[j] < Attempts /\ tries[j] <= Attempts
      BY <1>2, <1>5 DEF ReleaseInv, Patience, Deploying
  <2>2. produced'[j] # 0 BY <1>2, <1>5
  <2>3. result[j] = NoReport BY <1>2 DEF LedgerInv, Position
  <2>4. result'[j] = NoReport \/ result'[j].error \/ kind'[j] = "deploy"
    <3>1. CASE UNCHANGED result BY <2>3, <3>1
    <3>2. CASE \E report \in Primary!Reports :
                  Primary!Decide(j, report) /\ (report.error \/ kind[j] = "deploy")
      <4>. PICK report \in Primary!Reports :
              Primary!Decide(j, report) /\ (report.error \/ kind[j] = "deploy")
          BY <3>2
      <4>1. result'[j] = report BY <1>1 DEF Primary!Decide
      <4>. QED BY <4>1
    <3>. QED BY <3>1, <3>2 DEF Concluded
  <2>. QED BY <2>1, <2>2, <2>4 DEF Hindsight, Patience
<1>. QED BY <1>6, <1>7, <1>8 DEF ReleaseInv

LEMMA LeftAloneKeepsRelease ==
    ASSUME LedgerInv, ReleaseInv, NEW j \in Jobs, LeftAlone(j), UNCHANGED kind
    PROVE  ReleaseInv'
<1>1. /\ release \in Seq(Statuses) /\ produced \in [Jobs -> Nat] /\ at \in [Jobs -> Steps]
      /\ LedgerTypeOK /\ tries \in [Jobs -> Nat]
      /\ result \in [Jobs -> Primary!Reports \cup {NoReport}]
    BY DEF LedgerInv, LedgerTypeOK, Statuses
<1>2. UNCHANGED <<release, produced>> BY DEF LeftAlone
<1>3. OneAtATime' BY <1>2 DEF ReleaseInv, OneAtATime
<1>4. ASSUME NEW k \in Jobs, k # j PROVE (Hindsight(k) /\ Patience(k))'
  <2>1. at'[k] = at[k] /\ result'[k] = result[k] /\ tries'[k] = tries[k]
      BY <1>1, <1>4 DEF LeftAlone, Primary!Decide
  <2>. QED BY <1>1, <1>2, <2>1, OthersKeepHindsight
<1>5. (Hindsight(j) /\ Patience(j))'
  <2>1. at[j] \in Before \cup Deploying BY DEF LeftAlone, Deploying
  <2>2. tries[j] \in Nat /\ tries[j] < Attempts /\ tries[j] <= Attempts /\ Attempts \in Nat
      BY <1>1, <2>1, RunInClusterAssumption
         DEF ReleaseInv, Patience, Primary!PrimaryReleaseAssumption
  <2>3. at'[j] # "readBack" BY <1>1 DEF LeftAlone, Deploying
  <2>4. CASE UNCHANGED tries
    <3>1. Patience(j)' BY <2>2, <2>4 DEF Patience
    <3>2. CASE UNCHANGED result
        BY <1>2, <2>3, <3>1, <3>2
           DEF ReleaseInv, Hindsight, NamesOwnOrLater, Primary!TookEffect
    <3>3. ASSUME NEW report \in Primary!Reports, Primary!Decide(j, report),
                 report.error \/ (at[j] = "readBack" /\ report.revision = Len(release))
          PROVE  Hindsight(j)'
      <4>1. result'[j] = report BY <1>1, <3>3 DEF Primary!Decide
      <4>2. CASE report.error BY <2>3, <4>1, <4>2 DEF Hindsight
      <4>3. CASE at[j] = "readBack" /\ report.revision = Len(release)
        <5>1. produced[j] # 0 /\ Primary!TookEffect(j)
            BY <4>3 DEF ReleaseInv, Hindsight, LedgerInv, Position, Primary!TookEffect
        <5>2. produced[j] \in 1..Len(release) BY <1>1, <5>1 DEF LedgerInv, OwnRevision
        <5>3. NamesOwnOrLater(j, report.revision)
          <6>1. CASE produced[j] = Len(release) BY <4>3, <6>1 DEF NamesOwnOrLater
          <6>2. CASE produced[j] # Len(release)
            <7>1. Len(release) > 1 /\ Len(release) > produced[j] BY <1>1, <5>2, <6>2
            <7>2. PICK k \in Jobs : produced[k] = Len(release)
                BY <7>1 DEF ReleaseInv, OneAtATime
            <7>. QED BY <4>3, <6>2, <7>1, <7>2 DEF NamesOwnOrLater
          <6>. QED BY <6>1, <6>2
        <5>. QED
            BY <1>2, <2>3, <4>1, <5>1, <5>3 DEF Hindsight, NamesOwnOrLater, Primary!TookEffect
      <4>. QED BY <3>3, <4>2, <4>3
    <3>. QED BY <1>1, <2>2, <2>4, <3>1, <3>2, <3>3 DEF LeftAlone
  <2>5. CASE tries' # tries
    <3>1. PICK to \in Steps \ (Deploying \ {"report"}) :
             /\ at' = [at EXCEPT ![j] = to]
             /\ to = "report" => ~Primary!IsLast(tries[j] + 1)
             /\ to \notin Before
        BY <2>5 DEF LeftAlone
    <3>2. tries' = [tries EXCEPT ![j] = @ + 1] /\ UNCHANGED result BY <2>5 DEF LeftAlone
    <3>3. at'[j] = to /\ tries'[j] = tries[j] + 1 BY <1>1, <3>1, <3>2
    <3>4. Patience(j)' BY <2>2, <3>1, <3>3 DEF Patience, Deploying, Primary!IsLast
    <3>5. Hindsight(j)'
        BY <1>2, <2>3, <3>2 DEF ReleaseInv, Hindsight, NamesOwnOrLater, Primary!TookEffect
    <3>. QED BY <3>4, <3>5
  <2>. QED BY <2>4, <2>5
<1>. QED BY <1>3, <1>4, <1>5 DEF ReleaseInv

LEMMA ReleaseInvariance == Spec => [](LedgerInv /\ ReleaseInv)
<1>1. LedgerInv /\ ReleaseInv /\ [Next]_vars => ReleaseInv'
  <2>. SUFFICES ASSUME LedgerInv, ReleaseInv, [Next]_vars PROVE ReleaseInv' OBVIOUS
  <2>1. LedgerTypeOK BY DEF LedgerInv
  <2>2. ASSUME NEW j \in Jobs, Roll(j), UNCHANGED kind PROVE ReleaseInv'
      BY <2>1, <2>2, RollShapes, AppendedKeepsRelease, ConcludedKeepsRelease,
         LeftAloneKeepsRelease
  <2>. QED BY <2>1, <2>2, RollOrAside, AsideKeepsRelease
<1>. QED BY <1>1, InitRelease, LedgerInvariance, PTL DEF Spec

(* At most one deploy or rollback of all the jobs has a revision pending:  *)
(* Helm refuses the others, "the backstop for two deploys racing on one    *)
(* release" (deploy.go).                                                   *)
OneOperation == \A j, k \in Jobs : at[j] = "wait" /\ at[k] = "wait" => j = k

THEOREM OperationsExclude == Spec => []OneOperation
<1>1. LedgerInv /\ ReleaseInv => OneOperation
  <2>. SUFFICES ASSUME LedgerInv, ReleaseInv, NEW j \in Jobs, NEW k \in Jobs,
                       at[j] = "wait", at[k] = "wait"
                PROVE  j = k
      BY DEF OneOperation
  <2>1. produced[j] = produced[k] /\ produced[j] # 0 BY WaitsForLast
  <2>. QED BY <2>1 DEF LedgerInv, OwnRevision
<1>. QED BY <1>1, ReleaseInvariance, PTL

(* RollbackLedgerIsTrue does not hold (rollback_revision shows it).  This  *)
(* is what does: a rollback the ledger says worked did work, and the       *)
(* revision it names is its own or a later one that another job appended.  *)
(* With no other operation on the release the row is true (deploy.go).     *)
RollbackErrsForward ==
    \A j \in Jobs :
        kind[j] = "rollback" /\ ledger[j] # NoReport /\ ~ledger[j].error =>
            Primary!TookEffect(j) /\ NamesOwnOrLater(j, ledger[j].revision)

THEOREM RollbackIsNearlyTrue == Spec => []RollbackErrsForward
<1>1. LedgerInv /\ ReleaseInv => RollbackErrsForward
  <2>. SUFFICES ASSUME LedgerInv, ReleaseInv, NEW j \in Jobs,
                       kind[j] = "rollback", ledger[j] # NoReport, ~ledger[j].error
                PROVE  Primary!TookEffect(j) /\ NamesOwnOrLater(j, ledger[j].revision)
      BY DEF RollbackErrsForward
  <2>1. ledger[j] = result[j] BY DEF LedgerInv, Row
  <2>. QED BY <2>1 DEF ReleaseInv, Hindsight
<1>. QED BY <1>1, ReleaseInvariance, PTL

-----------------------------------------------------------------------------
(* The release as everybody else sees it.                                  *)

LEMMA RollImplementsHistory ==
    ASSUME LedgerInv, ReleaseInv, NEW j \in Jobs, Roll(j)
    PROVE  [History!Next]_release
<1>1. release \in Seq(Statuses) /\ LedgerTypeOK BY DEF LedgerInv, LedgerTypeOK, Statuses
<1>2. CASE Appended(j)
    BY <1>2 DEF Appended, Primary!Append1, Primary!Busy, Primary!Pending, History!Next,
           History!Begin, History!Idle
<1>3. CASE Concluded(j)
  <2>1. produced[j] = Len(release) /\ release # <<>> /\ release[Len(release)] = "pending"
      BY <1>1, <1>3, WaitsForLast DEF Concluded
  <2>2. ~History!Idle BY <2>1 DEF History!Idle
  <2>3. PICK status \in {"deployed", "failed"} : Primary!Conclude(j, status)
      BY <1>3 DEF Concluded
  <2>4. CASE status = "deployed"
    <3>1. History!Deploy BY <2>1, <2>2, <2>3, <2>4 DEF Primary!Conclude, History!Deploy
    <3>. QED BY <3>1 DEF History!Next
  <2>5. CASE status = "failed"
    <3>1. release' = [i \in 1..Len(release) |->
                        IF i = Len(release) THEN "failed" ELSE release[i]]
        BY <2>1, <2>3, <2>5 DEF Primary!Conclude
    <3>2. release' = [release EXCEPT ![Len(release)] = "failed"] BY <1>1, <3>1
    <3>. QED BY <2>2, <3>2 DEF History!Fail, History!Next
  <2>. QED BY <2>4, <2>5
<1>4. CASE LeftAlone(j) BY <1>4 DEF LeftAlone
<1>. QED BY <1>1, <1>2, <1>3, <1>4, RollShapes

(* Every step of the cluster's jobs is a step of ReleaseHistory or leaves  *)
(* the release alone, for any jobs, faults and shutdowns.                  *)
THEOREM ReleaseKeepsHistory == Spec => ImplementsHistory
<1>1. Init => History!Init BY DEF Init, Primary!ReleaseInit, History!Init
<1>2. LedgerInv /\ ReleaseInv /\ [Next]_vars => [History!Next]_release
  <2>. SUFFICES ASSUME LedgerInv, ReleaseInv, [Next]_vars PROVE [History!Next]_release
      OBVIOUS
  <2>1. LedgerTypeOK BY DEF LedgerInv
  <2>2. Aside => UNCHANGED release BY DEF Aside, releaseVars
  <2>. QED BY <2>1, <2>2, RollOrAside, RollImplementsHistory
<1>. QED BY <1>1, <1>2, ReleaseInvariance, PTL DEF Spec, ImplementsHistory, History!Spec

-----------------------------------------------------------------------------
(* The cluster cache.                                                      *)

(* A client is as old as the answer it was built from, and that answer as  *)
(* old as its fetch: however old the kubeconfig is that either was made    *)
(* of, it had not been replaced when the fetch was answered.               *)
CacheInv ==
    /\ at \in [Jobs -> Steps] /\ Cache!CacheTypeOK
    /\ \A v \in 1..Versions : v >= stored => replaced[v] = 0
    /\ \A j \in Jobs : at[j] = "build" =>
          /\ fetch[j].got \in 1..stored
          /\ replaced[fetch[j].got] <= fetch[j].age
    /\ entry # NoEntry =>
          /\ entry.client \in 1..stored
          /\ entry.age < TTL => replaced[entry.client] <= entry.age + FetchBound

LEMMA InitCache == Init => CacheInv
<1>. SUFFICES ASSUME Init PROVE CacheInv OBVIOUS
<1>. USE RunInClusterAssumption DEF Init, Cache!CacheInit, Cache!ClusterCacheAssumption
<1>1. at \in [Jobs -> Steps] BY DEF Steps
<1>2. Cache!CacheTypeOK BY DEF Cache!CacheTypeOK, Cache!NoFetch
<1>. QED BY <1>1, <1>2 DEF CacheInv

(* Steps of the other parts, none of which resolves a client.              *)
Unresolved == {"queued", "fetch", "build"}

LEMMA CacheUntouched ==
    ASSUME CacheInv, UNCHANGED cacheVars, at' \in [Jobs -> Steps],
           \A j \in Jobs : at'[j] = "build" => at[j] = "build"
    PROVE  CacheInv'
BY DEF CacheInv, cacheVars, Cache!CacheTypeOK

LEMMA CacheStep ==
    ASSUME CacheInv, NEW j \in Jobs, Resolve(j)
    PROVE  /\ CacheInv'
           /\ \A k \in Jobs : at[k] # "gate" /\ at'[k] = "gate" =>
                 entry'.client = stored \/ replaced[entry'.client] < TTL + FetchBound
<1>. DEFINE Recent == entry'.client = stored \/ replaced[entry'.client] < TTL + FetchBound
<1>. USE DEF CacheInv
<1>1. TTL \in Nat \ {0} /\ FetchBound \in Nat /\ Versions \in Nat \ {0}
    BY RunInClusterAssumption DEF Cache!ClusterCacheAssumption
<1>2. stored \in 1..Versions /\ replaced \in [1..Versions -> 0..(TTL + FetchBound)]
      /\ fetch \in [Jobs -> [age : 0..FetchBound, got : 0..Versions]]
      /\ entry \in Cache!Entries \cup {NoEntry}
    BY DEF Cache!CacheTypeOK
<1>3. Cache!Fresh => replaced[entry.client] < TTL + FetchBound
  <2>1. Cache!Fresh => entry \in Cache!Entries BY <1>2 DEF Cache!Fresh
  <2>. QED BY <1>1, <1>2, <2>1 DEF Cache!Fresh, Cache!Entries
<1>4. mapped \subseteq {Project[k] : k \in Jobs} BY DEF Cache!CacheTypeOK
<1>5. Cache!NoFetch \in [age : 0..FetchBound, got : 0..Versions]
    BY <1>1 DEF Cache!NoFetch
<1>6. ASSUME NEW from \in Unresolved, NEW to \in Steps, Cache!Go(j, from, to)
      PROVE  at' \in [Jobs -> Steps] /\ at[j] = from /\ at'[j] = to
             /\ \A k \in Jobs : k # j => at'[k] = at[k]
    BY <1>6 DEF Cache!Go
<1>. USE DEF Unresolved, Steps, Ends
<1>7. CASE Cache!Cached(j) \/ Cache!Ask(j)
  <2>1. UNCHANGED cacheVars
      BY <1>7 DEF Cache!Cached, Cache!Ask, Cache!cacheVars, cacheVars
  <2>2. CASE Cache!Cached(j)
    <3>1. Cache!Go(j, "queued", "gate") /\ Cache!Fresh BY <2>2 DEF Cache!Cached
    <3>2. entry' = entry /\ replaced' = replaced BY <2>1 DEF cacheVars
    <3>. QED BY <1>3, <1>6, <2>1, <3>1, <3>2, CacheUntouched
  <2>3. CASE Cache!Ask(j)
    <3>1. Cache!Go(j, "queued", "fetch") BY <2>3 DEF Cache!Ask
    <3>. QED BY <1>6, <2>1, <3>1, CacheUntouched
  <2>. QED BY <1>7, <2>2, <2>3
<1>8. CASE Cache!FetchOrganizationCluster(j)
  <2>1. Cache!Go(j, "fetch", "build") /\ fetch' = [fetch EXCEPT ![j].got = stored]
        /\ UNCHANGED <<stored, replaced, entry, mapped>>
      BY <1>8 DEF Cache!FetchOrganizationCluster
  <2>2. at' \in [Jobs -> Steps] /\ at'[j] = "build" /\ \A k \in Jobs : k # j => at'[k] = at[k]
      BY <1>6, <2>1
  <2>3. fetch' \in [Jobs -> [age : 0..FetchBound, got : 0..Versions]]
        /\ fetch'[j].got = stored /\ fetch'[j].age = fetch[j].age
        /\ \A k \in Jobs : k # j => fetch'[k] = fetch[k]
      BY <1>2, <2>1
  <2>4. Cache!CacheTypeOK' BY <2>1, <2>3 DEF Cache!CacheTypeOK
  <2>5. replaced[stored] = 0 /\ fetch[j].age \in Nat BY <1>2
  <2>6. ASSUME NEW k \in Jobs, at'[k] = "build"
        PROVE  fetch'[k].got \in 1..stored /\ replaced[fetch'[k].got] <= fetch'[k].age
    <3>1. CASE k = j BY <1>2, <2>3, <2>5, <3>1
    <3>2. CASE k # j BY <2>2, <2>3, <2>6, <3>2
    <3>. QED BY <3>1, <3>2
  <2>. QED BY <2>1, <2>2, <2>4, <2>6
<1>9. ASSUME NEW from \in {"fetch", "build"}, NEW to \in {"failed", "gate"}, Cache!Go(j, from, to),
             fetch' = [fetch EXCEPT ![j] = Cache!NoFetch], UNCHANGED <<stored, replaced>>,
             mapped' \subseteq {Project[k] : k \in Jobs},
             entry' \in Cache!Entries \cup {NoEntry},
             entry' # NoEntry => /\ entry'.client \in 1..stored
                                 /\ entry'.age < TTL => replaced[entry'.client] <= entry'.age + FetchBound
      PROVE  CacheInv' /\ at'[j] = to /\ \A k \in Jobs : k # j => at'[k] = at[k]
  <2>1. at' \in [Jobs -> Steps] /\ at'[j] = to /\ \A k \in Jobs : k # j => at'[k] = at[k]
      BY <1>6, <1>9
  <2>2. fetch' \in [Jobs -> [age : 0..FetchBound, got : 0..Versions]]
      BY <1>2, <1>5, <1>9
  <2>3. Cache!CacheTypeOK' BY <1>2, <1>9, <2>2 DEF Cache!CacheTypeOK
  <2>4. \A k \in Jobs : at'[k] = "build" => k # j /\ at[k] = "build" /\ fetch'[k] = fetch[k]
      BY <1>2, <1>9, <2>1
  <2>. QED BY <1>9, <2>1, <2>3, <2>4
<1>10. CASE Cache!FetchFails(j)
    BY <1>2, <1>4, <1>9, <1>10 DEF Cache!FetchFails
<1>11. CASE Cache!Reuse(j)
    BY <1>2, <1>3, <1>4, <1>9, <1>11 DEF Cache!Reuse
<1>12. CASE Cache!Build(j)
  <2>1. /\ Cache!Go(j, "build", "gate") /\ fetch[j].got \notin Broken
        /\ mapped' = mapped \cup {Project[j]} /\ entry' = [client |-> fetch[j].got, age |-> 0]
        /\ fetch' = [fetch EXCEPT ![j] = Cache!NoFetch] /\ UNCHANGED <<stored, replaced>>
      BY <1>12 DEF Cache!Build
  <2>2. at[j] = "build" BY <2>1 DEF Cache!Go
  <2>3. fetch[j].got \in 1..stored /\ replaced[fetch[j].got] <= fetch[j].age
        /\ fetch[j].age \in 0..FetchBound
      BY <1>2, <2>2
  <2>4. fetch[j].got \in 1..Versions /\ replaced[fetch[j].got] \in Nat BY <1>2, <2>3
  <2>5. replaced[fetch[j].got] <= FetchBound BY <1>1, <2>3, <2>4
  <2>6. entry' \in Cache!Entries /\ entry'.client = fetch[j].got /\ entry'.age = 0
      BY <1>1, <2>1, <2>4 DEF Cache!Entries
  <2>7. Recent BY <1>1, <2>4, <2>5, <2>6
  <2>. QED BY <1>1, <1>4, <1>9, <2>1, <2>3, <2>5, <2>6, <2>7
<1>13. CASE Cache!BuildFails(j)
    BY <1>4, <1>9, <1>13 DEF Cache!BuildFails
<1>. QED BY <1>7, <1>8, <1>10, <1>11, <1>12, <1>13 DEF Resolve, Cache!Resolve

(* Time passes, and another kubeconfig is stored.                          *)
LEMMA CacheAges ==
    ASSUME CacheInv, Cache!Tick \/ Cache!StoreKubeconfig
    PROVE  CacheInv' /\ at' = at
<1>. USE DEF CacheInv
<1>1. TTL \in Nat \ {0} /\ FetchBound \in Nat /\ Versions \in Nat \ {0}
    BY RunInClusterAssumption DEF Cache!ClusterCacheAssumption
<1>2. stored \in 1..Versions /\ replaced \in [1..Versions -> 0..(TTL + FetchBound)]
      /\ fetch \in [Jobs -> [age : 0..FetchBound, got : 0..Versions]]
      /\ entry \in Cache!Entries \cup {NoEntry}
    BY DEF Cache!CacheTypeOK
<1>3. CASE Cache!StoreKubeconfig
  <2>1. stored' = stored + 1 /\ stored' \in 1..Versions /\ UNCHANGED <<at, replaced, entry, mapped, fetch>>
      BY <1>1, <1>2, <1>3 DEF Cache!StoreKubeconfig
  <2>2. Cache!CacheTypeOK' BY <1>2, <2>1 DEF Cache!CacheTypeOK
  <2>3. 1..stored \subseteq 1..stored' BY <1>2, <2>1
  <2>4. \A v \in 1..Versions : v >= stored' => replaced'[v] = 0 BY <1>2, <2>1
  <2>. QED BY <2>1, <2>2, <2>3, <2>4
<1>4. CASE Cache!Tick
  <2>. DEFINE cap == TTL + FetchBound
  <2>1. /\ UNCHANGED <<at, stored, mapped>>
        /\ \A j \in Jobs : at[j] \in {"fetch", "build"} => fetch[j].age < FetchBound
        /\ replaced' = [v \in 1..Versions |->
                          IF v < stored THEN Cache!Older(replaced[v], cap) ELSE 0]
        /\ entry' = IF entry = NoEntry THEN entry
                    ELSE [entry EXCEPT !.age = Cache!Older(@, TTL)]
        /\ fetch' = [j \in Jobs |-> IF at[j] \in {"fetch", "build"}
                                    THEN [fetch[j] EXCEPT !.age = @ + 1] ELSE fetch[j]]
      BY <1>4 DEF Cache!Tick
  <2>2. \A v \in 1..Versions : replaced'[v] \in 0..cap /\ replaced'[v] <= replaced[v] + 1
      BY <1>1, <1>2, <2>1 DEF Cache!Older
  <2>3. replaced' \in [1..Versions -> 0..cap] BY <2>1, <2>2
  <2>4. ASSUME NEW j \in Jobs
        PROVE  fetch'[j] \in [age : 0..FetchBound, got : 0..Versions]
               /\ fetch'[j].got = fetch[j].got
               /\ (at[j] \in {"fetch", "build"} => fetch'[j].age = fetch[j].age + 1)
    <3>1. CASE at[j] \in {"fetch", "build"}
      <4>1. fetch'[j] = [fetch[j] EXCEPT !.age = @ + 1] /\ fetch[j].age < FetchBound
          BY <2>1, <3>1
      <4>2. fetch[j] \in [age : 0..FetchBound, got : 0..Versions] BY <1>2
      <4>3. fetch'[j] \in [age : Nat, got : 0..Versions] /\ fetch'[j].got = fetch[j].got
            /\ fetch'[j].age = fetch[j].age + 1
          BY <4>1, <4>2
      <4>. QED BY <1>1, <4>1, <4>2, <4>3
    <3>2. CASE at[j] \notin {"fetch", "build"} BY <1>2, <2>1, <3>2
    <3>. QED BY <3>1, <3>2
  <2>5. fetch' \in [Jobs -> [age : 0..FetchBound, got : 0..Versions]] BY <2>1, <2>4
  <2>6. entry # NoEntry =>
           /\ entry' \in Cache!Entries /\ entry'.client = entry.client
           /\ entry'.age < TTL => entry.age < TTL /\ entry'.age = entry.age + 1
      BY <1>1, <1>2, <2>1 DEF Cache!Entries, Cache!Older
  <2>7. entry' \in Cache!Entries \cup {NoEntry} BY <2>1, <2>6
  <2>8. Cache!CacheTypeOK' BY <1>2, <2>1, <2>3, <2>5, <2>7 DEF Cache!CacheTypeOK
  <2>9. \A v \in 1..Versions : v >= stored' => replaced'[v] = 0 BY <1>2, <2>1
  <2>10. ASSUME NEW j \in Jobs, at'[j] = "build"
         PROVE  fetch'[j].got \in 1..stored' /\ replaced'[fetch'[j].got] <= fetch'[j].age
    <3>1. fetch[j].got \in 1..stored /\ replaced[fetch[j].got] <= fetch[j].age BY <2>1, <2>10
    <3>2. fetch[j].got \in 1..Versions BY <1>2, <3>1
    <3>3. replaced[fetch[j].got] \in Nat /\ fetch[j].age \in Nat BY <1>2, <3>2
    <3>4. fetch'[j].age = fetch[j].age + 1 BY <2>1, <2>4, <2>10
    <3>5. replaced'[fetch[j].got] \in Nat /\ replaced'[fetch[j].got] <= replaced[fetch[j].got] + 1
        BY <2>2, <3>2
    <3>. QED BY <2>1, <2>4, <3>1, <3>3, <3>4, <3>5
  <2>11. ASSUME entry' # NoEntry
         PROVE  /\ entry'.client \in 1..stored'
                /\ entry'.age < TTL => replaced'[entry'.client] <= entry'.age + FetchBound
    <3>1. entry # NoEntry /\ entry \in Cache!Entries BY <1>2, <2>1, <2>11
    <3>2. entry.client \in 1..Versions /\ entry.age \in Nat BY <3>1 DEF Cache!Entries
    <3>3. replaced[entry.client] \in Nat /\ replaced'[entry.client] \in Nat
          /\ replaced'[entry.client] <= replaced[entry.client] + 1
        BY <1>2, <2>2, <3>2
    <3>4. entry'.client = entry.client /\ entry'.client \in 1..stored' BY <2>1, <2>6, <3>1
    <3>5. ASSUME entry'.age < TTL PROVE replaced'[entry'.client] <= entry'.age + FetchBound
      <4>1. entry'.age = entry.age + 1 /\ entry.age < TTL BY <2>6, <3>1, <3>5
      <4>2. replaced[entry.client] <= entry.age + FetchBound BY <3>1, <4>1
      <4>. QED BY <1>1, <3>2, <3>3, <3>4, <4>1, <4>2
    <3>. QED BY <3>4, <3>5
  <2>. QED BY <2>1, <2>8, <2>9, <2>10, <2>11
<1>. QED BY <1>3, <1>4

(* Steps of the other parts move a job to no step of the resolution, and   *)
(* to the gate only from there.                                            *)
LEMMA OtherPartsUntouch ==
    ASSUME CacheInv, NEW j \in Jobs, Gate(j) \/ Provision(j) \/ Roll(j) \/ BuildImage(j)
    PROVE  CacheInv' /\ \A k \in Jobs : at'[k] = "gate" => at[k] = "gate"
<1>1. PICK to \in Steps \ {"queued", "fetch", "build", "gate"} : at' = [at EXCEPT ![j] = to]
  <2>1. CASE Gate(j) BY <2>1 DEF Gate, Go, Steps, Ends
  <2>2. CASE Provision(j)
      BY <2>2 DEF Provision, Objects!Provision, Objects!FetchQuota, Objects!ReadQuota,
             Objects!CreateQuota, Objects!UpdateQuota, Objects!QuotaFails, Objects!PushSecret,
             Objects!PutSecret, Objects!SecretFails, Objects!ReadIngress, Objects!PutIngress,
             Objects!IngressFails, Objects!Go, Objects!GiveUp, Objects!Body, Steps, Ends
  <2>3. CASE Roll(j)
      BY <2>3 DEF Roll, Primary!Roll, Primary!CheckHistory, Primary!NoChart, Primary!Install,
             Primary!Upgrade, Primary!DeployEnds, Primary!Rollback, Primary!RollbackEnds,
             Primary!ReadBack, Primary!Report, Primary!ReportLost, Primary!ReportAbandoned,
             Primary!Refuse, Primary!Reported, Primary!Go, Steps, Ends
  <2>4. CASE BuildImage(j)
      BY <2>4 DEF BuildImage, Images!BuildImage, Images!NothingToBuild, Images!ClearName,
             Images!CreateBuildJob, Images!AwaitResult, Images!BuildRejected,
             Images!BuildTimesOut, Images!BuildFailsEarly, Images!Settle, Images!Go, Steps, Ends
  <2>. QED BY <2>1, <2>2, <2>3, <2>4
<1>2. UNCHANGED cacheVars BY DEF Gate, Provision, Roll, BuildImage
<1>3. at \in [Jobs -> Steps] BY DEF CacheInv
<1>. QED BY <1>1, <1>2, <1>3, CacheUntouched

(* The rest of the environment.                                            *)
LEMMA OthersUntouch ==
    ASSUME CacheInv, Environment \/ Shutdown \/ Exit \/ UNCHANGED vars
    PROVE  CacheInv' /\ \A k \in Jobs : at'[k] = "gate" => at[k] = "gate"
<1>1. CASE Exit
  <2>1. at' \in [Jobs -> Steps] /\ \A k \in Jobs : at'[k] \in {at[k], "killed"}
      BY <1>1 DEF Exit, CacheInv, Steps, Ends
  <2>2. \A k \in Jobs : at'[k] # "build" BY <1>1 DEF Exit, Underway, Ends
  <2>3. entry' = NoEntry /\ mapped' = {} /\ fetch' = [j \in Jobs |-> Cache!NoFetch]
        /\ UNCHANGED <<stored, replaced>>
      BY <1>1 DEF Exit, Cache!ForgetCache
  <2>4. Cache!CacheTypeOK'
      BY <2>3, RunInClusterAssumption
         DEF CacheInv, Cache!CacheTypeOK, Cache!NoFetch, Cache!ClusterCacheAssumption
  <2>. QED BY <2>1, <2>2, <2>3, <2>4 DEF CacheInv
<1>2. CASE Environment
  <2>1. CASE Cache!StoreKubeconfig \/ Cache!Tick BY <2>1, CacheAges
  <2>2. CASE ~(Cache!StoreKubeconfig \/ Cache!Tick)
    <3>1. UNCHANGED <<at, cacheVars>>
        BY <1>2, <2>2 DEF Environment, Objects!AddForeignLimit, Images!BuildCluster,
           Images!BuildPodStarts, Images!BuildPodEnds, Images!CollectBuildPod
    <3>. QED BY <3>1, CacheUntouched DEF CacheInv
  <2>. QED BY <2>1, <2>2
<1>3. CASE Shutdown \/ UNCHANGED vars
  <2>1. UNCHANGED <<at, cacheVars>> BY <1>3 DEF Shutdown, vars
  <2>. QED BY <2>1, CacheUntouched DEF CacheInv
<1>. QED BY <1>1, <1>2, <1>3

LEMMA NextCache ==
    ASSUME CacheInv, [Next]_vars
    PROVE  /\ CacheInv'
           /\ \A k \in Jobs : at[k] # "gate" /\ at'[k] = "gate" =>
                 entry'.client = stored \/ replaced[entry'.client] < TTL + FetchBound
<1>1. ASSUME NEW j \in Jobs, RunJob(j)
      PROVE  /\ CacheInv'
             /\ \A k \in Jobs : at[k] # "gate" /\ at'[k] = "gate" =>
                   entry'.client = stored \/ replaced[entry'.client] < TTL + FetchBound
    BY <1>1, CacheStep, OtherPartsUntouch DEF RunJob
<1>. QED BY <1>1, OthersUntouch DEF Next

LEMMA CacheInvariance == Spec => []CacheInv
<1>1. CacheInv /\ [Next]_vars => CacheInv' BY NextCache
<1>. QED BY <1>1, InitCache, PTL DEF Spec

(* No job is given a client of a kubeconfig that was replaced longer ago   *)
(* than the cache's time to live and one fetch together, however the jobs  *)
(* of an organization meet in the cache (worker/clusters.go).              *)
THEOREM ClustersAreRecent == Spec => ClusterIsRecent
<1>1. ASSUME CacheInv, [Next]_vars
      PROVE  [\A j \in Jobs :
                at[j] # "gate" /\ at'[j] = "gate" =>
                    \/ entry'.client = stored
                    \/ replaced[entry'.client] < TTL + FetchBound]_at
    BY <1>1, NextCache
<1>2. Spec => Cache!ClusterIsRecent
    BY <1>1, CacheInvariance, PTL DEF Spec, Cache!ClusterIsRecent
<1>. QED BY <1>2 DEF ClusterIsRecent

-----------------------------------------------------------------------------
(* The image builds.                                                       *)

BuildInv ==
    /\ pod \in [Jobs -> {"none", "running", "rejected", "gone", "built", "skipped", "broken"}]
    /\ image \in [Jobs -> {"none", "chart", "built"}]
    /\ \A j \in Jobs : pod[j] = "built" => j \in pushed
    /\ \A j \in Jobs :
          image[j] = "built" => \E k \in pushed : buildJobName[k] = buildJobName[j]
    /\ pushed \subseteq Jobs

LEMMA BuildInvariance == Spec => []BuildInv
<1>1. Init => BuildInv BY DEF Init, Images!BuildInit, BuildInv
<1>2. BuildInv /\ [Next]_vars => BuildInv'
  <2>. SUFFICES ASSUME BuildInv, [Next]_vars PROVE BuildInv' OBVIOUS
  <2>. USE DEF BuildInv
  <2>1. ASSUME NEW j \in Jobs, BuildImage(j) PROVE BuildInv'
    <3>1. UNCHANGED <<buildJobName, pod, pushed>>
        BY <2>1 DEF BuildImage, Images!BuildImage, Images!NothingToBuild, Images!ClearName,
               Images!CreateBuildJob, Images!AwaitResult, Images!BuildRejected,
               Images!BuildTimesOut, Images!BuildFailsEarly
    <3>2. PICK which \in {image[j], "chart", "built"} :
             /\ image' = [image EXCEPT ![j] = which]
             /\ \/ which = image[j] \/ which = "chart"
                \/ \E k \in pushed : buildJobName[k] = buildJobName[j]
      <4>1. CASE Images!AwaitResult(j)
        <5>1. PICK k \in Images!Labelled(j) :
                 image' = [image EXCEPT ![j] = Images!ImageOf(pod[k])]
            BY <4>1 DEF Images!AwaitResult, Images!Settle
        <5>2. k \in Jobs /\ buildJobName[k] = buildJobName[j] BY <5>1 DEF Images!Labelled
        <5>3. pod[k] = "built" => k \in pushed BY <5>2
        <5>. QED BY <5>1, <5>2, <5>3 DEF Images!ImageOf
      <4>2. CASE ~Images!AwaitResult(j)
          BY <2>1, <4>2 DEF BuildImage, Images!BuildImage, Images!NothingToBuild,
                 Images!ClearName, Images!CreateBuildJob, Images!BuildRejected,
                 Images!BuildTimesOut, Images!BuildFailsEarly, Images!Settle
      <4>. QED BY <4>1, <4>2
    <3>. QED BY <3>1, <3>2
  <2>2. ASSUME NEW j \in Jobs, Images!BuildCluster(j) PROVE BuildInv'
    <3>1. UNCHANGED <<buildJobName, image>>
        BY <2>2 DEF Images!BuildCluster, Images!BuildPodStarts, Images!BuildPodEnds,
               Images!CollectBuildPod
    <3>2. PICK status \in {"running", "rejected", "gone", "built", "skipped", "broken"} :
             /\ pod' = [pod EXCEPT ![j] = status]
             /\ pushed' = IF status = "built" THEN pushed \cup {j} ELSE pushed
        BY <2>2 DEF Images!BuildCluster, Images!BuildPodStarts, Images!BuildPodEnds,
               Images!CollectBuildPod, Images!Finished, Images!Skipped
    <3>. QED BY <3>1, <3>2
  <2>3. CASE UNCHANGED buildVars BY <2>3 DEF buildVars
  <2>. QED
      BY <2>1, <2>2, <2>3 DEF Next, RunJob, Resolve, Gate, Provision, Roll, Environment,
             Shutdown, Exit, vars
<1>. QED BY <1>1, <1>2, PTL DEF Spec

(* Whatever the build Jobs are called, a preview is given a built image    *)
(* only if a build under the name of its own pushed one                    *)
(* (imagebuild/build.go).                                                  *)
THEOREM BuiltImageWasPushed == Spec => []BuiltImageExists
<1>1. BuildInv => BuiltImageExists BY DEF BuildInv, BuiltImageExists, Images!BuiltImageExists
<1>. QED BY <1>1, BuildInvariance, PTL

OwnNames == \A j, k \in Jobs : buildJobName[j] = buildJobName[k] => j = k

OwnImage == OwnNames => \A j \in Jobs : image[j] = "built" => j \in pushed

(* So where no two jobs share a name, it is the job's own build that did.  *)
(* Names keep at most 63 characters, so a long repository name takes that  *)
(* away (sanitizeName of imagebuild/imagebuild.go).                        *)
THEOREM BuiltImageIsOwn == Spec => []OwnImage
<1>1. BuildInv => OwnImage BY DEF BuildInv, OwnNames, OwnImage
<1>. QED BY <1>1, BuildInvariance, PTL

-----------------------------------------------------------------------------
(* The quota.                                                              *)

Quota == [hard : 0..Settings, foreign : BOOLEAN]

(* Only a quota that is there is ever updated, and what a job writes back  *)
(* is what it read: if the write is not going to be refused, that is the   *)
(* quota as it is.                                                         *)
QuotaInv ==
    /\ at \in [Jobs -> Steps]
    /\ want \in [Jobs -> 0..Settings]
    /\ limits \in Quota \cup {NoObject}
    /\ seen \in [Jobs -> Quota \cup {NoObject}]
    /\ \A j \in Jobs : at[j] = "updateQuota" =>
          /\ limits \in Quota /\ seen[j] \in Quota
          /\ j \in current => seen[j] = limits

LEMMA NotThere == NoObject \notin Quota /\ 0 \in 0..Settings
BY RunInClusterAssumption DEF Objects!ProjectObjectsAssumption, Quota

(* A step of one job that neither reads nor writes the quota, and leaves   *)
(* no update behind.                                                       *)
LEMMA QuotaStep ==
    ASSUME QuotaInv, NEW j \in Jobs, NEW to \in Steps \ {"updateQuota"},
           at' = [at EXCEPT ![j] = to],
           want' \in [Jobs -> 0..Settings], limits' = limits,
           seen' = seen \/ seen' = [seen EXCEPT ![j] = NoObject],
           current' \subseteq current \cup {j}
    PROVE  QuotaInv'
BY DEF QuotaInv

LEMMA QuotaKept ==
    ASSUME QuotaInv, NEW j \in Jobs, Provision(j)
    PROVE  QuotaInv' /\ (limits # NoObject /\ limits.foreign => limits'.foreign)
<1>. USE DEF Objects!Provided, Objects!Default, Objects!Go
<1>1. /\ [want EXCEPT ![j] = 0] \in [Jobs -> 0..Settings]
      /\ at \in [Jobs -> Steps] /\ seen \in [Jobs -> Quota \cup {NoObject}]
      /\ limits \in Quota \cup {NoObject} /\ want \in [Jobs -> 0..Settings]
    BY NotThere DEF QuotaInv
<1>2. CASE Objects!FetchQuota(j)
  <2>1. PICK quota \in 0..Settings : want' = [want EXCEPT ![j] = quota]
      BY <1>2 DEF Objects!FetchQuota
  <2>2. at' = [at EXCEPT ![j] = "namespace"] /\ UNCHANGED <<limits, seen, current>>
      BY <1>2 DEF Objects!FetchQuota
  <2>3. want' \in [Jobs -> 0..Settings] BY <1>1, <2>1
  <2>. QED BY <2>2, <2>3, QuotaStep DEF Steps
<1>3. CASE Objects!ReadQuota(j) /\ at' = [at EXCEPT ![j] = "updateQuota"]
  <2>1. /\ limits # NoObject /\ current' = current \cup {j} /\ UNCHANGED <<limits, want>>
        /\ seen' = [seen EXCEPT ![j] = limits]
    <3>1. at'[j] = "updateQuota" BY <1>1, <1>3
    <3>. QED BY <1>1, <1>3, <3>1 DEF Objects!ReadQuota, Objects!Read, Objects!Body
  <2>. QED BY <1>1, <1>3, <2>1 DEF QuotaInv, Steps
<1>4. CASE Objects!ReadQuota(j) /\ at' # [at EXCEPT ![j] = "updateQuota"]
  <2>1. PICK to \in {"createQuota", "rollback", "secrets"} : at' = [at EXCEPT ![j] = to]
      BY <1>4 DEF Objects!ReadQuota, Objects!Body
  <2>2. /\ UNCHANGED <<limits, current>> /\ want' \in [Jobs -> 0..Settings]
        /\ seen' = seen \/ seen' = [seen EXCEPT ![j] = NoObject]
      BY <1>1, <1>4 DEF Objects!ReadQuota
  <2>. QED BY <2>1, <2>2, QuotaStep DEF Steps
<1>5. CASE Objects!CreateQuota(j)
  <2>1. PICK to \in {"rollback", "secrets"} : at' = [at EXCEPT ![j] = to]
      BY <1>5 DEF Objects!CreateQuota, Objects!Body
  <2>2. /\ want' \in [Jobs -> 0..Settings] /\ current' = current
        /\ seen' = [seen EXCEPT ![j] = NoObject]
      BY <1>1, <1>5 DEF Objects!CreateQuota
  <2>3. CASE limits # NoObject
    <3>1. limits' = limits BY <1>5, <2>3 DEF Objects!CreateQuota
    <3>. QED BY <2>1, <2>2, <3>1, QuotaStep DEF Steps
  <2>4. CASE limits = NoObject
    <3>1. limits' \in Quota BY <1>1, <1>5, <2>4 DEF Objects!CreateQuota, Quota
    <3>2. \A k \in Jobs : at[k] # "updateQuota" BY <2>4, NotThere DEF QuotaInv
    <3>3. \A k \in Jobs : at'[k] # "updateQuota" BY <1>1, <2>1, <3>2
    <3>4. at' \in [Jobs -> Steps] BY <1>1, <2>1 DEF Steps
    <3>. QED BY <1>1, <2>2, <2>4, <3>1, <3>3, <3>4 DEF QuotaInv
  <2>. QED BY <2>3, <2>4
<1>6. CASE Objects!UpdateQuota(j)
  <2>1. PICK to \in {"rollback", "secrets", "failed"} : at' = [at EXCEPT ![j] = to]
      BY <1>6 DEF Objects!UpdateQuota, Objects!Body
  <2>2. /\ at[j] = "updateQuota" /\ want' \in [Jobs -> 0..Settings]
        /\ seen' = [seen EXCEPT ![j] = NoObject]
      BY <1>1, <1>6 DEF Objects!UpdateQuota
  <2>3. CASE j \notin current
    <3>1. UNCHANGED <<limits, current>> BY <1>6, <2>3 DEF Objects!UpdateQuota
    <3>. QED BY <2>1, <2>2, <3>1, QuotaStep DEF Steps, Ends
  <2>4. CASE j \in current
    <3>1. seen[j] = limits /\ limits \in Quota BY <2>2, <2>4 DEF QuotaInv
    <3>2. /\ limits' = [seen[j] EXCEPT !.hard = want[j]]
          /\ current' = current \ {k \in Jobs : at[k] = "updateQuota"}
        BY <1>6, <2>4 DEF Objects!UpdateQuota, Objects!Merged, Objects!Overtake
    <3>3. limits' \in Quota /\ limits'.foreign = limits.foreign BY <1>1, <3>1, <3>2 DEF Quota
    <3>4. \A k \in Jobs : at'[k] = "updateQuota" =>
             at[k] = "updateQuota" /\ k # j /\ k \notin current'
        BY <1>1, <2>1, <3>2
    <3>5. at' \in [Jobs -> Steps] BY <1>1, <2>1 DEF Steps, Ends
    <3>. QED BY <1>1, <2>2, <3>3, <3>4, <3>5 DEF QuotaInv
  <2>. QED BY <2>3, <2>4
<1>7. CASE Objects!QuotaFails(j)
  <2>1. at' = [at EXCEPT ![j] = "failed"] /\ limits' = limits /\ current' \subseteq current
      BY <1>7 DEF Objects!QuotaFails
  <2>2. want' \in [Jobs -> 0..Settings] /\ seen' = [seen EXCEPT ![j] = NoObject]
      BY <1>1, <1>7 DEF Objects!QuotaFails
  <2>. QED BY <2>1, <2>2, QuotaStep DEF Steps, Ends
<1>8. CASE \/ Objects!PushSecret(j) \/ Objects!PutSecret(j) \/ Objects!SecretFails(j)
           \/ Objects!ReadIngress(j) \/ Objects!PutIngress(j) \/ Objects!IngressFails(j)
  <2>1. PICK to \in {"putSecret", "chart", "done", "failed", "putIngress"} :
           at' = [at EXCEPT ![j] = to]
      BY <1>8 DEF Objects!PushSecret, Objects!PutSecret, Objects!SecretFails,
             Objects!ReadIngress, Objects!PutIngress, Objects!IngressFails, Objects!GiveUp
  <2>2. UNCHANGED <<limits, want, seen>> /\ current' \subseteq current \cup {j}
      BY <1>8 DEF Objects!PushSecret, Objects!PutSecret, Objects!SecretFails,
             Objects!ReadIngress, Objects!PutIngress, Objects!IngressFails, Objects!Read,
             Objects!Overtake
  <2>. QED BY <1>1, <2>1, <2>2, QuotaStep DEF Steps, Ends
<1>. QED
    BY <1>2, <1>3, <1>4, <1>5, <1>6, <1>7, <1>8 DEF Provision, Objects!Provision

LEMMA QuotaUntouched ==
    ASSUME QuotaInv, UNCHANGED <<limits, want, seen, current>>, at' \in [Jobs -> Steps],
           \A j \in Jobs : at'[j] = "updateQuota" => at[j] = "updateQuota"
    PROVE  QuotaInv'
BY DEF QuotaInv

LEMMA OthersKeepQuota ==
    ASSUME QuotaInv, NEW j \in Jobs, Resolve(j) \/ Gate(j) \/ Roll(j) \/ BuildImage(j)
    PROVE  QuotaInv' /\ limits' = limits
<1>1. PICK to \in Steps \ {"updateQuota"} : at' = [at EXCEPT ![j] = to]
  <2>1. CASE Gate(j) BY <2>1 DEF Gate, Go, Steps, Ends
  <2>2. CASE Resolve(j)
      BY <2>2 DEF Resolve, Cache!Resolve, Cache!Cached, Cache!Ask,
             Cache!FetchOrganizationCluster, Cache!FetchFails, Cache!Reuse, Cache!Build,
             Cache!BuildFails, Cache!Go, Steps, Ends
  <2>3. CASE Roll(j)
      BY <2>3 DEF Roll, Primary!Roll, Primary!CheckHistory, Primary!NoChart, Primary!Install,
             Primary!Upgrade, Primary!DeployEnds, Primary!Rollback, Primary!RollbackEnds,
             Primary!ReadBack, Primary!Report, Primary!ReportLost, Primary!ReportAbandoned,
             Primary!Refuse, Primary!Reported, Primary!Go, Steps, Ends
  <2>4. CASE BuildImage(j)
      BY <2>4 DEF BuildImage, Images!BuildImage, Images!NothingToBuild, Images!ClearName,
             Images!CreateBuildJob, Images!AwaitResult, Images!BuildRejected,
             Images!BuildTimesOut, Images!BuildFailsEarly, Images!Settle, Images!Go, Steps, Ends
  <2>. QED BY <2>1, <2>2, <2>3, <2>4
<1>2. UNCHANGED <<limits, want, seen, current>> BY DEF Resolve, Gate, Roll, BuildImage, objectVars
<1>3. /\ at' \in [Jobs -> Steps]
      /\ \A k \in Jobs : at'[k] = "updateQuota" => at[k] = "updateQuota"
    BY <1>1 DEF QuotaInv
<1>. QED BY <1>2, <1>3, QuotaUntouched

LEMMA EnvironmentKeepsQuota ==
    ASSUME QuotaInv, Environment \/ Shutdown \/ Exit \/ UNCHANGED vars
    PROVE  QuotaInv' /\ (limits # NoObject /\ limits.foreign => limits'.foreign)
<1>1. CASE Exit
  <2>1. /\ at' \in [Jobs -> Steps] /\ \A k \in Jobs : at'[k] \in {at[k], "killed"}
        /\ limits' = limits /\ want' = [k \in Jobs |-> 0] /\ seen' = [k \in Jobs |-> NoObject]
        /\ current' = {} /\ \A k \in Jobs : at'[k] # "updateQuota"
      BY <1>1 DEF Exit, Underway, QuotaInv, Steps, Ends, Objects!ForgetReads, Objects!Default
  <2>. QED BY <2>1, NotThere DEF QuotaInv
<1>2. CASE Objects!AddForeignLimit
  <2>1. /\ UNCHANGED <<at, want, seen>>
        /\ limits # NoObject /\ limits' = [limits EXCEPT !.foreign = TRUE]
        /\ current' = current \ {k \in Jobs : at[k] = "updateQuota"}
      BY <1>2 DEF Objects!AddForeignLimit, Objects!Overtake
  <2>2. limits \in Quota BY <2>1 DEF QuotaInv
  <2>3. limits' \in Quota /\ limits'.foreign BY <2>1, <2>2 DEF Quota
  <2>. QED BY <2>1, <2>3 DEF QuotaInv
<1>3. CASE (Environment /\ ~Objects!AddForeignLimit) \/ Shutdown \/ UNCHANGED vars
  <2>1. UNCHANGED <<at, want, limits, seen, current>>
      BY <1>3 DEF Environment, Shutdown, vars, objectVars, Cache!StoreKubeconfig, Cache!Tick,
             Images!BuildCluster, Images!BuildPodStarts, Images!BuildPodEnds,
             Images!CollectBuildPod
  <2>. QED BY <2>1 DEF QuotaInv
<1>. QED BY <1>1, <1>2, <1>3

LEMMA NextQuota ==
    ASSUME QuotaInv, [Next]_vars
    PROVE  QuotaInv' /\ (limits # NoObject /\ limits.foreign => limits'.foreign)
<1>1. ASSUME NEW j \in Jobs, RunJob(j)
      PROVE  QuotaInv' /\ (limits # NoObject /\ limits.foreign => limits'.foreign)
    BY <1>1, QuotaKept, OthersKeepQuota DEF RunJob
<1>. QED BY <1>1, EnvironmentKeepsQuota DEF Next

LEMMA QuotaInvariance == Spec => []QuotaInv
<1>1. Init => QuotaInv
  <2>. QED BY NotThere DEF Init, QuotaInv, Objects!ObjectsInit, Objects!Default, Steps
<1>2. QuotaInv /\ [Next]_vars => QuotaInv' BY NextQuota
<1>. QED BY <1>1, <1>2, PTL DEF Spec

(* ForeignLimitsKept: whatever jobs read the quota, and when, none of      *)
(* their updates removes a limit somebody else put on the namespace: a     *)
(* write that is not refused writes back what is there (k8s/namespace.go). *)
THEOREM ForeignLimitsSurvive == Spec => ForeignLimitsKept
<1>1. QuotaInv /\ [Next]_vars => [limits # NoObject /\ limits.foreign => limits'.foreign]_limits
    BY NextQuota
<1>2. Spec => Objects!ForeignLimitsKept
    BY <1>1, QuotaInvariance, PTL DEF Spec, Objects!ForeignLimitsKept
<1>. QED BY <1>2 DEF ForeignLimitsKept

-----------------------------------------------------------------------------
(* Types.                                                                  *)

(* What no other invariant above says of the objects and the builds.       *)
PlainTypeOK ==
    /\ stopped \in BOOLEAN
    /\ secret \in BOOLEAN /\ ingress \in BOOLEAN /\ current \subseteq Jobs
    /\ buildJobName \in Namings
    /\ owner \in [Images!Names -> Jobs \cup {NoJob}] /\ pushed \subseteq Jobs
    /\ pod \in [Jobs -> {"none", "running", "rejected", "gone"} \cup Images!Finished]
    /\ image \in [Jobs -> {"none", "chart", "built"}]

LEMMA PlainTypes == Spec => []PlainTypeOK
<1>1. Init => PlainTypeOK
    BY DEF Init, Objects!ObjectsInit, Images!BuildInit, PlainTypeOK
<1>2. PlainTypeOK /\ [Next]_vars => PlainTypeOK'
  <2>. SUFFICES ASSUME PlainTypeOK, [Next]_vars PROVE PlainTypeOK' OBVIOUS
  <2>. USE DEF PlainTypeOK
  <2>1. ASSUME NEW j \in Jobs, RunJob(j) PROVE PlainTypeOK'
    <3>1. UNCHANGED stopped BY <2>1 DEF RunJob
    <3>2. CASE Provision(j)
      <4>1. UNCHANGED buildVars BY <3>2 DEF Provision
      <4>2. secret' \in BOOLEAN /\ ingress' \in BOOLEAN
          BY <3>2 DEF Provision, Objects!Provision, Objects!FetchQuota, Objects!ReadQuota,
                 Objects!CreateQuota, Objects!UpdateQuota, Objects!QuotaFails,
                 Objects!PushSecret, Objects!PutSecret, Objects!SecretFails,
                 Objects!ReadIngress, Objects!PutIngress, Objects!IngressFails
      <4>3. current' \subseteq current \cup {j}
          BY <3>2 DEF Provision, Objects!Provision, Objects!FetchQuota, Objects!ReadQuota,
                 Objects!CreateQuota, Objects!UpdateQuota, Objects!QuotaFails,
                 Objects!PushSecret, Objects!PutSecret, Objects!SecretFails,
                 Objects!ReadIngress, Objects!PutIngress, Objects!IngressFails,
                 Objects!Read, Objects!Overtake
      <4>. QED BY <3>1, <4>1, <4>2, <4>3 DEF buildVars
    <3>3. CASE BuildImage(j)
      <4>1. UNCHANGED <<objectVars, buildJobName, pushed>>
          BY <3>3 DEF BuildImage, Images!BuildImage, Images!NothingToBuild, Images!ClearName,
                 Images!CreateBuildJob, Images!AwaitResult, Images!BuildRejected,
                 Images!BuildTimesOut, Images!BuildFailsEarly
      <4>2. PICK k \in {j, NoJob} :
               owner' = owner \/ owner' = [owner EXCEPT ![buildJobName[j]] = k]
          BY <3>3 DEF BuildImage, Images!BuildImage, Images!NothingToBuild, Images!ClearName,
                 Images!CreateBuildJob, Images!AwaitResult, Images!BuildRejected,
                 Images!BuildTimesOut, Images!BuildFailsEarly, Images!DeleteBuildJob
      <4>3. PICK which \in {image[j], "chart", "built"} :
               image' = [image EXCEPT ![j] = which] /\ UNCHANGED pod
          BY <3>3 DEF BuildImage, Images!BuildImage, Images!NothingToBuild, Images!ClearName,
                 Images!CreateBuildJob, Images!AwaitResult, Images!BuildRejected,
                 Images!BuildTimesOut, Images!BuildFailsEarly, Images!Settle, Images!ImageOf
      <4>4. owner' \in [Images!Names -> Jobs \cup {NoJob}] BY <4>2
      <4>. QED BY <3>1, <4>1, <4>3, <4>4 DEF objectVars
    <3>4. CASE Resolve(j) \/ Gate(j) \/ Roll(j)
        BY <3>1, <3>4 DEF Resolve, Gate, Roll, objectVars, buildVars
    <3>. QED BY <2>1, <3>2, <3>3, <3>4 DEF RunJob
  <2>2. CASE Environment
    <3>1. UNCHANGED <<stopped, secret, ingress, buildJobName, owner>>
          /\ current' \subseteq current
          /\ pushed' \subseteq Jobs
        BY <2>2 DEF Environment, objectVars, buildVars, Objects!AddForeignLimit,
               Objects!Overtake, Images!BuildCluster, Images!BuildPodStarts,
               Images!BuildPodEnds, Images!CollectBuildPod
    <3>2. image' = image /\ pod' \in [Jobs -> {"none", "running", "rejected", "gone"}
                                               \cup Images!Finished]
        BY <2>2 DEF Environment, buildVars, Images!BuildCluster, Images!BuildPodStarts,
               Images!BuildPodEnds, Images!CollectBuildPod
    <3>. QED BY <3>1, <3>2
  <2>3. CASE Shutdown \/ Exit \/ UNCHANGED vars
      BY <2>3 DEF Shutdown, Exit, vars, objectVars, buildVars, Objects!ForgetReads
  <2>. QED BY <2>1, <2>2, <2>3 DEF Next
<1>. QED BY <1>1, <1>2, PTL DEF Spec

(* Every variable of the composition keeps its type.  The bound on the     *)
(* tries of a report is Patience's.                                        *)
THEOREM TypeCorrect == Spec => []TypeOK
<1>1. LedgerInv /\ ReleaseInv /\ CacheInv /\ QuotaInv /\ PlainTypeOK => TypeOK
  <2>. SUFFICES ASSUME LedgerInv, ReleaseInv, CacheInv, QuotaInv, PlainTypeOK
                PROVE  TypeOK
      OBVIOUS
  <2>1. at \in [Jobs -> Steps] /\ stopped \in BOOLEAN /\ kind \in [Jobs -> Kinds]
      BY DEF LedgerInv, LedgerTypeOK, PlainTypeOK
  <2>2. Cache!CacheTypeOK BY DEF CacheInv
  <2>3. Objects!ObjectsTypeOK BY DEF QuotaInv, Quota, PlainTypeOK, Objects!ObjectsTypeOK, Objects!Limits
  <2>4. Primary!ReleaseTypeOK
    <3>1. ASSUME NEW j \in Jobs PROVE tries[j] \in 0..Attempts
      <4>1. tries[j] \in Nat BY DEF LedgerInv, LedgerTypeOK
      <4>2. tries[j] <= Attempts BY DEF ReleaseInv, Patience
      <4>3. Attempts \in Nat BY RunInClusterAssumption DEF Primary!PrimaryReleaseAssumption
      <4>. QED BY <4>1, <4>2, <4>3
    <3>2. {Primary!Pending, "failed"} \cup Primary!Live = Statuses
        BY DEF Primary!Pending, Primary!Live, Statuses
    <3>3. release \in Seq(Statuses) BY DEF LedgerInv, LedgerTypeOK, Statuses
    <3>. QED BY <3>1, <3>2, <3>3 DEF LedgerInv, LedgerTypeOK, Primary!ReleaseTypeOK
  <2>5. Images!BuildTypeOK
      BY DEF PlainTypeOK, Images!BuildTypeOK
  <2>. QED BY <2>1, <2>2, <2>3, <2>4, <2>5 DEF TypeOK
<1>. QED
    BY <1>1, ReleaseInvariance, CacheInvariance, QuotaInvariance, PlainTypes, PTL
=============================================================================
