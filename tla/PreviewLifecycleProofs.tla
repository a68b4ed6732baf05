------------------------ MODULE PreviewLifecycleProofs ------------------------
(***************************************************************************)
(* Proofs about PreviewLifecycle, for any set of jobs and any faults.      *)
(***************************************************************************)
EXTENDS PreviewLifecycle, TLAPS

(* The steps before the registry can know a preview.                       *)
Bringing == {"new", "deploy", "expose", "register", "record"}

Gone(j) == j \notin release \cup ingress

(* The registry hears of a preview from its registration on, and the sweep *)
(* from the registry.                                                      *)
Known ==
    \A j \in Jobs :
        /\ pc[j] \in Bringing => row[j] = "none"
        /\ j \in work \cup sweeping => row[j] # "none"

(* Whatever the sweep has on its list was stale when it was listed, and    *)
(* still is.                                                               *)
Listed == \A j \in work \cup sweeping : pc[j] = "done" \/ j \in cancelled \cup old

(* A preview that nobody may take away is up, as far as it was brought up. *)
Up ==
    \A j \in Jobs \ (cancelled \cup old) :
        /\ pc[j] \in {"expose", "register"} => j \in release
        /\ pc[j] = "register" => j \in ingress
        /\ pc[j] \in {"body", "session"} /\ j \in held => j \in release \cap ingress

(* What has been taken down stays down.                                    *)
Down ==
    \A j \in Jobs \ TestRuns :
        /\ pc[j] \in {"refused", "report"} => Gone(j)
        /\ j \in sweeping \/ row[j] = "torn_down" => Gone(j) \/ j \in missed

IInv == TypeOK /\ Known /\ Listed /\ Up /\ Down

LEMMA InitInv == Init => IInv
BY PreviewAssumption DEF Init, IInv, TypeOK, Known, Listed, Up, Down, Bringing, Gone, Body, Over

(* Bringing a preview up.                                                  *)
LEMMA BringingUp ==
    ASSUME IInv, NEW j \in Jobs, Claim(j) \/ Deploy(j) \/ Expose(j) \/ RecordFailure(j) \/ Register(j)
    PROVE  IInv'
<1>. USE DEF IInv, Go, Mark, cluster, sweep
<1>1. /\ pc[j] \in Bringing /\ row[j] = "none" /\ j \notin work \cup sweeping /\ j \notin held
      /\ pc' = [pc EXCEPT ![j] = pc'[j]]
    BY DEF Claim, Deploy, Expose, RecordFailure, Register, TypeOK, Known, Bringing, Body
<1>2. TypeOK' BY DEF TypeOK, Claim, Deploy, Expose, RecordFailure, Register, Body, Over
<1>3. Known' BY <1>1 DEF TypeOK, Known, Claim, Deploy, Expose, RecordFailure, Register, Bringing
<1>4. Listed' BY <1>1 DEF TypeOK, Listed, Claim, Deploy, Expose, RecordFailure, Register
<1>5. Up' BY <1>1 DEF TypeOK, Up, Gone, Claim, Deploy, Expose, RecordFailure, Register
<1>6. Down' BY <1>1 DEF TypeOK, Down, Gone, Claim, Deploy, Expose, RecordFailure, Register
<1>. QED BY <1>2, <1>3, <1>4, <1>5, <1>6

(* The job takes it down.                                                  *)
LEMMA Stopping ==
    ASSUME IInv, NEW j \in Jobs, StopRefused(j) \/ ReportRefused(j) \/ Stop(j) \/ ReportStop(j)
    PROVE  IInv'
<1>. USE DEF IInv, Go, cluster, sweep, Teardown, TeardownFails
<1>2. TypeOK'
  BY DEF TypeOK, StopRefused, ReportRefused, Stop, ReportStop, Report, CloseRow, Body, Over
<1>3. Known'
  BY DEF TypeOK, Known, StopRefused, ReportRefused, Stop, ReportStop, Report, CloseRow, Bringing
<1>4. Listed' BY DEF TypeOK, Listed, StopRefused, ReportRefused, Stop, ReportStop
<1>5. Up' BY DEF TypeOK, Up, Gone, Body, StopRefused, ReportRefused, Stop, ReportStop
<1>6. Down'
  BY DEF TypeOK, Down, Gone, StopRefused, ReportRefused, Stop, ReportStop, Report, CloseRow
<1>. QED BY <1>2, <1>3, <1>4, <1>5, <1>6

(* The job's body.                                                         *)
LEMMA Working ==
    ASSUME IInv, NEW j \in Jobs, BeginSession(j) \/ EndSession(j) \/ TestDeploy(j) \/ TestExpose(j)
    PROVE  IInv'
<1>. USE DEF IInv, Go, cluster, sweep
<1>2. TypeOK' BY DEF TypeOK, BeginSession, EndSession, TestDeploy, TestExpose, Body, Over
<1>3. Known' BY DEF TypeOK, Known, BeginSession, EndSession, TestDeploy, TestExpose, Bringing
<1>4. Listed' BY DEF TypeOK, Listed, BeginSession, EndSession, TestDeploy, TestExpose
<1>5. Up' BY DEF TypeOK, Up, Gone, BeginSession, EndSession, TestDeploy, TestExpose
<1>6. Down' BY DEF TypeOK, Down, Gone, BeginSession, EndSession, TestDeploy, TestExpose
<1>. QED BY <1>2, <1>3, <1>4, <1>5, <1>6

(* The sweep.                                                              *)
LEMMA Sweeping ==
    ASSUME IInv,
           \/ SweepFetches \/ SweepCrashes
           \/ \E j \in Jobs : SweepRemoves(j) \/ SweepFails(j) \/ SweepReports(j) \/ SweepIsNotHeard(j)
    PROVE  IInv'
<1>. USE DEF IInv, cluster, Teardown, TeardownFails
<1>1. CASE SweepFetches \/ SweepCrashes
  BY <1>1 DEF SweepFetches, SweepCrashes, Stale, TypeOK, Known, Listed, Up, Down, Gone, Bringing
<1>2. ASSUME NEW j \in Jobs, SweepRemoves(j) \/ SweepFails(j)
      PROVE  IInv'
  <2>1. /\ j \in work /\ UNCHANGED <<pc, held, row, cancelled, old>> /\ work' = work \ {j}
        /\ release' \in {release, release \ {j}} /\ ingress' \in {ingress, ingress \ {j}}
        /\ sweeping = {}
        /\ \/ sweeping' = {} /\ missed' = missed
           \/ /\ sweeping' = {j}
              /\ \/ j \notin release' \cup ingress' /\ missed' = missed \ {j}
                 \/ missed' = missed \cup {j}
      BY <1>2 DEF SweepRemoves, SweepFails, SweepMisses
  <2>2. TypeOK' BY <2>1 DEF TypeOK
  <2>3. Known' /\ Listed' BY <2>1 DEF Known, Listed
  <2>4. Up' BY <2>1 DEF Up, Gone, Listed
  <2>5. Down' BY <2>1 DEF Down, Gone
  <2>. QED BY <2>2, <2>3, <2>4, <2>5
<1>3. ASSUME NEW j \in Jobs, SweepReports(j) \/ SweepIsNotHeard(j)
      PROVE  IInv'
  <2>1. /\ j \in sweeping /\ UNCHANGED <<pc, held, release, ingress, cancelled, old, missed, work>>
        /\ sweeping' = {} /\ (row' = row \/ CloseRow(j))
      BY <1>3 DEF SweepReports, SweepIsNotHeard
  <2>2. TypeOK' BY <2>1 DEF TypeOK, CloseRow
  <2>3. Known' BY <2>1 DEF Known, Bringing, CloseRow, TypeOK
  <2>4. Listed' /\ Up' BY <2>1 DEF Listed, Up, Gone
  <2>5. Down' BY <2>1 DEF Down, Gone, CloseRow, TypeOK
  <2>. QED BY <2>2, <2>3, <2>4, <2>5
<1>. QED BY <1>1, <1>2, <1>3

LEMMA Happening ==
    ASSUME IInv, \E j \in Jobs : Cancel(j) \/ Age(j) \/ Crash(j)
    PROVE  IInv'
<1>. USE DEF IInv, cluster, sweep
<1>1. PICK j \in Jobs : Cancel(j) \/ Age(j) \/ Crash(j) OBVIOUS
<1>2. TypeOK' BY <1>1 DEF Cancel, Age, Crash, TypeOK, Body, Over
<1>3. Known' BY <1>1 DEF Cancel, Age, Crash, Known, TypeOK, Bringing
<1>4. Listed' BY <1>1 DEF Cancel, Age, Crash, Listed, TypeOK, Over
<1>5. Up' BY <1>1 DEF Cancel, Age, Crash, Up, Gone, TypeOK
<1>6. Down' BY <1>1 DEF Cancel, Age, Crash, Down, Gone, TypeOK
<1>. QED BY <1>2, <1>3, <1>4, <1>5, <1>6

LEMMA Invariance == Spec => []IInv
<1>1. IInv /\ [Next]_vars => IInv'
  <2>. SUFFICES ASSUME IInv, [Next]_vars PROVE IInv' OBVIOUS
  <2>1. CASE UNCHANGED vars
    BY <2>1 DEF vars, cluster, sweep, IInv, TypeOK, Known, Listed, Up, Down, Gone
  <2>. QED BY <2>1, BringingUp, Stopping, Working, Sweeping, Happening DEF Next, Goroutine
<1>. QED BY <1>1, InitInv, PTL DEF Spec

(* TypeOK: every variable keeps its type, and a handle is held only        *)
(* between the registration and the end of the deferred stop.              *)
THEOREM TypeCorrect == Spec => []TypeOK
BY Invariance, PTL DEF IInv

(* PreviewServes: whatever fails and whenever the sweep fetched its list,  *)
(* the preview of a session is up until the session is cancelled or the    *)
(* TTL has passed.                                                         *)
THEOREM SessionIsServed == Spec => []PreviewServes
<1>1. IInv => PreviewServes BY DEF IInv, TypeOK, Up, PreviewServes
<1>. QED BY <1>1, Invariance, PTL

(* TornDownIsGone: a row that says so names a preview that is gone, and    *)
(* that nothing brings up again, unless a sweep looked for it in another   *)
(* cluster than its own (worker/preview.go, stop and SweepPreviews).       *)
THEOREM RegistryIsTruthful == Spec => []TornDownIsGone
<1>1. IInv => TornDownIsGone BY DEF IInv, Down, Gone, TornDownIsGone
<1>. QED BY <1>1, Invariance, PTL

-----------------------------------------------------------------------------
(* The registry.                                                           *)

RegistryStep == [Registry!Next]_(Registry!vars)

(* Where a step leaves the stages and the rows alone, the registry has not *)
(* moved.                                                                  *)
LEMMA Unmoved ==
    ASSUME \A j \in Jobs : Stage'[j] = Stage[j], row' = row
    PROVE  RegistryStep
<1>1. Stage' = Stage BY DEF Stage
<1>. QED BY <1>1 DEF RegistryStep, Registry!vars

(* A row is closed only if it was active.                                  *)
LEMMA Closing ==
    ASSUME TypeOK, NEW j \in Jobs, CloseRow(j) \/ row' = row, \A i \in Jobs : Stage'[i] = Stage[i]
    PROVE  RegistryStep
<1>1. Stage' = Stage BY DEF Stage
<1>2. CASE row[j] = "active" /\ CloseRow(j)
  <2>1. Registry!TearDown(j) BY <1>1, <1>2 DEF CloseRow, Registry!TearDown
  <2>. QED BY <2>1 DEF RegistryStep, Registry!Next
<1>3. CASE ~(row[j] = "active" /\ CloseRow(j))
  <2>1. row' = row BY <1>3 DEF CloseRow, TypeOK
  <2>. QED BY <1>1, <2>1 DEF RegistryStep, Registry!vars
<1>. QED BY <1>2, <1>3

(* The bringing up is over, and the registry may have heard of it.         *)
LEMMA Settling ==
    ASSUME TypeOK, NEW j \in Jobs, Stage[j] = "during", Stage'[j] = "after",
           \A i \in Jobs \ {j} : Stage'[i] = Stage[i],
           row' = row \/ Mark(j, "active") \/ Mark(j, "failed")
    PROVE  RegistryStep
<1>1. CASE row' = row
  <2>1. Stage' = [i \in Jobs |-> IF i \in {j} THEN "after" ELSE Stage[i]] BY DEF Stage
  <2>2. Registry!Abandon({j}) BY <1>1, <2>1 DEF Registry!Abandon
  <2>. QED BY <2>2 DEF RegistryStep, Registry!Next
<1>2. CASE Mark(j, "active") \/ Mark(j, "failed")
  <2>1. Stage' = [Stage EXCEPT ![j] = "after"] BY DEF Stage
  <2>2. Registry!Record(j) BY <1>2, <2>1 DEF Registry!Record, Mark
  <2>. QED BY <2>2 DEF RegistryStep, Registry!Next
<1>. QED BY <1>1, <1>2

LEMMA NextRegisters == ASSUME TypeOK, [Next]_vars PROVE RegistryStep
<1>. USE DEF Go
<1>1. ASSUME NEW j \in Jobs, Claim(j)
      PROVE  RegistryStep
  <2>1. Stage' = [Stage EXCEPT ![j] = "during"] /\ Stage[j] = "before" /\ row' = row
      BY <1>1 DEF Claim, Stage, TypeOK
  <2>2. Registry!Begin(j) BY <2>1 DEF Registry!Begin
  <2>. QED BY <2>2 DEF RegistryStep, Registry!Next
<1>2. ASSUME NEW j \in Jobs, Deploy(j) \/ Expose(j)
      PROVE  RegistryStep
  <2>1. \A i \in Jobs : Stage'[i] = Stage[i] BY <1>2 DEF Deploy, Expose, Stage, TypeOK
  <2>. QED BY <1>2, <2>1, Unmoved DEF Deploy, Expose
<1>3. ASSUME NEW j \in Jobs, RecordFailure(j) \/ Register(j)
      PROVE  RegistryStep
  <2>1. Stage[j] = "during" /\ Stage'[j] = "after" /\ \A i \in Jobs \ {j} : Stage'[i] = Stage[i]
      BY <1>3 DEF RecordFailure, Register, Stage, TypeOK
  <2>2. row' = row \/ Mark(j, "active") \/ Mark(j, "failed") BY <1>3 DEF RecordFailure, Register
  <2>. QED BY <2>1, <2>2, Settling
<1>4. ASSUME NEW j \in Jobs,
             \/ StopRefused(j) \/ ReportRefused(j) \/ BeginSession(j) \/ EndSession(j)
             \/ TestDeploy(j) \/ TestExpose(j) \/ Stop(j) \/ ReportStop(j)
      PROVE  RegistryStep
  <2>1. \A i \in Jobs : Stage'[i] = Stage[i]
      BY <1>4 DEF StopRefused, ReportRefused, BeginSession, EndSession, TestDeploy, TestExpose,
                  Stop, ReportStop, Stage, TypeOK
  <2>2. CloseRow(j) \/ row' = row
      BY <1>4 DEF StopRefused, ReportRefused, BeginSession, EndSession, TestDeploy, TestExpose,
                  Stop, ReportStop, Report
  <2>. QED BY <2>1, <2>2, Closing
<1>5. ASSUME NEW j \in Jobs, Crash(j)
      PROVE  RegistryStep
  <2>1. row' = row /\ \A i \in Jobs \ {j} : Stage'[i] = Stage[i] BY <1>5 DEF Crash, Stage, TypeOK
  <2>2. \/ Stage'[j] = Stage[j]
        \/ Stage[j] = "during" /\ Stage'[j] = "after"
      BY <1>5 DEF Crash, Stage, TypeOK, Over
  <2>3. CASE Stage'[j] = Stage[j]
    <3>1. \A i \in Jobs : Stage'[i] = Stage[i] BY <2>1, <2>3
    <3>. QED BY <2>1, <3>1, Unmoved
  <2>. QED BY <2>1, <2>2, <2>3, Settling
<1>6. ASSUME NEW j \in Jobs,
             \/ SweepRemoves(j) \/ SweepFails(j) \/ SweepReports(j) \/ SweepIsNotHeard(j)
             \/ Cancel(j) \/ Age(j)
      PROVE  RegistryStep
  <2>1. pc' = pc /\ (CloseRow(j) \/ row' = row)
      BY <1>6 DEF SweepRemoves, SweepFails, SweepReports, SweepIsNotHeard, Cancel, Age
  <2>2. \A i \in Jobs : Stage'[i] = Stage[i] BY <2>1 DEF Stage
  <2>. QED BY <2>1, <2>2, Closing
<1>7. CASE SweepFetches \/ SweepCrashes \/ UNCHANGED vars
  <2>1. pc' = pc /\ row' = row BY <1>7 DEF SweepFetches, SweepCrashes, vars
  <2>2. \A i \in Jobs : Stage'[i] = Stage[i] BY <2>1 DEF Stage
  <2>. QED BY <2>1, <2>2, Unmoved
<1>. QED BY <1>1, <1>2, <1>3, <1>4, <1>5, <1>6, <1>7 DEF Next, Goroutine

(* ImplementsRegistry: whatever fails or crashes on the way up or down, and *)
(* however the sweep and the job race to take a preview down, the registry *)
(* hears of each bring-up at most once, as it ends, and what is torn down  *)
(* stays so (worker/preview.go, startJobPreview, stop and SweepPreviews).  *)
THEOREM PreviewsImplementRegistry == Spec => ImplementsRegistry
<1>1. Init => Registry!Init BY DEF Init, Registry!Init, Stage
<1>2. TypeOK /\ [Next]_vars => [Registry!Next]_(Registry!vars)
    BY NextRegisters DEF RegistryStep
<1>. QED BY <1>1, <1>2, TypeCorrect, PTL DEF Spec, ImplementsRegistry, Registry!Spec
=============================================================================
