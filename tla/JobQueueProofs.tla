---------------------------- MODULE JobQueueProofs ----------------------------
(***************************************************************************)
(* Proofs about JobQueue for every number of replicas and jobs, every cap  *)
(* and every combination of faults.                                        *)
(***************************************************************************)
EXTENDS JobQueue, FiniteSetTheorems, TLAPS

(* A row exists exactly up to the creation counter.                        *)
RowsExist == \A j \in Jobs : status[j] = "absent" <=> j > created

(* A goroutine runs a row that was claimed, and claimed by its replica.    *)
RunsItsClaim ==
    \A r \in Replicas : \A j \in Jobs :
        at[r][j] # "none" => lockedBy[j] = r /\ status[j] \notin {"absent", "pending"}

(* A claim statement locks one row, and only a pending one.                *)
LocksPending ==
    \A j \in Jobs : rowLock[j] # NoReplica =>
        /\ status[j] = "pending"
        /\ poll[rowLock[j]] = "locked"
        /\ \A k \in Jobs : rowLock[k] = rowLock[j] => k = j

(* The inductive invariant: what the claim relies on, together with the    *)
(* account of the limiter's slots that keeps its counter in range.         *)
IInv ==
    /\ TypeOK
    /\ RowsExist
    /\ RunsItsClaim
    /\ LocksPending
    /\ SlotsAccounted

-----------------------------------------------------------------------------
(* Live sets are finite, so the account of slots is an account in Nat.     *)
LEMMA LiveFinite ==
    ASSUME JobQueueAssumption, NEW r \in Replicas
    PROVE  IsFiniteSet(Live(r)) /\ Cardinality(Live(r)) \in Nat
<1>1. IsFiniteSet(Jobs) BY FS_Interval DEF Jobs, JobQueueAssumption
<1>2. Live(r) \subseteq Jobs BY DEF Live
<1>. QED BY <1>1, <1>2, FS_Subset, FS_CardinalityType

(* The initial state satisfies the invariant.                              *)
LEMMA InitIInv == ASSUME JobQueueAssumption, Init PROVE IInv
<1>1. TypeOK /\ RowsExist
    BY DEF Init, TypeOK, RowsExist, JobQueueAssumption, Jobs, Status, PreviewState, Step
<1>2. RunsItsClaim /\ LocksPending BY DEF Init, RunsItsClaim, LocksPending
<1>3. SlotsAccounted
    <2>1. SUFFICES ASSUME NEW r \in Replicas
                   PROVE  slots[r] = Cardinality(Live(r)) + IF poll[r] = "idle" THEN 0 ELSE 1
        BY DEF SlotsAccounted
    <2>2. Live(r) = {} BY DEF Init, Live
    <2>3. Cardinality(Live(r)) = 0 BY <2>2, FS_EmptySet
    <2>4. slots[r] = 0 /\ poll[r] = "idle" BY DEF Init
    <2>. QED BY <2>3, <2>4
<1>. QED BY <1>1, <1>2, <1>3 DEF IInv

-----------------------------------------------------------------------------
(* How a step changes what a replica runs.                                 *)

LEMMA LiveSame ==
    ASSUME TypeOK, NEW r \in Replicas, NEW s \in Replicas, NEW j \in Jobs,
           NEW v, v # "none", at[r][j] # "none",
           at' = [at EXCEPT ![r][j] = v]
    PROVE  Live(s)' = Live(s)
BY DEF Live, TypeOK

LEMMA LiveOthers ==
    ASSUME TypeOK, NEW r \in Replicas, NEW s \in Replicas, s # r, NEW j \in Jobs,
           NEW v, at' = [at EXCEPT ![r][j] = v]
    PROVE  Live(s)' = Live(s)
BY DEF Live, TypeOK

LEMMA LiveAdd ==
    ASSUME JobQueueAssumption, TypeOK, NEW r \in Replicas, NEW j \in Jobs,
           at[r][j] = "none", at' = [at EXCEPT ![r][j] = "start"]
    PROVE  Cardinality(Live(r)') = Cardinality(Live(r)) + 1
<1>1. Live(r)' = Live(r) \cup {j} BY DEF Live, TypeOK
<1>2. j \notin Live(r) BY DEF Live
<1>. QED BY <1>1, <1>2, LiveFinite, FS_AddElement

LEMMA LiveRemove ==
    ASSUME JobQueueAssumption, TypeOK, NEW r \in Replicas, NEW j \in Jobs,
           at[r][j] # "none", at' = [at EXCEPT ![r][j] = "none"]
    PROVE  Cardinality(Live(r)') = Cardinality(Live(r)) - 1 /\ Cardinality(Live(r)) > 0
<1>1. Live(r)' = Live(r) \ {j} BY DEF Live, TypeOK
<1>2. j \in Live(r) BY DEF Live
<1>3. Cardinality(Live(r)') = Cardinality(Live(r)) - 1
    BY <1>1, <1>2, LiveFinite, FS_RemoveElement
<1>4. Cardinality(Live(r)) # 0 BY <1>2, LiveFinite, FS_EmptySet
<1>. QED BY <1>3, <1>4, LiveFinite

(* The account of slots is kept when nothing it mentions changes.          *)
LEMMA SlotsUnchanged ==
    ASSUME SlotsAccounted, UNCHANGED <<slots, poll, at>>
    PROVE  SlotsAccounted'
BY DEF SlotsAccounted, Live

(* It is kept when one replica's slots and work change by the same amount. *)
LEMMA SlotsMoved ==
    ASSUME SlotsAccounted, NEW r \in Replicas,
           \A s \in Replicas \ {r} : slots'[s] = slots[s] /\ poll'[s] = poll[s] /\ Live(s)' = Live(s),
           slots'[r] = Cardinality(Live(r)') + IF poll'[r] = "idle" THEN 0 ELSE 1
    PROVE  SlotsAccounted'
<1>1. SUFFICES ASSUME NEW s \in Replicas
               PROVE  slots'[s] = Cardinality(Live(s)') + IF poll'[s] = "idle" THEN 0 ELSE 1
    BY DEF SlotsAccounted
<1>2. CASE s = r BY <1>2
<1>3. CASE s # r
    <2>1. slots[s] = Cardinality(Live(s)) + IF poll[s] = "idle" THEN 0 ELSE 1
        BY DEF SlotsAccounted
    <2>2. slots'[s] = slots[s] /\ poll'[s] = poll[s] /\ Live(s)' = Live(s) BY <1>3
    <2>. QED BY <2>1, <2>2
<1>. QED BY <1>2, <1>3

-----------------------------------------------------------------------------
(* The API's two writes.                                                   *)
LEMMA ApiStep ==
    ASSUME JobQueueAssumption, IInv, Submit \/ \E j \in Jobs : Cancel(j)
    PROVE  IInv'
<1>1. CASE Submit
    <2>1. created + 1 \in Jobs /\ created \in Nat /\ status[created + 1] = "absent"
        BY <1>1 DEF Submit, IInv, TypeOK, RowsExist, Jobs, JobQueueAssumption
    <2>2. TypeOK' BY <1>1, <2>1 DEF Submit, IInv, TypeOK, Status, Jobs, JobQueueAssumption
    <2>3. RowsExist' BY <1>1, <2>1 DEF Submit, IInv, TypeOK, RowsExist, Jobs
    <2>4. RunsItsClaim' BY <1>1, <2>1 DEF Submit, IInv, TypeOK, RunsItsClaim
    <2>5. LocksPending' BY <1>1, <2>1 DEF Submit, IInv, TypeOK, LocksPending
    <2>6. SlotsAccounted' BY <1>1, SlotsUnchanged DEF Submit, IInv
    <2>. QED BY <2>2, <2>3, <2>4, <2>5, <2>6 DEF IInv
<1>2. CASE \E j \in Jobs : Cancel(j)
    <2>1. PICK j \in Jobs : Cancel(j) BY <1>2
    <2>2. TypeOK' BY <2>1 DEF Cancel, IInv, TypeOK, Status, Terminal
    <2>3. RowsExist' BY <2>1 DEF Cancel, IInv, TypeOK, RowsExist
    <2>4. RunsItsClaim' BY <2>1 DEF Cancel, IInv, TypeOK, RunsItsClaim
    <2>5. LocksPending' BY <2>1 DEF Cancel, IInv, TypeOK, LocksPending
    <2>6. SlotsAccounted' BY <2>1, SlotsUnchanged DEF Cancel, IInv
    <2>. QED BY <2>2, <2>3, <2>4, <2>5, <2>6 DEF IInv
<1>. QED BY <1>1, <1>2

-----------------------------------------------------------------------------
(* The poll loop's steps, with and without an answer.                      *)
LEMMA PollStep ==
    ASSUME JobQueueAssumption, IInv, NEW r \in Replicas,
           Poll(r) \/ ClaimError(r) \/ ClaimAnswerLost(r)
    PROVE  IInv'
<1>u. /\ slots[r] = Cardinality(Live(r)) + IF poll[r] = "idle" THEN 0 ELSE 1
      /\ Cardinality(Live(r)) \in Nat
      /\ slots[r] \in 0..MaxConcurrent
    BY LiveFinite DEF IInv, SlotsAccounted, TypeOK
<1>1. CASE TryAcquire(r)
    <2>1. TypeOK' BY <1>1, <1>u DEF TryAcquire, IInv, TypeOK, JobQueueAssumption
    <2>2. RowsExist' /\ RunsItsClaim' /\ LocksPending'
        BY <1>1 DEF TryAcquire, IInv, TypeOK, RowsExist, RunsItsClaim, LocksPending
    <2>3. \A s \in Replicas : Live(s)' = Live(s) BY <1>1 DEF TryAcquire, Live
    <2>4. slots'[r] = slots[r] + 1 /\ poll[r] = "idle" /\ poll'[r] = "claiming"
        BY <1>1 DEF TryAcquire, IInv, TypeOK
    <2>5. \A s \in Replicas \ {r} : slots'[s] = slots[s] /\ poll'[s] = poll[s]
        BY <1>1 DEF TryAcquire, IInv, TypeOK
    <2>6. slots'[r] = Cardinality(Live(r)') + IF poll'[r] = "idle" THEN 0 ELSE 1
        BY <1>u, <2>3, <2>4
    <2>7. SlotsAccounted' BY <2>3, <2>5, <2>6, SlotsMoved DEF IInv
    <2>. QED BY <2>1, <2>2, <2>7 DEF IInv
<1>2. CASE ClaimSelect(r)
    <2>1. PICK j \in Jobs : IsOldest(j, Claimable(r)) /\ rowLock' = [rowLock EXCEPT ![j] = r]
        BY <1>2 DEF ClaimSelect
    <2>2. status[j] = "pending" BY <2>1 DEF IsOldest, Claimable
    <2>3. TypeOK' BY <1>2, <2>1 DEF ClaimSelect, IInv, TypeOK
    <2>4. RowsExist' /\ RunsItsClaim'
        BY <1>2 DEF ClaimSelect, IInv, TypeOK, RowsExist, RunsItsClaim
    <2>5. LocksPending'
        BY <1>2, <2>1, <2>2 DEF ClaimSelect, IInv, TypeOK, LocksPending
    <2>6. \A s \in Replicas : Live(s)' = Live(s) BY <1>2 DEF ClaimSelect, Live
    <2>7. slots' = slots /\ poll[r] = "claiming" /\ poll'[r] = "locked"
          /\ \A s \in Replicas \ {r} : poll'[s] = poll[s]
        BY <1>2 DEF ClaimSelect, IInv, TypeOK
    <2>8. slots'[r] = Cardinality(Live(r)') + IF poll'[r] = "idle" THEN 0 ELSE 1
        BY <1>u, <2>6, <2>7
    <2>9. SlotsAccounted' BY <2>6, <2>7, <2>8, SlotsMoved DEF IInv
    <2>. QED BY <2>3, <2>4, <2>5, <2>9 DEF IInv
<1>3. CASE ClaimNone(r)
    <2>1. \A s \in Replicas : Live(s)' = Live(s) BY <1>3 DEF ClaimNone, Live
    <2>2. slots'[r] = slots[r] - 1 /\ poll[r] = "claiming" /\ poll'[r] = "idle"
          /\ \A s \in Replicas \ {r} : slots'[s] = slots[s] /\ poll'[s] = poll[s]
        BY <1>3 DEF ClaimNone, EndClaim, Release, IInv, TypeOK
    <2>3. slots'[r] = Cardinality(Live(r)') + IF poll'[r] = "idle" THEN 0 ELSE 1
        BY <1>u, <2>1, <2>2
    <2>4. SlotsAccounted' BY <2>1, <2>2, <2>3, SlotsMoved DEF IInv
    <2>5. slots[r] - 1 \in 0..MaxConcurrent BY <1>u, <2>2 DEF JobQueueAssumption
    <2>6. TypeOK' BY <1>3, <2>5 DEF ClaimNone, EndClaim, Release, IInv, TypeOK
    <2>7. RowsExist' /\ RunsItsClaim' BY <1>3 DEF ClaimNone, IInv, RowsExist, RunsItsClaim
    <2>8. LocksPending' BY <1>3 DEF ClaimNone, EndClaim, IInv, TypeOK, LocksPending
    <2>. QED BY <2>4, <2>6, <2>7, <2>8 DEF IInv
<1>4. CASE ClaimCommit(r)
    <2>1. PICK j \in Jobs : /\ rowLock[j] = r
                            /\ MarkRunning(r, j)
                            /\ at' = [at EXCEPT ![r][j] = "start"]
        BY <1>4 DEF ClaimCommit
    <2>2. status[j] = "pending" /\ \A s \in Replicas : at[s][j] = "none"
        BY <2>1 DEF IInv, LocksPending, RunsItsClaim, JobQueueAssumption
    <2>3. TypeOK'
        BY <1>4, <2>1 DEF ClaimCommit, MarkRunning, EndClaim, IInv, TypeOK, Status, Step
    <2>4. RowsExist' BY <1>4, <2>1, <2>2 DEF ClaimCommit, MarkRunning, IInv, TypeOK, RowsExist
    <2>5. RunsItsClaim'
        BY <1>4, <2>1, <2>2 DEF ClaimCommit, MarkRunning, IInv, TypeOK, RunsItsClaim
    <2>6. LocksPending'
        BY <1>4, <2>1 DEF ClaimCommit, MarkRunning, EndClaim, IInv, TypeOK, LocksPending
    <2>7. Cardinality(Live(r)') = Cardinality(Live(r)) + 1
        BY <2>1, <2>2, LiveAdd DEF IInv
    <2>8. \A s \in Replicas \ {r} : Live(s)' = Live(s)
        BY <2>1, LiveOthers DEF IInv
    <2>9. slots' = slots /\ poll[r] = "locked" /\ poll'[r] = "idle"
          /\ \A s \in Replicas \ {r} : poll'[s] = poll[s]
        BY <1>4 DEF ClaimCommit, EndClaim, IInv, TypeOK
    <2>10. slots'[r] = Cardinality(Live(r)') + IF poll'[r] = "idle" THEN 0 ELSE 1
        BY <1>u, <2>7, <2>9
    <2>11. SlotsAccounted' BY <2>8, <2>9, <2>10, SlotsMoved DEF IInv
    <2>. QED BY <2>3, <2>4, <2>5, <2>6, <2>11 DEF IInv
<1>5. CASE ClaimError(r)
    <2>1. \A s \in Replicas : Live(s)' = Live(s) BY <1>5 DEF ClaimError, Live
    <2>2. slots'[r] = slots[r] - 1 /\ poll[r] # "idle" /\ poll'[r] = "idle"
          /\ \A s \in Replicas \ {r} : slots'[s] = slots[s] /\ poll'[s] = poll[s]
        BY <1>5 DEF ClaimError, EndClaim, Release, IInv, TypeOK
    <2>3. slots'[r] = Cardinality(Live(r)') + IF poll'[r] = "idle" THEN 0 ELSE 1
        BY <1>u, <2>1, <2>2
    <2>4. SlotsAccounted' BY <2>1, <2>2, <2>3, SlotsMoved DEF IInv
    <2>5. slots[r] - 1 \in 0..MaxConcurrent BY <1>u, <2>2 DEF JobQueueAssumption
    <2>6. TypeOK' BY <1>5, <2>5 DEF ClaimError, EndClaim, Release, IInv, TypeOK
    <2>7. RowsExist' /\ RunsItsClaim' BY <1>5 DEF ClaimError, IInv, RowsExist, RunsItsClaim
    <2>8. LocksPending' BY <1>5 DEF ClaimError, EndClaim, IInv, TypeOK, LocksPending
    <2>. QED BY <2>4, <2>6, <2>7, <2>8 DEF IInv
<1>6. CASE ClaimAnswerLost(r)
    <2>1. PICK j \in Jobs : rowLock[j] = r /\ MarkRunning(r, j)
        BY <1>6 DEF ClaimAnswerLost
    <2>2. status[j] = "pending" /\ \A s \in Replicas : at[s][j] = "none"
        BY <2>1 DEF IInv, LocksPending, RunsItsClaim, JobQueueAssumption
    <2>3. \A s \in Replicas : Live(s)' = Live(s) BY <1>6 DEF ClaimAnswerLost, Live
    <2>4. slots'[r] = slots[r] - 1 /\ poll[r] = "locked" /\ poll'[r] = "idle"
          /\ \A s \in Replicas \ {r} : slots'[s] = slots[s] /\ poll'[s] = poll[s]
        BY <1>6 DEF ClaimAnswerLost, EndClaim, Release, IInv, TypeOK
    <2>5. slots'[r] = Cardinality(Live(r)') + IF poll'[r] = "idle" THEN 0 ELSE 1
        BY <1>u, <2>3, <2>4
    <2>6. SlotsAccounted' BY <2>3, <2>4, <2>5, SlotsMoved DEF IInv
    <2>7. slots[r] - 1 \in 0..MaxConcurrent BY <1>u, <2>4 DEF JobQueueAssumption
    <2>8. TypeOK'
        BY <1>6, <2>1, <2>7 DEF ClaimAnswerLost, MarkRunning, EndClaim, Release, IInv, TypeOK, Status
    <2>9. RowsExist' BY <1>6, <2>1, <2>2 DEF ClaimAnswerLost, MarkRunning, IInv, TypeOK, RowsExist
    <2>10. RunsItsClaim'
        BY <1>6, <2>1, <2>2 DEF ClaimAnswerLost, MarkRunning, IInv, TypeOK, RunsItsClaim
    <2>11. LocksPending'
        BY <1>6, <2>1 DEF ClaimAnswerLost, MarkRunning, EndClaim, IInv, TypeOK, LocksPending
    <2>. QED BY <2>6, <2>8, <2>9, <2>10, <2>11 DEF IInv
<1>. QED BY <1>1, <1>2, <1>3, <1>4, <1>5, <1>6 DEF Poll

-----------------------------------------------------------------------------
(* The goroutine's steps that keep it running.                             *)
LEMMA WorkStep ==
    ASSUME JobQueueAssumption, IInv, NEW r \in Replicas, NEW j \in Jobs,
           EndEarly(r, j) \/ StartPreview(r, j) \/ EndRun(r, j) \/ StopPreview(r, j)
    PROVE  IInv'
<1>1. PICK v \in Step \ {"none"} : at[r][j] # "none" /\ at' = [at EXCEPT ![r][j] = v]
    BY DEF EndEarly, StartPreview, EndRun, StopPreview, Advance, Step
<1>2. UNCHANGED <<created, status, lockedBy, rowLock, proc, poll, seen, slots>>
    BY DEF EndEarly, StartPreview, EndRun, StopPreview
<1>3. preview' \in [Jobs -> PreviewState]
    BY DEF EndEarly, StartPreview, EndRun, StopPreview, TearDown, IInv, TypeOK, PreviewState
<1>4. TypeOK' BY <1>1, <1>2, <1>3 DEF IInv, TypeOK
<1>5. RowsExist' /\ LocksPending' BY <1>2 DEF IInv, RowsExist, LocksPending
<1>6. RunsItsClaim' BY <1>1, <1>2 DEF IInv, TypeOK, RunsItsClaim
<1>7. \A s \in Replicas : Live(s)' = Live(s) BY <1>1, LiveSame DEF IInv
<1>8. SlotsAccounted' BY <1>2, <1>7 DEF IInv, SlotsAccounted
<1>. QED BY <1>4, <1>5, <1>6, <1>8 DEF IInv

(* The goroutine's last step, whether or not its outcome is written.       *)
LEMMA LastStep ==
    ASSUME JobQueueAssumption, IInv, NEW r \in Replicas, NEW j \in Jobs,
           Complete(r, j) \/ Fail(r, j) \/ OutcomeLost(r, j)
    PROVE  IInv'
<1>u. /\ slots[r] = Cardinality(Live(r)) + IF poll[r] = "idle" THEN 0 ELSE 1
      /\ Cardinality(Live(r)) \in Nat
      /\ slots[r] \in 0..MaxConcurrent
    BY LiveFinite DEF IInv, SlotsAccounted, TypeOK
<1>1. at[r][j] # "none" /\ at' = [at EXCEPT ![r][j] = "none"]
    BY DEF Complete, Fail, OutcomeLost, Advance
<1>2. /\ UNCHANGED <<created, lockedBy, rowLock, preview, proc, poll, seen>>
      /\ slots' = [slots EXCEPT ![r] = @ - 1]
    BY DEF Complete, Fail, OutcomeLost, Release
<1>3. /\ status' \in [Jobs -> Status]
      /\ \A k \in Jobs : status'[k] = status[k] \/ (status[k] = "running" /\ status'[k] \in Terminal)
    BY DEF Complete, Fail, OutcomeLost, CloseIfRunning, IInv, TypeOK, Status, Terminal
<1>4. Cardinality(Live(r)') = Cardinality(Live(r)) - 1 /\ Cardinality(Live(r)) > 0
    BY <1>1, LiveRemove DEF IInv
<1>5. slots'[r] = slots[r] - 1 /\ \A s \in Replicas \ {r} : slots'[s] = slots[s]
    BY <1>2 DEF IInv, TypeOK
<1>6. slots'[r] \in 0..MaxConcurrent BY <1>u, <1>4, <1>5 DEF JobQueueAssumption
<1>7. TypeOK'
    <2>1. slots' \in [Replicas -> 0..MaxConcurrent] BY <1>2, <1>5, <1>6 DEF IInv, TypeOK
    <2>2. at' \in [Replicas -> [Jobs -> Step]] BY <1>1 DEF IInv, TypeOK, Step
    <2>. QED BY <1>2, <1>3, <2>1, <2>2 DEF IInv, TypeOK
<1>8. RowsExist' BY <1>2, <1>3 DEF IInv, RowsExist, Terminal
<1>9. LocksPending' BY <1>2, <1>3 DEF IInv, LocksPending
<1>10. RunsItsClaim'
    <2>1. \A s \in Replicas, k \in Jobs : at'[s][k] # "none" => at[s][k] # "none"
        BY <1>1 DEF IInv, TypeOK
    <2>2. \A k \in Jobs : status[k] \notin {"absent", "pending"} => status'[k] \notin {"absent", "pending"}
        BY <1>3 DEF Terminal
    <2>. QED BY <1>2, <2>1, <2>2 DEF IInv, RunsItsClaim
<1>11. \A s \in Replicas \ {r} : Live(s)' = Live(s) BY <1>1, LiveOthers DEF IInv
<1>12. slots'[r] = Cardinality(Live(r)') + IF poll'[r] = "idle" THEN 0 ELSE 1
    BY <1>u, <1>2, <1>4, <1>5
<1>13. SlotsAccounted' BY <1>2, <1>5, <1>11, <1>12, SlotsMoved DEF IInv
<1>. QED BY <1>7, <1>8, <1>9, <1>10, <1>13 DEF IInv

-----------------------------------------------------------------------------
(* The process and the sweep.                                              *)
LEMMA ProcessStep ==
    ASSUME JobQueueAssumption, IInv, NEW r \in Replicas,
           Shutdown(r) \/ Exit(r) \/ Restart(r) \/ \E j \in Jobs : Sweep(r, j)
    PROVE  IInv'
<1>1. CASE Exit(r)
    <2>1. TypeOK' BY <1>1 DEF Exit, EndClaim, IInv, TypeOK, Step, JobQueueAssumption
    <2>2. RowsExist' BY <1>1 DEF Exit, IInv, RowsExist
    <2>3. RunsItsClaim' BY <1>1 DEF Exit, IInv, TypeOK, RunsItsClaim
    <2>4. LocksPending' BY <1>1 DEF Exit, EndClaim, IInv, TypeOK, LocksPending
    <2>5. \A s \in Replicas \ {r} : slots'[s] = slots[s] /\ poll'[s] = poll[s] /\ Live(s)' = Live(s)
        BY <1>1 DEF Exit, EndClaim, IInv, TypeOK, Live
    <2>6. Live(r)' = {} BY <1>1 DEF Exit, IInv, TypeOK, Live
    <2>7. slots'[r] = 0 /\ poll'[r] = "idle" BY <1>1 DEF Exit, EndClaim, IInv, TypeOK
    <2>8. slots'[r] = Cardinality(Live(r)') + IF poll'[r] = "idle" THEN 0 ELSE 1
        BY <2>6, <2>7, FS_EmptySet
    <2>9. SlotsAccounted' BY <2>5, <2>8, SlotsMoved DEF IInv
    <2>. QED BY <2>1, <2>2, <2>3, <2>4, <2>9 DEF IInv
<1>2. CASE Shutdown(r) \/ Restart(r) \/ \E j \in Jobs : Sweep(r, j)
    <2>1. UNCHANGED <<created, status, lockedBy, rowLock, poll, seen, slots, at>>
        BY <1>2 DEF Shutdown, Restart, Sweep
    <2>2. proc' \in [Replicas -> {"up", "draining", "down"}] /\ preview' \in [Jobs -> PreviewState]
        BY <1>2 DEF Shutdown, Restart, Sweep, TearDown, IInv, TypeOK, PreviewState
    <2>3. TypeOK' BY <2>1, <2>2 DEF IInv, TypeOK
    <2>4. RowsExist' /\ RunsItsClaim' /\ LocksPending'
        BY <2>1 DEF IInv, RowsExist, RunsItsClaim, LocksPending
    <2>5. SlotsAccounted' BY <2>1, SlotsUnchanged DEF IInv
    <2>. QED BY <2>3, <2>4, <2>5 DEF IInv
<1>. QED BY <1>1, <1>2

(* Every step preserves the invariant.                                     *)
LEMMA NextIInv == ASSUME JobQueueAssumption, IInv, [Next]_vars PROVE IInv'
<1>1. CASE Next
    BY <1>1, ApiStep, PollStep, WorkStep, LastStep, ProcessStep DEF Next, Goroutine
<1>2. CASE UNCHANGED vars
    BY <1>2, SlotsUnchanged
    DEF vars, IInv, TypeOK, RowsExist, RunsItsClaim, LocksPending
<1>. QED BY <1>1, <1>2

LEMMA InductiveInvariant == Spec => []IInv
<1>1. Init => IInv BY InitIInv, JobQueueAssumption
<1>2. IInv /\ [Next]_vars => IInv' BY NextIInv, JobQueueAssumption
<1>. QED BY <1>1, <1>2, PTL DEF Spec

(* Type correctness: in particular a replica never runs more jobs than     *)
(* MAX_CONCURRENT_JOBS allows, and never releases a slot it does not hold  *)
(* (worker.go, newLimiter / tryAcquire / release).                         *)
THEOREM TypeCorrect == Spec => []TypeOK
<1>1. IInv => TypeOK BY DEF IInv
<1>. QED BY <1>1, InductiveInvariant, PTL

(* The limiter's account: occupied slots are exactly the goroutines that   *)
(* run a job and the claim under way, on every path out of a claim.        *)
THEOREM SlotsAreAccounted == Spec => []SlotsAccounted
<1>1. IInv => SlotsAccounted BY DEF IInv
<1>. QED BY <1>1, InductiveInvariant, PTL

(* However many replicas share the queue, a job is run only by the one its *)
(* row names (queue.go, Claim).                                            *)
THEOREM JobHasOneRunner == Spec => []SingleRunner
<1>1. IInv => SingleRunner BY DEF IInv, RunsItsClaim, SingleRunner, Live
<1>. QED BY <1>1, InductiveInvariant, PTL

(* A status a job ended in is never rewritten: the guards of Complete and  *)
(* Fail (queue.go) are what keeps a cancelled job cancelled.               *)
THEOREM EndedStaysEnded == Spec => TerminalIsFinal
<1>1. ASSUME IInv, [Next]_vars
      PROVE  [\A j \in Jobs : status[j] \in Terminal => status'[j] = status[j]]_vars
    <2>1. SUFFICES ASSUME NEW j \in Jobs, status[j] \in Terminal
                   PROVE  status'[j] = status[j]
        OBVIOUS
    <2>2. status[j] \notin {"absent", "pending", "running"} BY <2>1 DEF Terminal
    <2>3. CASE Submit
        BY <1>1, <2>2, <2>3, JobQueueAssumption
        DEF Submit, IInv, TypeOK, RowsExist, Jobs, JobQueueAssumption
    <2>4. CASE \E k \in Jobs : Cancel(k)
        BY <1>1, <2>2, <2>4 DEF Cancel, IInv, TypeOK
    <2>5. ASSUME NEW r \in Replicas,
                 Poll(r) \/ ClaimError(r) \/ ClaimAnswerLost(r) \/ Shutdown(r) \/ Exit(r) \/ Restart(r)
          PROVE  status'[j] = status[j]
        BY <1>1, <2>2, <2>5, JobQueueAssumption
        DEF Poll, TryAcquire, ClaimSelect, ClaimNone, ClaimCommit, ClaimError, ClaimAnswerLost,
            MarkRunning, Shutdown, Exit, Restart, IInv, TypeOK, LocksPending, JobQueueAssumption
    <2>6. ASSUME NEW r \in Replicas, NEW k \in Jobs,
                 Goroutine(r, k) \/ OutcomeLost(r, k) \/ Sweep(r, k)
          PROVE  status'[j] = status[j]
        BY <1>1, <2>2, <2>6
        DEF Goroutine, EndEarly, StartPreview, EndRun, StopPreview, Complete, Fail, OutcomeLost,
            CloseIfRunning, Sweep, IInv, TypeOK
    <2>7. CASE UNCHANGED vars BY <2>7 DEF vars
    <2>. QED BY <1>1, <2>3, <2>4, <2>5, <2>6, <2>7 DEF Next
<1>. QED BY <1>1, InductiveInvariant, PTL DEF Spec, TerminalIsFinal

-----------------------------------------------------------------------------
(* The refinement: executing is the only mapped variable.                  *)
Executing == [j \in Jobs |-> {r \in Replicas : at[r][j] # "none"}]

(* A step that moves one goroutine without ending it is a stutter.         *)
LEMMA WorkStutters ==
    ASSUME IInv, NEW r \in Replicas, NEW j \in Jobs,
           EndEarly(r, j) \/ StartPreview(r, j) \/ EndRun(r, j) \/ StopPreview(r, j)
    PROVE  UNCHANGED <<status, lockedBy, Executing>>
<1>1. PICK v \in Step \ {"none"} : at[r][j] # "none" /\ at' = [at EXCEPT ![r][j] = v]
    BY DEF EndEarly, StartPreview, EndRun, StopPreview, Advance, Step
<1>2. \A k \in Jobs, s \in Replicas : at'[s][k] # "none" <=> at[s][k] # "none"
    BY <1>1 DEF IInv, TypeOK
<1>3. Executing' = Executing BY <1>2 DEF Executing
<1>. QED BY <1>3 DEF EndEarly, StartPreview, EndRun, StopPreview

(* A claim that commits takes the job for its replica and, if the answer   *)
(* arrives, starts executing it.                                           *)
LEMMA ClaimRefines ==
    ASSUME JobQueueAssumption, IInv, NEW r \in Replicas, ClaimCommit(r) \/ ClaimAnswerLost(r)
    PROVE  \E j \in Jobs : Lifecycle!Claim(j, r)
<1>1. PICK j \in Jobs :
            /\ rowLock[j] = r
            /\ MarkRunning(r, j)
            /\ \/ at' = [at EXCEPT ![r][j] = "start"]
               \/ at' = at
    BY DEF ClaimCommit, ClaimAnswerLost
<1>2. status[j] = "pending" /\ \A s \in Replicas : at[s][j] = "none"
    BY <1>1 DEF IInv, LocksPending, RunsItsClaim, JobQueueAssumption
<1>3. CASE at' = at
    <2>1. Executing' = [Executing EXCEPT ![j] = {}]
        BY <1>2, <1>3 DEF Executing
    <2>. QED BY <1>1, <1>2, <2>1 DEF Lifecycle!Claim, MarkRunning, Executing
<1>4. CASE at' = [at EXCEPT ![r][j] = "start"]
    <2>1. \A k \in Jobs, s \in Replicas :
              at'[s][k] # "none" <=> at[s][k] # "none" \/ (s = r /\ k = j)
        BY <1>4 DEF IInv, TypeOK
    <2>2. Executing' = [Executing EXCEPT ![j] = {r}]
        BY <1>2, <2>1 DEF Executing
    <2>. QED BY <1>1, <1>2, <2>2 DEF Lifecycle!Claim, MarkRunning, Executing
<1>. QED BY <1>1, <1>3, <1>4

(* A goroutine's last step finishes the job, whether or not its outcome    *)
(* counts.                                                                 *)
LEMMA LastRefines ==
    ASSUME IInv, NEW r \in Replicas, NEW j \in Jobs,
           Complete(r, j) \/ Fail(r, j) \/ OutcomeLost(r, j)
    PROVE  Lifecycle!Finish(j, r)
<1>1. at[r][j] # "none" /\ at' = [at EXCEPT ![r][j] = "none"] /\ lockedBy' = lockedBy
    BY DEF Complete, Fail, OutcomeLost, Advance
<1>2. \A k \in Jobs, s \in Replicas :
          at'[s][k] # "none" <=> at[s][k] # "none" /\ ~(s = r /\ k = j)
    BY <1>1 DEF IInv, TypeOK
<1>3. Executing' = [Executing EXCEPT ![j] = @ \ {r}] BY <1>2 DEF Executing
<1>4. \/ UNCHANGED status
      \/ /\ status[j] = "running"
         /\ \E final \in {"completed", "failed"} : status' = [status EXCEPT ![j] = final]
    BY DEF Complete, Fail, OutcomeLost, CloseIfRunning, IInv, TypeOK
<1>5. r \in Executing[j] BY <1>1 DEF Executing
<1>. QED BY <1>1, <1>3, <1>4, <1>5 DEF Lifecycle!Finish, Executing

(* Every step of the queue is a step of the abstract life of a job, or     *)
(* leaves it unchanged.                                                    *)
LEMMA StepRefines ==
    ASSUME JobQueueAssumption, IInv, [Next]_vars
    PROVE  [Lifecycle!Next]_(Lifecycle!vars)
<1>. USE DEF Lifecycle!vars, Lifecycle!Next
<1>1. CASE Submit
    <2>1. created + 1 \in Jobs /\ status[created + 1] = "absent"
        BY <1>1 DEF Submit, IInv, TypeOK, RowsExist, Jobs, JobQueueAssumption
    <2>2. Lifecycle!Create(created + 1) BY <1>1, <2>1 DEF Submit, Lifecycle!Create
    <2>. QED BY <2>1, <2>2
<1>2. ASSUME NEW j \in Jobs, Cancel(j) PROVE Lifecycle!Cancel(j)
    BY <1>2 DEF Cancel, Lifecycle!Cancel
<1>3. ASSUME NEW r \in Replicas, Exit(r) PROVE Lifecycle!Die(r)
    <2>1. \A k \in Jobs, s \in Replicas : at'[s][k] # "none" <=> at[s][k] # "none" /\ s # r
        BY <1>3 DEF Exit, IInv, TypeOK
    <2>2. Executing' = [j \in Jobs |-> Executing[j] \ {r}] BY <2>1 DEF Executing
    <2>. QED BY <1>3, <2>2 DEF Exit, Lifecycle!Die, Executing
<1>4. ASSUME NEW r \in Replicas,
             TryAcquire(r) \/ ClaimSelect(r) \/ ClaimNone(r) \/ ClaimError(r) \/ Shutdown(r)
               \/ Restart(r) \/ \E j \in Jobs : Sweep(r, j)
      PROVE  UNCHANGED Lifecycle!vars
    BY <1>4 DEF TryAcquire, ClaimSelect, ClaimNone, ClaimError, Shutdown, Restart, Sweep
<1>5. ASSUME NEW r \in Replicas, NEW j \in Jobs,
             EndEarly(r, j) \/ StartPreview(r, j) \/ EndRun(r, j) \/ StopPreview(r, j)
      PROVE  UNCHANGED Lifecycle!vars
    BY <1>5, WorkStutters DEF Executing
<1>6. CASE UNCHANGED vars BY <1>6 DEF vars
<1>. QED BY <1>1, <1>2, <1>3, <1>4, <1>5, <1>6, ClaimRefines, LastRefines
         DEF Next, Poll, Goroutine

(* JobQueue implements JobLifecycle: whatever replicas, statements and     *)
(* faults do, a job's row and the replicas executing it go through the     *)
(* steps the abstract specification allows (queue.go, worker.go).          *)
THEOREM QueueImplementsLifecycle == Spec => ImplementsLifecycle
<1>1. Init => Lifecycle!Init BY DEF Init, Lifecycle!Init
<1>2. IInv /\ [Next]_vars => [Lifecycle!Next]_(Lifecycle!vars)
    BY StepRefines, JobQueueAssumption
<1>. QED BY <1>1, <1>2, InductiveInvariant, PTL DEF Spec, ImplementsLifecycle, Lifecycle!Spec

-----------------------------------------------------------------------------
(* The registry of previews.                                               *)

RegistryStep == [Registry!Next]_(Registry!vars)

(* Jobs whose bringing up is over, or will not happen, unheard.            *)
LEMMA Unheard ==
    ASSUME preview' = preview, \A j \in Jobs : Stage'[j] \in {Stage[j], "after"}
    PROVE  RegistryStep
<1>. DEFINE some == {j \in Jobs : Stage'[j] = "after"}
<1>1. \A j \in Jobs : Stage'[j] = IF j \in some THEN "after" ELSE Stage[j] OBVIOUS
<1>. HIDE DEF some
<1>2. Stage' = [j \in Jobs |-> IF j \in some THEN "after" ELSE Stage[j]] BY <1>1 DEF Stage
<1>3. some \in SUBSET Jobs BY DEF some
<1>4. Registry!Abandon(some) BY <1>2 DEF Registry!Abandon
<1>. QED BY <1>3, <1>4 DEF RegistryStep, Registry!Next

(* A preview that is taken down was active, or nothing happens to it.      *)
LEMMA TakenDown ==
    ASSUME TypeOK, NEW j \in Jobs, TearDown(j) \/ preview' = preview,
           \A k \in Jobs : Stage'[k] = Stage[k]
    PROVE  RegistryStep
<1>1. Stage' = Stage BY DEF Stage
<1>2. CASE preview[j] = "active" /\ TearDown(j)
  <2>1. Registry!TearDown(j) BY <1>1, <1>2 DEF TearDown, Registry!TearDown
  <2>. QED BY <2>1 DEF RegistryStep, Registry!Next
<1>3. CASE ~(preview[j] = "active" /\ TearDown(j))
  <2>1. preview' = preview BY <1>3 DEF TearDown, TypeOK
  <2>. QED BY <1>1, <2>1 DEF RegistryStep, Registry!vars
<1>. QED BY <1>2, <1>3

(* No two goroutines are about to start a preview for the same job, and    *)
(* none is for a job that may yet be claimed.                              *)
LEMMA OneStarts ==
    ASSUME IInv, JobQueueAssumption, NEW r \in Replicas, NEW j \in Jobs, at[r][j] = "start"
    PROVE  /\ status[j] \notin {"absent", "pending"} /\ Stage[j] = "during"
           /\ \A s \in Replicas : at[s][j] = "start" => s = r
<1>1. lockedBy[j] = r /\ status[j] \notin {"absent", "pending"} BY DEF IInv, RunsItsClaim
<1>2. \A s \in Replicas : at[s][j] = "start" => lockedBy[j] = s BY DEF IInv, RunsItsClaim
<1>. QED BY <1>1, <1>2 DEF Stage

LEMMA ClaimRegisters ==
    ASSUME JobQueueAssumption, IInv, NEW r \in Replicas, ClaimCommit(r) \/ ClaimAnswerLost(r)
    PROVE  RegistryStep
<1>1. PICK j \in Jobs :
            /\ rowLock[j] = r
            /\ MarkRunning(r, j)
            /\ \/ at' = [at EXCEPT ![r][j] = "start"]
               \/ at' = at
    BY DEF ClaimCommit, ClaimAnswerLost
<1>2. status[j] = "pending" /\ \A s \in Replicas : at[s][j] = "none"
    BY <1>1 DEF IInv, LocksPending, RunsItsClaim, JobQueueAssumption
<1>3. preview' = preview BY DEF ClaimCommit, ClaimAnswerLost
<1>4. \A k \in Jobs \ {j} : status'[k] = status[k] /\ \A s \in Replicas : at'[s][k] = at[s][k]
    BY <1>1 DEF MarkRunning, IInv, TypeOK
<1>5. \A k \in Jobs \ {j} : Stage'[k] = Stage[k] BY <1>4 DEF Stage
<1>6. CASE at' = at
  <2>1. Stage'[j] = "after" BY <1>1, <1>2, <1>6 DEF Stage, MarkRunning, IInv, TypeOK
  <2>2. \A k \in Jobs : Stage'[k] \in {Stage[k], "after"} BY <1>5, <2>1
  <2>. QED BY <1>3, <2>2, Unheard
<1>7. CASE at' = [at EXCEPT ![r][j] = "start"]
  <2>1. Stage[j] = "before" /\ Stage'[j] = "during" BY <1>2, <1>7 DEF Stage, IInv, TypeOK
  <2>2. Stage' = [Stage EXCEPT ![j] = "during"] BY <1>5, <2>1 DEF Stage
  <2>3. Registry!Begin(j) BY <1>3, <2>1, <2>2 DEF Registry!Begin
  <2>. QED BY <2>3 DEF RegistryStep, Registry!Next
<1>. QED BY <1>1, <1>6, <1>7

LEMMA StartRegisters ==
    ASSUME JobQueueAssumption, IInv, NEW r \in Replicas, NEW j \in Jobs,
           EndEarly(r, j) \/ StartPreview(r, j)
    PROVE  RegistryStep
<1>1. /\ at[r][j] = "start" /\ status' = status
      /\ \E v \in Step \ {"start"} : at' = [at EXCEPT ![r][j] = v]
      /\ \/ preview' = preview
         \/ \E result \in {"active", "failed"} : preview' = [preview EXCEPT ![j] = result]
    BY DEF EndEarly, StartPreview, Advance, Step
<1>2. Stage[j] = "during" /\ Stage'[j] = "after" BY <1>1, OneStarts DEF Stage, IInv, TypeOK
<1>3. \A k \in Jobs \ {j} : Stage'[k] = Stage[k]
  <2>1. \A k \in Jobs \ {j}, s \in Replicas : at'[s][k] = at[s][k] BY <1>1 DEF IInv, TypeOK
  <2>. QED BY <1>1, <2>1 DEF Stage
<1>4. CASE preview' = preview
  <2>1. \A k \in Jobs : Stage'[k] \in {Stage[k], "after"} BY <1>2, <1>3
  <2>. QED BY <1>4, <2>1, Unheard
<1>5. CASE \E result \in {"active", "failed"} : preview' = [preview EXCEPT ![j] = result]
  <2>1. Stage' = [Stage EXCEPT ![j] = "after"] BY <1>2, <1>3 DEF Stage
  <2>2. Registry!Record(j) BY <1>2, <1>5, <2>1 DEF Registry!Record
  <2>. QED BY <2>2 DEF RegistryStep, Registry!Next
<1>. QED BY <1>1, <1>4, <1>5

(* The rest of a goroutine comes after the bringing up.                    *)
LEMMA WorkRegisters ==
    ASSUME IInv, NEW r \in Replicas, NEW j \in Jobs,
           \/ EndRun(r, j) \/ StopPreview(r, j) \/ Complete(r, j) \/ Fail(r, j)
           \/ OutcomeLost(r, j) \/ Sweep(r, j)
    PROVE  RegistryStep
<1>1. \A k \in Jobs, s \in Replicas : at'[s][k] = "start" <=> at[s][k] = "start"
  <2>1. \/ at' = at
        \/ /\ at[r][j] # "start"
           /\ \E v \in Step \ {"start"} : at' = [at EXCEPT ![r][j] = v]
      BY DEF EndRun, StopPreview, Complete, Fail, OutcomeLost, Sweep, Advance, Step
  <2>. QED BY <2>1 DEF IInv, TypeOK
<1>2. \A k \in Jobs : \/ status'[k] = status[k]
                      \/ status[k] = "running" /\ status'[k] \in {"completed", "failed"}
    BY DEF EndRun, StopPreview, Complete, Fail, OutcomeLost, Sweep, CloseIfRunning, IInv, TypeOK
<1>3. \A k \in Jobs : Stage'[k] = Stage[k] BY <1>1, <1>2 DEF Stage
<1>4. TearDown(j) \/ preview' = preview
    BY DEF EndRun, StopPreview, Complete, Fail, OutcomeLost, Sweep
<1>. QED BY <1>3, <1>4, TakenDown DEF IInv

LEMMA StepRegisters == ASSUME JobQueueAssumption, IInv, [Next]_vars PROVE RegistryStep
<1>1. CASE Submit
  <2>1. /\ created + 1 \in Jobs /\ status[created + 1] = "absent"
        /\ status' = [status EXCEPT ![created + 1] = "pending"] /\ UNCHANGED <<at, preview>>
      BY <1>1 DEF Submit, IInv, TypeOK, RowsExist, Jobs, JobQueueAssumption
  <2>2. \A k \in Jobs : Stage'[k] = Stage[k] BY <2>1 DEF Stage, IInv, TypeOK
  <2>. QED BY <2>1, <2>2, Unheard
<1>2. ASSUME NEW j \in Jobs, Cancel(j) PROVE RegistryStep
  <2>1. status' = [status EXCEPT ![j] = "cancelled"] /\ UNCHANGED <<at, preview>>
      BY <1>2 DEF Cancel
  <2>2. \A k \in Jobs : Stage'[k] \in {Stage[k], "after"} BY <2>1 DEF Stage, IInv, TypeOK
  <2>. QED BY <2>1, <2>2, Unheard
<1>3. ASSUME NEW r \in Replicas, Exit(r) PROVE RegistryStep
  <2>1. UNCHANGED <<status, preview>> BY <1>3 DEF Exit
  <2>2. \A k \in Jobs, s \in Replicas : at'[s][k] = "start" <=> at[s][k] = "start" /\ s # r
      BY <1>3 DEF Exit, IInv, TypeOK
  <2>3. ASSUME NEW k \in Jobs PROVE Stage'[k] \in {Stage[k], "after"}
    <3>1. CASE at[r][k] = "start"
      <4>1. /\ status[k] \notin {"absent", "pending"}
            /\ \A s \in Replicas : at[s][k] = "start" => s = r
          BY <3>1, OneStarts
      <4>. QED BY <2>1, <2>2, <4>1 DEF Stage
    <3>2. CASE at[r][k] # "start" BY <2>1, <2>2, <3>2 DEF Stage
    <3>. QED BY <3>1, <3>2
  <2>. QED BY <2>1, <2>3, Unheard
<1>4. ASSUME NEW r \in Replicas,
             \/ TryAcquire(r) \/ ClaimSelect(r) \/ ClaimNone(r) \/ ClaimError(r) \/ Shutdown(r)
             \/ Restart(r)
      PROVE  RegistryStep
  <2>1. UNCHANGED <<status, at, preview>>
      BY <1>4 DEF TryAcquire, ClaimSelect, ClaimNone, ClaimError, Shutdown, Restart
  <2>2. \A k \in Jobs : Stage'[k] = Stage[k] BY <2>1 DEF Stage
  <2>. QED BY <2>1, <2>2, Unheard
<1>5. CASE UNCHANGED vars
  <2>1. UNCHANGED <<status, at, preview>> BY <1>5 DEF vars
  <2>2. \A k \in Jobs : Stage'[k] = Stage[k] BY <2>1 DEF Stage
  <2>. QED BY <2>1, <2>2, Unheard
<1>. QED BY <1>1, <1>2, <1>3, <1>4, <1>5, ClaimRegisters, StartRegisters, WorkRegisters
         DEF Next, Poll, Goroutine

(* JobQueue implements PreviewRegistry, which PreviewLifecycle implements  *)
(* too: for each job, on whichever replica, a preview is started at most   *)
(* once and its row written once, and once torn down it never counts       *)
(* against a project's cap again (worker.go, runInCluster; queue.go).      *)
THEOREM QueueImplementsRegistry == Spec => ImplementsRegistry
<1>1. Init => Registry!Init BY DEF Init, Registry!Init, Stage
<1>2. IInv /\ [Next]_vars => [Registry!Next]_(Registry!vars)
    BY StepRegisters, JobQueueAssumption DEF RegistryStep
<1>. QED BY <1>1, <1>2, InductiveInvariant, PTL DEF Spec, ImplementsRegistry, Registry!Spec

-----------------------------------------------------------------------------
(* What a fault is needed for.                                             *)

(* A row that says running is being executed, by the replica it names.     *)
RunningIsExecuted ==
    \A j \in Jobs : status[j] = "running" =>
        lockedBy[j] \in Replicas /\ at[lockedBy[j]][j] # "none"

NothingFails == {"db", "stop"} \cap Faults = {}

HandedOver == RunningIsExecuted /\ \A r \in Replicas : proc[r] = "up"

LEMMA HandedOverKept ==
    ASSUME NothingFails, JobQueueAssumption, IInv, HandedOver, [Next]_vars
    PROVE  HandedOver'
<1>. USE DEF HandedOver, RunningIsExecuted
<1>1. \A r \in Replicas : ~Unreliable(r) BY DEF NothingFails, Unreliable
<1>2. ASSUME UNCHANGED <<lockedBy, at, proc>>,
             \A j \in Jobs : status'[j] = "running" => status[j] = "running"
      PROVE  HandedOver'
    BY <1>2
<1>3. CASE Submit \/ \E j \in Jobs : Cancel(j)
  <2>1. UNCHANGED <<lockedBy, at, proc>> BY <1>3 DEF Submit, Cancel
  <2>2. ASSUME NEW j \in Jobs, status'[j] = "running" PROVE status[j] = "running"
    <3>1. created + 1 \in Jobs \/ ~Submit
        BY DEF Submit, IInv, TypeOK, Jobs, JobQueueAssumption
    <3>. QED BY <1>3, <2>2, <3>1 DEF Submit, Cancel, IInv, TypeOK
  <2>. QED BY <1>2, <2>1, <2>2
<1>4. ASSUME NEW r \in Replicas, ClaimCommit(r) PROVE HandedOver'
  <2>1. PICK j \in Jobs : /\ status' = [status EXCEPT ![j] = "running"]
                          /\ lockedBy' = [lockedBy EXCEPT ![j] = r]
                          /\ at' = [at EXCEPT ![r][j] = "start"]
                          /\ UNCHANGED proc
      BY <1>4 DEF ClaimCommit, MarkRunning
  <2>. QED BY <2>1 DEF IInv, TypeOK
<1>5. ASSUME NEW r \in Replicas, NEW j \in Jobs,
             EndEarly(r, j) \/ StartPreview(r, j) \/ EndRun(r, j) \/ StopPreview(r, j)
      PROVE  HandedOver'
  <2>1. PICK v \in Step \ {"none"} : at' = [at EXCEPT ![r][j] = v]
      BY <1>5 DEF EndEarly, StartPreview, EndRun, StopPreview, Advance, Step
  <2>2. UNCHANGED <<status, lockedBy, proc>>
      BY <1>5 DEF EndEarly, StartPreview, EndRun, StopPreview
  <2>. QED BY <2>1, <2>2 DEF IInv, TypeOK
<1>6. ASSUME NEW r \in Replicas, NEW j \in Jobs, Complete(r, j) \/ Fail(r, j)
      PROVE  HandedOver'
  <2>1. /\ at' = [at EXCEPT ![r][j] = "none"] /\ UNCHANGED <<lockedBy, proc>>
        /\ \E final \in {"completed", "failed"} :
              status' = [status EXCEPT ![j] = IF @ = "running" THEN final ELSE @]
      BY <1>6 DEF Complete, Fail, CloseIfRunning, Advance
  <2>2. status'[j] # "running" /\ \A k \in Jobs \ {j} : status'[k] = status[k]
      BY <2>1 DEF IInv, TypeOK
  <2>. QED BY <2>1, <2>2 DEF IInv, TypeOK
<1>7. ASSUME NEW r \in Replicas
      PROVE  ~(ClaimError(r) \/ ClaimAnswerLost(r) \/ Shutdown(r) \/ Exit(r) \/ Restart(r))
    BY <1>1 DEF ClaimError, ClaimAnswerLost, Shutdown, Exit, Restart, NothingFails
<1>8. ASSUME NEW r \in Replicas, NEW j \in Jobs PROVE ~OutcomeLost(r, j)
    BY <1>1 DEF OutcomeLost
<1>9. ASSUME NEW r \in Replicas,
             \/ TryAcquire(r) \/ ClaimSelect(r) \/ ClaimNone(r)
             \/ (\E j \in Jobs : Sweep(r, j))
      PROVE  HandedOver'
  <2>1. UNCHANGED <<status, lockedBy, at, proc>>
      BY <1>9 DEF TryAcquire, ClaimSelect, ClaimNone, Sweep, vars
  <2>. QED BY <2>1
<1>10. CASE UNCHANGED vars BY <1>10 DEF vars
<1>. QED BY <1>3, <1>4, <1>5, <1>6, <1>7, <1>8, <1>9, <1>10 DEF Next, Poll, Goroutine

(* Only a failed call to the database or the end of a process leaves a row *)
(* running that nobody executes: with neither, every claim hands its row   *)
(* to a goroutine and every goroutine closes the row it had (queue.go,     *)
(* Claim; worker.go, runClaimedJob).  RunningEnds rests on this.           *)
THEOREM NothingIsAbandoned == NothingFails => (Spec => []RunningIsExecuted)
<1>. SUFFICES ASSUME NothingFails PROVE Spec => []RunningIsExecuted OBVIOUS
<1>1. Init => HandedOver BY DEF Init, HandedOver, RunningIsExecuted
<1>2. IInv /\ HandedOver /\ [Next]_vars => HandedOver' BY HandedOverKept, JobQueueAssumption
<1>3. HandedOver => RunningIsExecuted BY DEF HandedOver
<1>. QED BY <1>1, <1>2, <1>3, InductiveInvariant, PTL DEF Spec

-----------------------------------------------------------------------------
(* How far a project's previews can overshoot their cap.  A claim counts   *)
(* from its snapshot on, as the unit <<r, 0>>; when it commits the unit    *)
(* becomes the job's, <<r, j>>, and when the job's preview is registered   *)
(* it becomes the preview's, <<NoReplica, j>>.                             *)
Mine(p, j) == j \in Eligible /\ Project[j] = p

Weighs(p, s, x) ==
    \/ s = NoReplica /\ x \in ActivePreviews(p)
    \/ s \in Replicas /\ x \in Jobs /\ Mine(p, x) /\ at[s][x] = "start"
    \/ s \in Replicas /\ x = 0 /\ \E j \in seen[s] : Mine(p, j)

Units == (Replicas \cup {NoReplica}) \X (0..NJobs)

Load(p) == {u \in Units : Weighs(p, u[1], u[2])}

(* What a claim statement saw is forgotten with it, and it locks only what *)
(* it saw.                                                                 *)
SeenByClaim ==
    /\ \A r \in Replicas : poll[r] = "idle" => seen[r] = {}
    /\ \A j \in Jobs : rowLock[j] # NoReplica => j \in seen[rowLock[j]]

Bound == MaxPreviews - 1 + MaxConcurrent * Cardinality(Replicas)

LoadBounded == \A i \in Jobs : Cardinality(Load(Project[i])) <= Bound

(* The settings of the theorem: previews are enabled, and there are        *)
(* finitely many replicas.                                                 *)
Capped == JobQueueAssumption /\ MaxPreviews > 0 /\ IsFiniteSet(Replicas)

(* A pile of units, at most n of each of finitely many owners.             *)
LEMMA PilesAreBounded ==
    ASSUME NEW R, IsFiniteSet(R), NEW n \in Nat, NEW X, NEW U \in [R -> SUBSET X],
           \A r \in R : IsFiniteSet(U[r]) /\ Cardinality(U[r]) <= n
    PROVE  LET P == {u \in R \X X : u[2] \in U[u[1]]}
           IN  IsFiniteSet(P) /\ Cardinality(P) <= n * Cardinality(R)
<1>. DEFINE P == {u \in R \X X : u[2] \in U[u[1]]}
            G == [r \in R |-> CHOOSE f : f \in Injection(U[r], 1..n)]
            H == [u \in P |-> <<u[1], G[u[1]][u[2]]>>]
<1>1. ASSUME NEW r \in R PROVE G[r] \in Injection(U[r], 1..n)
    <2>1. Cardinality(U[r]) \in Nat /\ Cardinality(U[r]) <= n BY FS_CardinalityType
    <2>2. IsFiniteSet(1..Cardinality(U[r])) /\ Cardinality(1..Cardinality(U[r])) = Cardinality(U[r])
        BY <2>1, FS_Interval
    <2>3. PICK f : f \in Bijection(U[r], 1..Cardinality(U[r]))
        BY <2>2, FS_SameCardinalityBij DEF ExistsBijection
    <2>4. f \in Injection(U[r], 1..Cardinality(U[r])) BY <2>3 DEF Bijection
    <2>5. 1..Cardinality(U[r]) \subseteq 1..n BY <2>1
    <2>6. f \in Injection(U[r], 1..n) BY <2>4, <2>5 DEF Injection
    <2>. QED BY <2>6
<1>2. H \in [P -> R \X (1..n)]
    <2>1. ASSUME NEW u \in P PROVE H[u] \in R \X (1..n)
        <3>1. u[1] \in R /\ u[2] \in U[u[1]] OBVIOUS
        <3>2. G[u[1]] \in [U[u[1]] -> 1..n] BY <1>1, <3>1 DEF Injection
        <3>3. G[u[1]][u[2]] \in 1..n BY <3>1, <3>2
        <3>. QED BY <3>1, <3>3
    <2>. QED BY <2>1
<1>3. ASSUME NEW u \in P, NEW v \in P, H[u] = H[v] PROVE u = v
    <2>1. u[1] = v[1] /\ G[u[1]][u[2]] = G[v[1]][v[2]] BY <1>3
    <2>2. u[1] \in R /\ u[2] \in U[u[1]] /\ v[2] \in U[u[1]] BY <2>1
    <2>3. G[u[1]] \in [U[u[1]] -> 1..n] /\ IsInjective(G[u[1]]) BY <1>1, <2>2 DEF Injection
    <2>4. G[u[1]][u[2]] = G[u[1]][v[2]] BY <2>1
    <2>. HIDE DEF G, P
    <2>5. u[2] = v[2] BY <2>2, <2>3, <2>4 DEF IsInjective
    <2>6. u = <<u[1], u[2]>> /\ v = <<v[1], v[2]>> BY DEF P
    <2>. QED BY <2>1, <2>5, <2>6
<1>4. H \in Injection(P, R \X (1..n)) BY <1>2, <1>3 DEF Injection, IsInjective
<1>5. IsFiniteSet(1..n) /\ Cardinality(1..n) = n BY FS_Interval
<1>6. /\ IsFiniteSet(R \X (1..n))
      /\ Cardinality(R \X (1..n)) = Cardinality(R) * n
    BY <1>5, FS_Product
<1>7. IsFiniteSet(P) /\ Cardinality(P) <= Cardinality(R \X (1..n))
    BY <1>4, <1>6, FS_Injection
<1>8. Cardinality(R) \in Nat BY FS_CardinalityType
<1>. QED BY <1>6, <1>7, <1>8

(* Exchanging one member of a set for another does not enlarge it.         *)
LEMMA Exchange ==
    ASSUME NEW S, IsFiniteSet(S), NEW T, NEW x \in S, NEW y, T \subseteq (S \ {x}) \cup {y}
    PROVE  Cardinality(T) <= Cardinality(S)
<1>. DEFINE Rest == S \ {x}
<1>0. Cardinality(S) \in Nat BY FS_CardinalityType
<1>1. IsFiniteSet(Rest) /\ Cardinality(Rest) = Cardinality(S) - 1 BY FS_RemoveElement
<1>. HIDE DEF Rest
<1>2. /\ IsFiniteSet(Rest \cup {y})
      /\ Cardinality(Rest \cup {y}) <= Cardinality(S)
    BY <1>0, <1>1, FS_AddElement
<1>3. T \subseteq Rest \cup {y} BY DEF Rest
<1>4. Cardinality(T) <= Cardinality(Rest \cup {y}) /\ IsFiniteSet(T) BY <1>2, <1>3, FS_Subset
<1>5. Cardinality(T) \in Nat /\ Cardinality(Rest \cup {y}) \in Nat
    BY <1>2, <1>4, FS_CardinalityType
<1>. QED BY <1>0, <1>2, <1>4, <1>5

(* There are finitely many units, and the bound is a number.               *)
LEMMA UnitsFinite ==
    ASSUME Capped
    PROVE  IsFiniteSet(Units) /\ Bound \in Nat
<1>1. IsFiniteSet(Replicas \cup {NoReplica}) BY FS_AddElement DEF Capped
<1>2. IsFiniteSet(0..NJobs) BY FS_Interval DEF Capped, JobQueueAssumption
<1>3. IsFiniteSet(Units) BY <1>1, <1>2, FS_Product DEF Units
<1>4. Cardinality(Replicas) \in Nat BY FS_CardinalityType DEF Capped
<1>5. MaxConcurrent * Cardinality(Replicas) \in Nat BY <1>4 DEF Capped, JobQueueAssumption
<1>6. MaxPreviews - 1 \in Nat BY DEF Capped, JobQueueAssumption
<1>. QED BY <1>3, <1>5, <1>6 DEF Bound

LEMMA SeenStep ==
    ASSUME JobQueueAssumption, IInv, SeenByClaim, [Next]_vars
    PROVE  SeenByClaim'
<1>. USE DEF IInv, TypeOK, LocksPending, SeenByClaim
<1>1. ASSUME NEW r \in Replicas, TryAcquire(r) PROVE SeenByClaim'
    BY <1>1 DEF TryAcquire
<1>2. ASSUME NEW r \in Replicas, ClaimSelect(r) PROVE SeenByClaim'
    BY <1>2 DEF ClaimSelect, IsOldest, Claimable
<1>3. ASSUME NEW r \in Replicas, ClaimNone(r) PROVE SeenByClaim'
    BY <1>3 DEF ClaimNone, EndClaim
<1>4. ASSUME NEW r \in Replicas, ClaimCommit(r) \/ ClaimAnswerLost(r) PROVE SeenByClaim'
    <2>1. PICK j \in Jobs : rowLock[j] = r /\ rowLock' = [rowLock EXCEPT ![j] = NoReplica]
        BY <1>4 DEF ClaimCommit, ClaimAnswerLost, MarkRunning
    <2>2. poll' = [poll EXCEPT ![r] = "idle"] /\ seen' = [seen EXCEPT ![r] = {}]
        BY <1>4 DEF ClaimCommit, ClaimAnswerLost, EndClaim
    <2>3. \A k \in Jobs : rowLock'[k] # NoReplica => rowLock'[k] = rowLock[k] /\ rowLock[k] # r
        BY <2>1, JobQueueAssumption DEF JobQueueAssumption
    <2>. QED BY <2>2, <2>3
<1>5. ASSUME NEW r \in Replicas, ClaimError(r) \/ Exit(r) PROVE SeenByClaim'
    BY <1>5 DEF ClaimError, Exit, EndClaim
<1>6. CASE UNCHANGED <<rowLock, poll, seen>> BY <1>6
<1>7. ASSUME NEW r \in Replicas, NEW j \in Jobs,
             Goroutine(r, j) \/ OutcomeLost(r, j) \/ Sweep(r, j)
      PROVE  UNCHANGED <<rowLock, poll, seen>>
    BY <1>7 DEF Goroutine, EndEarly, StartPreview, EndRun, StopPreview, Complete, Fail,
                OutcomeLost, Sweep
<1>8. ASSUME Submit \/ (\E j \in Jobs : Cancel(j))
               \/ (\E r \in Replicas : Shutdown(r) \/ Restart(r)) \/ UNCHANGED vars
      PROVE  UNCHANGED <<rowLock, poll, seen>>
    BY <1>8 DEF Submit, Cancel, Shutdown, Restart, vars
<1>. QED BY <1>1, <1>2, <1>3, <1>4, <1>5, <1>6, <1>7, <1>8 DEF Next, Poll

(* The load does not grow when nothing starts, nothing becomes active and  *)
(* no snapshot is taken.                                                   *)
LEMMA LoadShrinks ==
    ASSUME Capped, NEW p,
           \A s \in Replicas : seen'[s] \subseteq seen[s],
           \A s \in Replicas, x \in Jobs : at'[s][x] = "start" => at[s][x] = "start",
           \A x \in Jobs : preview'[x] = "active" => preview[x] = "active"
    PROVE  Cardinality(Load(p)') <= Cardinality(Load(p))
<1>1. Load(p)' \subseteq Load(p) BY DEF Load, Weighs, ActivePreviews
<1>2. IsFiniteSet(Load(p)) BY UnitsFinite, FS_Subset DEF Load
<1>. QED BY <1>1, <1>2, FS_Subset

(* A committed claim exchanges its unit for the job's.                     *)
LEMMA CommitKeepsLoad ==
    ASSUME Capped, IInv, SeenByClaim, NEW p, NEW r \in Replicas, ClaimCommit(r)
    PROVE  Cardinality(Load(p)') <= Cardinality(Load(p))
<1>. USE DEF Capped
<1>1. PICK j \in Jobs : rowLock[j] = r /\ at' = [at EXCEPT ![r][j] = "start"]
    BY DEF ClaimCommit
<1>2. preview' = preview /\ seen' = [seen EXCEPT ![r] = {}] BY DEF ClaimCommit, EndClaim
<1>3. j \in seen[r] /\ r # NoReplica
    BY <1>1 DEF SeenByClaim, JobQueueAssumption
<1>4. IsFiniteSet(Load(p)) BY UnitsFinite, FS_Subset DEF Load
<1>5. j \in 0..NJobs /\ 0 \in 0..NJobs /\ 0 \notin Jobs
    BY DEF Jobs, JobQueueAssumption
<1>6. \A s \in Replicas, x \in Jobs :
          at'[s][x] = "start" => at[s][x] = "start" \/ (s = r /\ x = j)
    BY <1>1 DEF IInv, TypeOK
<1>7. seen'[r] = {} /\ \A s \in Replicas \ {r} : seen'[s] = seen[s]
    BY <1>2 DEF IInv, TypeOK
<1>8. CASE Mine(p, j)
    <2>1. Weighs(p, r, 0) BY <1>3, <1>8 DEF Weighs
    <2>2. <<r, 0>> \in Load(p) BY <2>1, <1>5 DEF Load, Units
    <2>3. ASSUME NEW s, NEW x, Weighs(p, s, x)', ~(s = r /\ x = j)
          PROVE  Weighs(p, s, x) /\ ~(s = r /\ x = 0)
        BY <2>3, <1>2, <1>3, <1>5, <1>6, <1>7 DEF Weighs, ActivePreviews, Mine, Capped, JobQueueAssumption
    <2>4. Load(p)' \subseteq (Load(p) \ {<<r, 0>>}) \cup {<<r, j>>}
        <3>1. SUFFICES ASSUME NEW u \in Load(p)', u # <<r, j>>
                       PROVE  u \in Load(p) /\ u # <<r, 0>>
            OBVIOUS
        <3>2. u \in Units /\ Weighs(p, u[1], u[2])' BY DEF Load
        <3>3. u = <<u[1], u[2]>> BY <3>2 DEF Units
        <3>4. ~(u[1] = r /\ u[2] = j) BY <3>1, <3>3
        <3>5. Weighs(p, u[1], u[2]) /\ ~(u[1] = r /\ u[2] = 0) BY <2>3, <3>2, <3>4
        <3>. QED BY <3>2, <3>5 DEF Load
    <2>. QED BY <1>4, <2>2, <2>4, Exchange
<1>9. CASE ~Mine(p, j)
    <2>1. ASSUME NEW s, NEW x, Weighs(p, s, x)' PROVE Weighs(p, s, x)
        BY <2>1, <1>2, <1>6, <1>7, <1>9 DEF Weighs, ActivePreviews, Mine
    <2>2. Load(p)' \subseteq Load(p) BY <2>1 DEF Load
    <2>. QED BY <1>4, <2>2, FS_Subset
<1>. QED BY <1>8, <1>9

(* A registered preview takes the place of the job that starts it.         *)
LEMMA StartKeepsLoad ==
    ASSUME Capped, IInv, NEW p, NEW r \in Replicas, NEW j \in Jobs, StartPreview(r, j)
    PROVE  Cardinality(Load(p)') <= Cardinality(Load(p))
<1>1. at[r][j] = "start" /\ at' = [at EXCEPT ![r][j] = "run"] /\ seen' = seen
    BY DEF StartPreview, Advance
<1>2. \A x \in Jobs : preview'[x] = "active" => preview[x] = "active" \/ (x = j /\ j \in Eligible)
    BY DEF StartPreview, IInv, TypeOK
<1>3. \A s \in Replicas, x \in Jobs :
          at'[s][x] = "start" => at[s][x] = "start" /\ ~(s = r /\ x = j)
    BY <1>1 DEF IInv, TypeOK
<1>4. IsFiniteSet(Load(p)) BY UnitsFinite, FS_Subset DEF Load
<1>5. j \in 0..NJobs /\ 0 \notin Jobs /\ r # NoReplica /\ NoReplica \notin Replicas
    BY DEF Jobs, Capped, JobQueueAssumption
<1>6. CASE Mine(p, j)
    <2>1. Weighs(p, r, j) BY <1>1, <1>6 DEF Weighs
    <2>2. <<r, j>> \in Load(p) BY <2>1, <1>5 DEF Load, Units
    <2>3. ASSUME NEW s, NEW x, Weighs(p, s, x)', ~(s = NoReplica /\ x = j)
          PROVE  Weighs(p, s, x) /\ ~(s = r /\ x = j)
        BY <2>3, <1>1, <1>2, <1>3, <1>5 DEF Weighs, ActivePreviews, Mine
    <2>4. Load(p)' \subseteq (Load(p) \ {<<r, j>>}) \cup {<<NoReplica, j>>}
        <3>1. SUFFICES ASSUME NEW u \in Load(p)', u # <<NoReplica, j>>
                       PROVE  u \in Load(p) /\ u # <<r, j>>
            OBVIOUS
        <3>2. u \in Units /\ Weighs(p, u[1], u[2])' BY DEF Load
        <3>3. u = <<u[1], u[2]>> BY <3>2 DEF Units
        <3>4. ~(u[1] = NoReplica /\ u[2] = j) BY <3>1, <3>3
        <3>5. Weighs(p, u[1], u[2]) /\ ~(u[1] = r /\ u[2] = j) BY <2>3, <3>2, <3>4
        <3>. QED BY <3>2, <3>5 DEF Load
    <2>. QED BY <1>4, <2>2, <2>4, Exchange
<1>7. CASE ~Mine(p, j)
    <2>1. ASSUME NEW s, NEW x, Weighs(p, s, x)' PROVE Weighs(p, s, x)
        BY <2>1, <1>1, <1>2, <1>3, <1>7 DEF Weighs, ActivePreviews, Mine
    <2>2. Load(p)' \subseteq Load(p) BY <2>1 DEF Load
    <2>. QED BY <1>4, <2>2, FS_Subset
<1>. QED BY <1>6, <1>7

(* A snapshot that admits a job of the project found the project below its *)
(* cap; all other units are slots of a limiter.                            *)
LEMMA SnapshotBounds ==
    ASSUME Capped, IInv, IInv', SeenByClaim, SeenByClaim', NEW i \in Jobs,
           NEW r \in Replicas, TryAcquire(r),
           Cardinality(Load(Project[i])) <= Bound
    PROVE  Cardinality(Load(Project[i])') <= Bound
<1>. DEFINE p == Project[i]
<1>0. IsFiniteSet(Load(p)) BY UnitsFinite, FS_Subset DEF Load
<1>1. /\ at' = at /\ preview' = preview /\ slots'[r] \in 0..MaxConcurrent
      /\ seen' = [seen EXCEPT ![r] = {j \in Jobs : status[j] = "pending" /\ Admissible(j)}]
    BY DEF TryAcquire, IInv, TypeOK
<1>2. /\ seen'[r] = {j \in Jobs : status[j] = "pending" /\ Admissible(j)}
      /\ \A s \in Replicas \ {r} : seen'[s] = seen[s]
    BY <1>1 DEF IInv, TypeOK
<1>3. CASE \A j \in seen'[r] : ~Mine(p, j)
    <2>1. ASSUME NEW s, NEW x, Weighs(p, s, x)' PROVE Weighs(p, s, x)
        BY <2>1, <1>1, <1>2, <1>3 DEF Weighs, ActivePreviews, Mine
    <2>2. Load(p)' \subseteq Load(p) BY <2>1 DEF Load
    <2>3. Cardinality(Load(p)') <= Cardinality(Load(p)) BY <1>0, <2>2, FS_Subset
    <2>4. IsFiniteSet(Load(p)') BY <1>0, <2>2, FS_Subset
    <2>5. Cardinality(Load(p)') \in Nat /\ Cardinality(Load(p)) \in Nat
        BY <1>0, <2>4, FS_CardinalityType
    <2>. QED BY <2>3, <2>5, UnitsFinite
<1>4. CASE \E j \in seen'[r] : Mine(p, j)
    <2>1. Cardinality(ActivePreviews(p)) < MaxPreviews
        BY <1>2, <1>4 DEF Admissible, Mine, Capped
    <2>2. IsFiniteSet(ActivePreviews(p)) /\ Cardinality(ActivePreviews(p)) \in Nat
        <3>1. IsFiniteSet(Jobs) BY FS_Interval DEF Jobs, Capped, JobQueueAssumption
        <3>2. ActivePreviews(p) \subseteq Jobs BY DEF ActivePreviews
        <3>. QED BY <3>1, <3>2, FS_Subset, FS_CardinalityType
    <2>. DEFINE A == {NoReplica} \X ActivePreviews(p)
                U == [s \in Replicas |-> Live(s) \cup IF poll'[s] = "idle" THEN {} ELSE {0}]
                P == {u \in Replicas \X (0..NJobs) : u[2] \in U[u[1]]}
    <2>3. IsFiniteSet(A) /\ Cardinality(A) = Cardinality(ActivePreviews(p))
        <3>1. IsFiniteSet({NoReplica}) /\ Cardinality({NoReplica}) = 1 BY FS_Singleton
        <3>2. /\ IsFiniteSet(A)
              /\ Cardinality(A) = Cardinality({NoReplica}) * Cardinality(ActivePreviews(p))
            BY <2>2, <3>1, FS_Product
        <3>. HIDE DEF A
        <3>. QED BY <2>2, <3>1, <3>2
    <2>4. U \in [Replicas -> SUBSET (0..NJobs)]
        <3>1. Jobs \subseteq 0..NJobs /\ 0 \in 0..NJobs BY DEF Jobs, Capped, JobQueueAssumption
        <3>. QED BY <3>1 DEF Live
    <2>5. ASSUME NEW s \in Replicas
          PROVE  IsFiniteSet(U[s]) /\ Cardinality(U[s]) <= MaxConcurrent
        <3>1. IsFiniteSet(Live(s)) /\ Cardinality(Live(s)) \in Nat BY LiveFinite DEF Capped
        <3>2. Live(s)' = Live(s) BY <1>1 DEF Live
        <3>3. slots'[s] = Cardinality(Live(s)) + (IF poll'[s] = "idle" THEN 0 ELSE 1)
            BY <3>2 DEF IInv, SlotsAccounted
        <3>4. slots'[s] \in 0..MaxConcurrent BY DEF IInv, TypeOK
        <3>5. 0 \notin Live(s) BY DEF Live, Jobs, Capped, JobQueueAssumption
        <3>6. CASE poll'[s] = "idle"
            <4>1. U[s] = Live(s) BY <3>6
            <4>2. Cardinality(Live(s)) <= MaxConcurrent BY <3>1, <3>3, <3>4, <3>6
            <4>. QED BY <3>1, <4>1, <4>2
        <3>7. CASE poll'[s] # "idle"
            <4>1. U[s] = Live(s) \cup {0} BY <3>7
            <4>2. /\ IsFiniteSet(Live(s) \cup {0})
                  /\ Cardinality(Live(s) \cup {0}) = Cardinality(Live(s)) + 1
                BY <3>1, <3>5, FS_AddElement
            <4>3. Cardinality(Live(s)) + 1 <= MaxConcurrent BY <3>3, <3>4, <3>7
            <4>. QED BY <4>1, <4>2, <4>3
        <3>. QED BY <3>6, <3>7
    <2>6. IsFiniteSet(P) /\ Cardinality(P) <= MaxConcurrent * Cardinality(Replicas)
        <3>. HIDE DEF U
        <3>. QED BY <2>4, <2>5, PilesAreBounded DEF Capped, JobQueueAssumption
    <2>7. Load(p)' \subseteq A \cup P
        <3>1. SUFFICES ASSUME NEW u \in Load(p)' PROVE u \in A \cup P OBVIOUS
        <3>2. u \in Units /\ Weighs(p, u[1], u[2])' BY DEF Load
        <3>3. u = <<u[1], u[2]>> /\ u[2] \in 0..NJobs BY <3>2 DEF Units
        <3>4. CASE u[1] = NoReplica /\ u[2] \in ActivePreviews(p)'
            BY <1>1, <3>3, <3>4 DEF ActivePreviews
        <3>5. CASE u[1] \in Replicas /\ u[2] \in Jobs /\ at'[u[1]][u[2]] = "start"
            <4>1. u[2] \in Live(u[1]) BY <1>1, <3>5 DEF Live
            <4>2. u[2] \in U[u[1]] BY <3>5, <4>1
            <4>. QED BY <3>3, <3>5, <4>2
        <3>6. CASE u[1] \in Replicas /\ u[2] = 0 /\ seen'[u[1]] # {}
            <4>1. poll'[u[1]] # "idle" BY <3>6 DEF SeenByClaim
            <4>2. u[2] \in U[u[1]] BY <3>6, <4>1
            <4>. QED BY <3>3, <3>6, <4>2
        <3>. QED BY <3>2, <3>4, <3>5, <3>6 DEF Weighs
    <2>. HIDE DEF A, U, P
    <2>8. Cardinality(A) \in Nat /\ Cardinality(P) \in Nat /\ Cardinality(A \cap P) \in Nat
        BY <2>3, <2>6, FS_Intersection, FS_CardinalityType
    <2>9. /\ IsFiniteSet(A \cup P)
          /\ Cardinality(A \cup P) = Cardinality(A) + Cardinality(P) - Cardinality(A \cap P)
        BY <2>3, <2>6, FS_Union
    <2>10. Cardinality(Load(p)') <= Cardinality(A \cup P) /\ IsFiniteSet(Load(p)')
        BY <2>7, <2>9, FS_Subset
    <2>11. Cardinality(Load(p)') \in Nat BY <2>10, FS_CardinalityType
    <2>12. Cardinality(Replicas) \in Nat BY FS_CardinalityType DEF Capped
    <2>13. MaxConcurrent * Cardinality(Replicas) \in Nat
        BY <2>12 DEF Capped, JobQueueAssumption
    <2>. HIDE DEF p
    <2>14. Cardinality(Load(p)') <= Bound
        BY <2>1, <2>2, <2>3, <2>6, <2>8, <2>9, <2>10, <2>11, <2>13
        DEF Bound, Capped, JobQueueAssumption
    <2>. QED BY <2>14 DEF p
<1>. QED BY <1>3, <1>4

(* Nothing weighs in the initial state.                                    *)
LEMMA LoadInit ==
    ASSUME Capped, Init
    PROVE  SeenByClaim /\ LoadBounded
<1>1. SeenByClaim BY DEF Init, SeenByClaim
<1>2. ASSUME NEW i \in Jobs PROVE Load(Project[i]) = {}
    <2>1. ASSUME NEW s, NEW x, Weighs(Project[i], s, x) PROVE FALSE
        BY <2>1 DEF Init, Weighs, ActivePreviews
    <2>. QED BY <2>1 DEF Load
<1>. QED BY <1>1, <1>2, UnitsFinite, FS_EmptySet DEF LoadBounded

(* Every step keeps the load within its bound.                             *)
LEMMA LoadStep ==
    ASSUME Capped, IInv, IInv', SeenByClaim, SeenByClaim', LoadBounded, [Next]_vars
    PROVE  LoadBounded'
<1>1. SUFFICES ASSUME NEW i \in Jobs PROVE Cardinality(Load(Project[i])') <= Bound
    BY DEF LoadBounded, Bound
<1>. DEFINE p == Project[i]
<1>2. Cardinality(Load(p)) <= Bound BY DEF LoadBounded
<1>3. IsFiniteSet(Load(p)) /\ IsFiniteSet(Load(p)')
    <2>1. Load(p) \subseteq Units /\ Load(p)' \subseteq Units BY DEF Load
    <2>. QED BY <2>1, UnitsFinite, FS_Subset
<1>4. Cardinality(Load(p)) \in Nat /\ Cardinality(Load(p)') \in Nat
    BY <1>3, FS_CardinalityType
<1>5. ASSUME Cardinality(Load(p)') <= Cardinality(Load(p))
      PROVE  Cardinality(Load(p)') <= Bound
    BY <1>2, <1>4, <1>5, UnitsFinite
<1>6. ASSUME NEW r \in Replicas, TryAcquire(r) PROVE Cardinality(Load(p)') <= Bound
    BY <1>2, <1>6, SnapshotBounds
<1>7. ASSUME NEW r \in Replicas, ClaimCommit(r) PROVE Cardinality(Load(p)') <= Bound
    BY <1>5, <1>7, CommitKeepsLoad
<1>8. ASSUME NEW r \in Replicas, NEW j \in Jobs, StartPreview(r, j)
      PROVE  Cardinality(Load(p)') <= Bound
    BY <1>5, <1>8, StartKeepsLoad
<1>9. ASSUME /\ \A s \in Replicas : seen'[s] \subseteq seen[s]
             /\ \A s \in Replicas, x \in Jobs : at'[s][x] = "start" => at[s][x] = "start"
             /\ \A x \in Jobs : preview'[x] = "active" => preview[x] = "active"
      PROVE  Cardinality(Load(p)') <= Bound
    BY <1>5, <1>9, LoadShrinks
<1>. HIDE DEF p
<1>10. ASSUME Submit \/ (\E j \in Jobs : Cancel(j)) \/ UNCHANGED vars
       PROVE  Cardinality(Load(p)') <= Bound
    BY <1>9, <1>10 DEF Submit, Cancel, vars
<1>11. ASSUME NEW r \in Replicas,
              ClaimSelect(r) \/ ClaimNone(r) \/ ClaimError(r) \/ ClaimAnswerLost(r)
                \/ Shutdown(r) \/ Restart(r)
       PROVE  Cardinality(Load(p)') <= Bound
    <2>1. \A s \in Replicas : seen'[s] \subseteq seen[s]
        BY <1>11 DEF ClaimSelect, ClaimNone, ClaimError, ClaimAnswerLost, EndClaim, Shutdown,
                     Restart, IInv, TypeOK
    <2>2. UNCHANGED <<at, preview>>
        BY <1>11 DEF ClaimSelect, ClaimNone, ClaimError, ClaimAnswerLost, Shutdown, Restart
    <2>. QED BY <1>9, <2>1, <2>2
<1>12. ASSUME NEW r \in Replicas, Exit(r) PROVE Cardinality(Load(p)') <= Bound
    <2>1. \A s \in Replicas : seen'[s] \subseteq seen[s]
        BY <1>12 DEF Exit, EndClaim, IInv, TypeOK
    <2>2. \A s \in Replicas, x \in Jobs : at'[s][x] = "start" => at[s][x] = "start"
        BY <1>12 DEF Exit, IInv, TypeOK
    <2>3. preview' = preview BY <1>12 DEF Exit
    <2>. QED BY <1>9, <2>1, <2>2, <2>3
<1>13. ASSUME NEW r \in Replicas, NEW j \in Jobs,
              EndEarly(r, j) \/ EndRun(r, j) \/ StopPreview(r, j) \/ Complete(r, j) \/ Fail(r, j)
                \/ OutcomeLost(r, j) \/ Sweep(r, j)
       PROVE  Cardinality(Load(p)') <= Bound
    <2>1. seen' = seen
        BY <1>13 DEF EndEarly, EndRun, StopPreview, Complete, Fail, OutcomeLost, Sweep
    <2>2. \A s \in Replicas, x \in Jobs : at'[s][x] = "start" => at[s][x] = "start"
        <3>1. \/ at' = at
              \/ \E v \in Step \ {"start"} : at' = [at EXCEPT ![r][j] = v]
            BY <1>13 DEF EndEarly, EndRun, StopPreview, Complete, Fail, OutcomeLost, Sweep, Advance,
                         Step
        <3>. QED BY <3>1 DEF IInv, TypeOK
    <2>3. \A x \in Jobs : preview'[x] = "active" => preview[x] = "active"
        BY <1>13 DEF EndEarly, EndRun, StopPreview, Complete, Fail, OutcomeLost, Sweep, TearDown,
                     IInv, TypeOK
    <2>. QED BY <1>9, <2>1, <2>2, <2>3
<1>14. Cardinality(Load(p)') <= Bound
    BY <1>6, <1>7, <1>8, <1>10, <1>11, <1>12, <1>13 DEF Next, Poll, Goroutine
<1>. QED BY <1>14 DEF p

(* Previews that exist and jobs about to start one weigh no more than the  *)
(* load, so their union is bounded.                                        *)
LEMMA LoadCovers ==
    ASSUME Capped, IInv, LoadBounded
    PROVE  OvershootBounded
<1>1. SUFFICES ASSUME NEW i \in Jobs
               PROVE  Cardinality(ActivePreviews(Project[i]) \cup Starting(Project[i])) <= Bound
    BY DEF OvershootBounded, Bound
<1>. DEFINE p == Project[i]
            E == ActivePreviews(p) \cup Starting(p)
            F == [j \in E |-> IF j \in ActivePreviews(p) THEN <<NoReplica, j>>
                              ELSE <<CHOOSE r \in Replicas : at[r][j] = "start", j>>]
<1>2. IsFiniteSet(Load(p)) BY UnitsFinite, FS_Subset DEF Load
<1>3. ASSUME NEW j \in E PROVE F[j] \in Load(p) /\ F[j][2] = j
    <2>1. j \in Jobs /\ j \in 0..NJobs
        BY DEF ActivePreviews, Starting, Jobs, Capped, JobQueueAssumption
    <2>2. CASE j \in ActivePreviews(p)
        <3>1. F[j] = <<NoReplica, j>> BY <2>2
        <3>. HIDE DEF F
        <3>2. Weighs(p, NoReplica, j) BY <2>2 DEF Weighs
        <3>. QED BY <2>1, <3>1, <3>2 DEF Load, Units
    <2>3. CASE j \notin ActivePreviews(p)
        <3>1. j \in Starting(p) BY <2>3
        <3>2. PICK r \in Replicas : at[r][j] = "start" /\ F[j] = <<r, j>>
            BY <2>3, <3>1 DEF Starting
        <3>. HIDE DEF F
        <3>3. Weighs(p, r, j) BY <2>1, <3>1, <3>2 DEF Weighs, Starting, Mine
        <3>. QED BY <2>1, <3>2, <3>3 DEF Load, Units
    <2>. QED BY <2>2, <2>3
<1>4. F \in Injection(E, Load(p))
    <2>1. F \in [E -> Load(p)] BY <1>3
    <2>2. IsInjective(F) BY <1>3 DEF IsInjective
    <2>. QED BY <2>1, <2>2 DEF Injection
<1>. HIDE DEF E, F
<1>5. IsFiniteSet(E) /\ Cardinality(E) <= Cardinality(Load(p)) BY <1>2, <1>4, FS_Injection
<1>6. Cardinality(E) \in Nat /\ Cardinality(Load(p)) \in Nat
    BY <1>2, <1>5, FS_CardinalityType
<1>7. Cardinality(Load(p)) <= Bound BY DEF LoadBounded
<1>8. Cardinality(E) <= Bound BY <1>5, <1>6, <1>7, UnitsFinite
<1>. QED BY <1>8 DEF E

(* The cap on previews can be overshot, but by no more than the jobs that  *)
(* all limiters together have in flight, less one: the admission check     *)
(* (queue.go, Claim) bounds what is brought up although it counts only     *)
(* what is registered.                                                     *)
THEOREM OvershootIsBounded == IsFiniteSet(Replicas) => (Spec => []OvershootBounded)
<1>1. CASE MaxPreviews = 0
    <2>1. OvershootBounded BY <1>1 DEF OvershootBounded
    <2>. QED BY <2>1, PTL
<1>2. CASE MaxPreviews # 0
    <2>1. SUFFICES ASSUME IsFiniteSet(Replicas) PROVE Spec => []OvershootBounded
        OBVIOUS
    <2>2. Capped BY <1>2, <2>1, JobQueueAssumption DEF Capped, JobQueueAssumption
    <2>3. Init => SeenByClaim /\ LoadBounded BY <2>2, LoadInit
    <2>4. IInv /\ IInv' /\ SeenByClaim /\ LoadBounded /\ [Next]_vars => (SeenByClaim /\ LoadBounded)'
        BY <2>2, SeenStep, LoadStep DEF Capped
    <2>5. IInv /\ LoadBounded => OvershootBounded BY <2>2, LoadCovers
    <2>. QED BY <2>3, <2>4, <2>5, InductiveInvariant, PTL DEF Spec
<1>. QED BY <1>1, <1>2, JobQueueAssumption DEF JobQueueAssumption
=============================================================================
