------------------------ MODULE OrchestrationProofs ------------------------
(* Theorems about Orchestration, for all values of its constants.            *)
EXTENDS Orchestration, SequenceTheorems, TLAPS

\* What the assumptions on the constants give.
LEMMA ConstantsType ==
    /\ MaxStageRetries \in Nat /\ MaxStageRetries > 0
    /\ MaxAttempts \in Nat
    /\ MaxStageRetries <= MaxAttempts
    /\ FaultBudget \in [FaultKinds -> Nat]
    /\ None \notin Executions
  BY OrchestrationAssumption DEF OrchestrationAssumption

\* Every stage of a workflow has a key.
LEMMA StagesType ==
    /\ Len(Stages) \in Nat
    /\ DOMAIN Stages = 1..Len(Stages)
    /\ \A i \in DOMAIN Stages : Key(i) \in Keys
  <1>1. Stages \in Seq([key : Keys, rate : Rates])
    BY OrchestrationAssumption DEF OrchestrationAssumption
  <1>2. Len(Stages) \in Nat /\ DOMAIN Stages = 1..Len(Stages)
    BY <1>1
  <1>3. \A i \in DOMAIN Stages : Stages[i] \in [key : Keys, rate : Rates]
    BY <1>1, <1>2, ElementOfSeq
  <1>4. \A i \in DOMAIN Stages : Key(i) \in Keys
    BY <1>3 DEF Key
  <1> QED
    BY <1>2, <1>4

----------------------------------------------------------------------------
TypeInv == TypeOK /\ LocalsOK

\* The bookkeeping operators keep their variables in range.
LEMMA LoseType ==
  ASSUME TypeOK, NEW e \in Executions, NEW cause \in LostCauses, Lose(e, cause)
  PROVE  lost' \in [Executions -> SUBSET LostCauses]
  <1>1. lost \in [Executions -> SUBSET LostCauses]
    BY DEF TypeOK
  <1> QED
    BY <1>1 DEF Lose

LEMMA SpendType ==
  ASSUME TypeOK, NEW kind \in FaultKinds, Spend(kind)
  PROVE  faults' \in [FaultKinds -> Nat]
  <1>1. faults \in [FaultKinds -> Nat]
    BY DEF TypeOK
  <1> QED
    BY <1>1 DEF Spend

LEMMA PublishedType ==
  ASSUME TypeOK, NEW e \in Executions, NEW r \in RetryCounts,
         ready' = [ready EXCEPT ![e][r] = @ + 1]
  PROVE  ready' \in [Executions -> [RetryCounts -> Nat]]
  <1>1. ready \in [Executions -> [RetryCounts -> Nat]]
    BY DEF TypeOK
  <1> QED
    BY <1>1

LEMMA RequeueType ==
  ASSUME TypeOK, NEW w \in Workers, job[w] \in Executions, Requeue(w)
  PROVE  ready' \in [Executions -> [RetryCounts -> Nat]]
  <1>1. retries[w] \in RetryCounts
    BY DEF TypeOK
  <1> QED
    BY <1>1, PublishedType DEF Requeue

LEMMA ReleaseType ==
  ASSUME TypeOK, NEW w \in Workers, Release(w)
  PROVE  /\ job' \in [Workers -> Executions \cup {None}]
         /\ retries' \in [Workers -> RetryCounts]
         /\ owned' \in [Workers -> BOOLEAN]
         /\ seen' \in [Workers -> ExecStatuses]
         /\ stage' \in [Workers -> 1..(Len(Stages) + 1)]
         /\ attempt' \in [Workers -> 0..MaxAttempts]
         /\ job'[w] = None /\ \A v \in Workers : v # w => job'[v] = job[v]
  BY ConstantsType, StagesType DEF TypeOK, Release, RetryCounts, ExecStatuses

LEMMA TypeStep == TypeInv /\ [Next]_vars => TypeInv'
  <1> SUFFICES ASSUME TypeInv, [Next]_vars PROVE TypeInv'
    OBVIOUS
  <1> USE ConstantsType, StagesType
      DEF TypeInv, LocalsOK, Goto, dbVars, workerVars, taskVars,
          Pcs, RunPcs, PublishPcs, DbPcs, LogPcs, StagePcs, OpenPcs, FailedPcs, DonePcs
  <1>1. ASSUME NEW e \in Executions, CreateExecution(e) PROVE TypeInv'
    <2>1. TypeOK'
      BY <1>1 DEF TypeOK, CreateExecution
    <2>2. LocalsOK'
      BY <1>1 DEF TypeOK, CreateExecution, Attempts
    <2> QED
      BY <2>1, <2>2
  <1>2. ASSUME NEW e \in Executions, SendTask(e) PROVE TypeInv'
    <2>1. TypeOK'
      <3>1. ready' \in [Executions -> [RetryCounts -> Nat]]
        <4>1. 0 \in RetryCounts /\ ready' = [ready EXCEPT ![e][0] = @ + 1]
          BY <1>2 DEF SendTask, RetryCounts
        <4> QED
          BY <4>1, PublishedType
      <3>2. api' = [api EXCEPT ![e] = "sent"]
        BY <1>2 DEF SendTask
      <3> QED
        BY <1>2, <3>1, <3>2 DEF TypeOK, SendTask
    <2>2. LocalsOK'
      BY <1>2 DEF TypeOK, SendTask, Attempts
    <2> QED
      BY <2>1, <2>2
  <1>3. ASSUME NEW e \in Executions, CommitTrigger(e) PROVE TypeInv'
    <2>1. exec' \in [Executions -> [status : ExecStatuses, result : BOOLEAN, error : BOOLEAN]]
      <3>1. exec \in [Executions -> [status : ExecStatuses, result : BOOLEAN, error : BOOLEAN]] /\ "queued" \in ExecStatuses
        BY DEF TypeOK, ExecStatuses
      <3>2. exec' = [exec EXCEPT ![e].status = "queued"]
        BY <1>3 DEF CommitTrigger
      <3> QED
        BY <3>1, <3>2
    <2>2. TypeOK'
      BY <1>3, <2>1 DEF TypeOK, CommitTrigger
    <2>3. LocalsOK'
      BY <1>3 DEF TypeOK, CommitTrigger, Attempts
    <2> QED
      BY <2>2, <2>3
  <1>4. ASSUME NEW e \in Executions, AbortTrigger(e) PROVE TypeInv'
    <2>1. faults' \in [FaultKinds -> Nat]
      BY <1>4, SpendType DEF AbortTrigger, FaultKinds
    <2>2. TypeOK'
      BY <1>4, <2>1 DEF TypeOK, AbortTrigger
    <2>3. LocalsOK'
      BY <1>4 DEF TypeOK, AbortTrigger, Attempts
    <2> QED
      BY <2>2, <2>3
  <1>5. ASSUME NEW w \in Workers, NEW e \in Executions, Deliver(w, e) PROVE TypeInv'
    <2>1. PICK r \in RetryCounts :
            /\ ready[e][r] > 0
            /\ ready' = [ready EXCEPT ![e][r] = @ - 1]
            /\ retries' = [retries EXCEPT ![w] = r]
      BY <1>5 DEF Deliver
    <2>2. ready' \in [Executions -> [RetryCounts -> Nat]]
      BY <2>1 DEF TypeOK
    <2>3. TypeOK'
      BY <1>5, <2>1, <2>2 DEF TypeOK, Deliver
    <2>4. LocalsOK'
      BY <1>5 DEF TypeOK, Deliver, Attempts
    <2> QED
      BY <2>3, <2>4
  <1>6. ASSUME NEW w \in Workers, Load(w) PROVE TypeInv'
    <2>1. job[w] \in Executions
      BY <1>6 DEF TypeOK, Load
    <2>2. lost' \in [Executions -> SUBSET LostCauses]
      <3>1. lost' = lost \/ Lose(job[w], "unseen")
        BY <1>6 DEF Load
      <3> QED
        BY <2>1, <3>1, LoseType DEF TypeOK, LostCauses
    <2>3. TypeOK'
      BY <1>6, <2>1, <2>2 DEF TypeOK, Load, Lose, ExecStatuses, Terminal
    <2>4. LocalsOK'
      BY <1>6 DEF TypeOK, Load, Lose, Attempts
    <2> QED
      BY <2>3, <2>4
  <1>7. ASSUME NEW w \in Workers, BeginRun(w) PROVE TypeInv'
    <2>1. TypeOK'
      BY <1>7 DEF TypeOK, BeginRun, ExecStatuses, Terminal
    <2>2. LocalsOK'
      BY <1>7 DEF TypeOK, BeginRun, Attempts
    <2> QED
      BY <2>1, <2>2
  <1>8. ASSUME NEW w \in Workers, CommitStart(w) PROVE TypeInv'
    <2>1. job[w] \in Executions
      BY <1>8 DEF TypeOK, CommitStart
    <2>2. exec' \in [Executions -> [status : ExecStatuses, result : BOOLEAN, error : BOOLEAN]]
      <3>1. exec \in [Executions -> [status : ExecStatuses, result : BOOLEAN, error : BOOLEAN]] /\ "running" \in ExecStatuses
        BY DEF TypeOK, ExecStatuses
      <3>2. exec' = [exec EXCEPT ![job[w]].status = "running"]
        BY <1>8 DEF CommitStart
      <3> QED
        BY <2>1, <3>1, <3>2
    <2>3. TypeOK'
      BY <1>8, <2>1, <2>2 DEF TypeOK, CommitStart, ExecLines
    <2>4. LocalsOK'
      BY <1>8 DEF TypeOK, CommitStart, Attempts
    <2> QED
      BY <2>3, <2>4
  <1>9. ASSUME NEW w \in Workers, Publish(w) PROVE TypeInv'
    <2>1. TypeOK'
      BY <1>9 DEF TypeOK, Publish, AfterPublish
    <2>2. LocalsOK'
      BY <1>9 DEF TypeOK, Publish, AfterPublish, Attempts
    <2> QED
      BY <2>1, <2>2
  <1>10. ASSUME NEW w \in Workers, CheckStage(w) PROVE TypeInv'
    <2>1. TypeOK'
      BY <1>10 DEF TypeOK, CheckStage, Succeeded
    <2>2. LocalsOK'
      BY <1>10 DEF TypeOK, CheckStage, Succeeded, Attempts
    <2> QED
      BY <2>1, <2>2
  <1>11. ASSUME NEW w \in Workers, NextAttempt(w) PROVE TypeInv'
    <2>1. TypeOK'
      BY <1>11 DEF TypeOK, NextAttempt, Attempts
    <2>2. LocalsOK'
      BY <1>11 DEF TypeOK, NextAttempt, Attempts
    <2> QED
      BY <2>1, <2>2
  <1>12. ASSUME NEW w \in Workers, CreateStep(w) PROVE TypeInv'
    <2>1. job[w] \in Executions
      BY <1>12 DEF TypeOK, CreateStep
    <2>2. steps' \in [Executions -> [Keys -> [Attempts -> StepStatuses]]]
      <3>1. steps \in [Executions -> [Keys -> [Attempts -> StepStatuses]]] /\ "running" \in StepStatuses
        BY DEF TypeOK, StepStatuses
      <3>2. Key(stage[w]) \in Keys /\ attempt[w] \in Attempts
        BY <1>12, StagesType DEF CreateStep, StagePcs
      <3>3. [steps EXCEPT ![job[w]][Key(stage[w])][attempt[w]] = "running"] \in [Executions -> [Keys -> [Attempts -> StepStatuses]]]
        BY <2>1, <3>1, <3>2
      <3> QED
        BY <1>12, <3>1, <3>3 DEF CreateStep
    <2>3. lost' \in [Executions -> SUBSET LostCauses]
      <3>1. lost' = lost \/ Lose(job[w], "conflict")
        BY <1>12 DEF CreateStep
      <3> QED
        BY <2>1, <3>1, LoseType DEF TypeOK, LostCauses
    <2>4. TypeOK'
      BY <1>12, <2>1, <2>2, <2>3 DEF TypeOK, CreateStep, Lose
    <2>5. LocalsOK'
      BY <1>12 DEF TypeOK, CreateStep, Lose, Attempts
    <2> QED
      BY <2>4, <2>5
  <1>13. ASSUME NEW w \in Workers, LogLine(w) PROVE TypeInv'
    <2>1. TypeOK'
      BY <1>13 DEF TypeOK, LogLine, Line, AfterLog, StepLines, Attempts
    <2>2. LocalsOK'
      BY <1>13 DEF TypeOK, LogLine, Line, AfterLog, Attempts
    <2> QED
      BY <2>1, <2>2
  <1>14. ASSUME NEW w \in Workers, RunStage(w) PROVE TypeInv'
    <2>1. TypeOK'
      BY <1>14 DEF TypeOK, RunStage, FinishStep, Outcomes, StepStatuses, Attempts
    <2>2. LocalsOK'
      BY <1>14 DEF TypeOK, RunStage, FinishStep, Outcomes, Attempts
    <2> QED
      BY <2>1, <2>2
  <1>15. ASSUME NEW w \in Workers, MarkRetrying(w) PROVE TypeInv'
    <2>1. TypeOK'
      BY <1>15 DEF TypeOK, MarkRetrying, WriteStatus, ExecStatuses, Terminal
    <2>2. LocalsOK'
      BY <1>15 DEF TypeOK, MarkRetrying, WriteStatus, Attempts
    <2> QED
      BY <2>1, <2>2
  <1>16. ASSUME NEW w \in Workers, MarkFailed(w) PROVE TypeInv'
    <2>1. TypeOK'
      BY <1>16 DEF TypeOK, MarkFailed, WriteStatus, ExecStatuses, Terminal
    <2>2. LocalsOK'
      BY <1>16 DEF TypeOK, MarkFailed, WriteStatus, Attempts
    <2> QED
      BY <2>1, <2>2
  <1>17. ASSUME NEW w \in Workers, MarkSucceeded(w) PROVE TypeInv'
    <2>1. TypeOK'
      BY <1>17 DEF TypeOK, MarkSucceeded, WriteStatus, ExecStatuses, Terminal
    <2>2. LocalsOK'
      BY <1>17 DEF TypeOK, MarkSucceeded, WriteStatus, Attempts
    <2> QED
      BY <2>1, <2>2
  <1>18. ASSUME NEW w \in Workers, LogCompleted(w) PROVE TypeInv'
    <2>1. TypeOK'
      BY <1>18 DEF TypeOK, LogCompleted, ExecLines
    <2>2. LocalsOK'
      BY <1>18 DEF TypeOK, LogCompleted, Attempts
    <2> QED
      BY <2>1, <2>2
  <1>19. ASSUME NEW w \in Workers, AutoRetry(w) PROVE TypeInv'
    <2>1. job[w] \in Executions
      BY <1>19 DEF TypeOK, AutoRetry
    <2>2. ready' \in [Executions -> [RetryCounts -> Nat]]
      <3>1. CASE retries[w] < MaxStageRetries
        <4>1. retries[w] + 1 \in RetryCounts
          BY <3>1 DEF TypeOK, RetryCounts
        <4>2. ready' = [ready EXCEPT ![job[w]][retries[w] + 1] = @ + 1]
          BY <1>19, <3>1 DEF AutoRetry, TypeOK, RetryCounts
        <4> QED
          BY <2>1, <4>1, <4>2, PublishedType
      <3>2. CASE ~(retries[w] < MaxStageRetries)
        BY <1>19, <3>2 DEF AutoRetry, TypeOK
      <3> QED
        BY <3>1, <3>2
    <2>3. lost' \in [Executions -> SUBSET LostCauses]
      <3>1. lost' = lost \/ Lose(job[w], "budget")
        BY <1>19 DEF AutoRetry
      <3> QED
        BY <2>1, <3>1, LoseType DEF TypeOK, LostCauses
    <2>4. TypeOK'
      BY <1>19, <2>1, <2>2, <2>3 DEF TypeOK, AutoRetry, Lose
    <2>5. LocalsOK'
      BY <1>19 DEF TypeOK, AutoRetry, Lose, Attempts
    <2> QED
      BY <2>4, <2>5
  <1>20. ASSUME NEW w \in Workers, Ack(w) PROVE TypeInv'
    <2>1. TypeOK'
      BY <1>20, ReleaseType DEF TypeOK, Ack
    <2>2. LocalsOK'
      BY <1>20 DEF TypeOK, Ack, Release, Attempts
    <2> QED
      BY <2>1, <2>2
  <1>21. ASSUME NEW w \in Workers, Crash(w) PROVE TypeInv'
    <2>1. job[w] \in Executions
      BY <1>21 DEF TypeOK, Crash
    <2>2. faults' \in [FaultKinds -> Nat]
      BY <1>21, SpendType DEF Crash, FaultKinds
    <2>3. ready' \in [Executions -> [RetryCounts -> Nat]]
      <3>1. ready' = ready \/ Requeue(w)
        BY <1>21 DEF Crash
      <3> QED
        BY <2>1, <3>1, RequeueType DEF TypeOK
    <2>4. lost' \in [Executions -> SUBSET LostCauses]
      <3>1. lost' = lost \/ Lose(job[w], "crash")
        BY <1>21 DEF Crash
      <3> QED
        BY <2>1, <3>1, LoseType DEF TypeOK, LostCauses
    <2>5. TypeOK'
      <3>1. Release(w) /\ pc' = [pc EXCEPT ![w] = "idle"]
        BY <1>21 DEF Crash
      <3>2. \A v \in Workers : pc'[v] = "idle" <=> job'[v] = None
        BY <3>1, ReleaseType DEF TypeOK
      <3>3. UNCHANGED <<dbVars, api>>
        BY <1>21 DEF Crash
      <3> QED
        BY <2>2, <2>3, <2>4, <3>1, <3>2, <3>3, ReleaseType DEF TypeOK
    <2>6. LocalsOK'
      BY <1>21 DEF TypeOK, Crash, Release, Attempts
    <2> QED
      BY <2>5, <2>6
  <1>22. ASSUME NEW w \in Workers, Disconnect(w) PROVE TypeInv'
    <2>1. job[w] \in Executions
      BY <1>22 DEF TypeOK, Disconnect
    <2>2. faults' \in [FaultKinds -> Nat]
      BY <1>22, SpendType DEF Disconnect, FaultKinds
    <2>3. ready' \in [Executions -> [RetryCounts -> Nat]]
      <3>1. ready' = ready \/ Requeue(w)
        BY <1>22 DEF Disconnect
      <3> QED
        BY <2>1, <3>1, RequeueType DEF TypeOK
    <2>4. TypeOK'
      BY <1>22, <2>1, <2>2, <2>3 DEF TypeOK, Disconnect
    <2>5. LocalsOK'
      BY <1>22 DEF TypeOK, Disconnect, Attempts
    <2> QED
      BY <2>4, <2>5
  <1>23. ASSUME NEW w \in Workers, LoseChild(w) PROVE TypeInv'
    <2>1. job[w] \in Executions
      BY <1>23 DEF TypeOK, LoseChild
    <2>2. faults' \in [FaultKinds -> Nat]
      BY <1>23, SpendType DEF LoseChild, FaultKinds
    <2>3. lost' \in [Executions -> SUBSET LostCauses]
      <3>1. lost' = lost \/ Lose(job[w], "childLost")
        BY <1>23 DEF LoseChild
      <3> QED
        BY <2>1, <3>1, LoseType DEF TypeOK, LostCauses
    <2>4. TypeOK'
      BY <1>23, <2>1, <2>2, <2>3 DEF TypeOK, LoseChild
    <2>5. LocalsOK'
      BY <1>23 DEF TypeOK, LoseChild, Attempts
    <2> QED
      BY <2>4, <2>5
  <1>24. ASSUME NEW w \in Workers, NEW cause \in {"redis", "db"}, Exception(w, cause)
        PROVE TypeInv'
    <2>1. job[w] \in Executions
      BY <1>24 DEF TypeOK, Exception
    <2>2. faults' \in [FaultKinds -> Nat]
      BY <1>24, SpendType DEF Exception, FaultKinds
    <2>3. lost' \in [Executions -> SUBSET LostCauses]
      <3>1. lost' = lost \/ Lose(job[w], cause)
        BY <1>24 DEF Exception
      <3> QED
        BY <2>1, <3>1, LoseType DEF TypeOK, LostCauses
    <2>4. TypeOK'
      BY <1>24, <2>1, <2>2, <2>3 DEF TypeOK, Exception
    <2>5. LocalsOK'
      BY <1>24 DEF TypeOK, Exception, Attempts
    <2> QED
      BY <2>4, <2>5
  <1>25. CASE UNCHANGED vars
    BY <1>25 DEF vars, TypeOK
  <1> QED
    BY <1>1, <1>2, <1>3, <1>4, <1>5, <1>6, <1>7, <1>8, <1>9, <1>10, <1>11, <1>12,
       <1>13, <1>14, <1>15, <1>16, <1>17, <1>18, <1>19, <1>20, <1>21, <1>22, <1>23,
       <1>24, <1>25
       DEF Next, ApiStep, WorkerStep, Fault, Quiescent

LEMMA TypeInit == Init => TypeInv
  BY ConstantsType, StagesType
     DEF Init, TypeInv, TypeOK, LocalsOK, ExecStatuses, StepStatuses,
         RetryCounts, Pcs, RunPcs, PublishPcs, DbPcs, LogPcs, StagePcs, OpenPcs,
         FailedPcs, DonePcs, Attempts

LEMMA TypeInvariant == Spec => []TypeInv
  <1>1. TypeInv /\ [Next]_vars => TypeInv'
    BY TypeStep
  <1> QED
    BY TypeInit, <1>1, PTL DEF Spec

\* No step takes a variable out of its range (TypeOK), whatever the number of
\* executions, workers and stages and whatever faults occur.
THEOREM TypeCorrect == Spec => []TypeOK
  BY TypeInvariant, PTL DEF TypeInv


----------------------------------------------------------------------------
\* A run in the middle of a stage has a row to write.
LEMMA RowType ==
  ASSUME TypeInv, NEW w \in Workers, pc[w] \in StagePcs \ {"number"}
  PROVE  /\ job[w] \in Executions
         /\ stage[w] \in DOMAIN Stages
         /\ Key(stage[w]) \in Keys
         /\ attempt[w] \in Attempts
  <1>1. job[w] \in Executions
    BY DEF TypeInv, TypeOK, StagePcs, OpenPcs, FailedPcs, DonePcs
  <1> QED
    BY <1>1, StagesType DEF TypeInv, LocalsOK

WritesRow(w, s) ==
    steps' = [steps EXCEPT ![job[w]][Key(stage[w])][attempt[w]] = s]

\* A run writes its own row and leaves the others alone.
LEMMA RowWrite ==
  ASSUME TypeInv, NEW w \in Workers, pc[w] \in StagePcs \ {"number"}, NEW s,
         WritesRow(w, s)
  PROVE  \A e \in Executions, k \in Keys, a \in Attempts :
            steps'[e][k][a] =
               IF e = job[w] /\ k = Key(stage[w]) /\ a = attempt[w]
               THEN s ELSE steps[e][k][a]
  <1>1. steps \in [Executions -> [Keys -> [Attempts -> StepStatuses]]]
    BY DEF TypeInv, TypeOK
  <1> QED
    BY <1>1, RowType DEF WritesRow

\* Only the INSERT of a step and the end of a stage write step rows.
LEMMA StepsFrame ==
  ASSUME [Next]_vars
  PROVE  \/ steps' = steps
         \/ \E w \in Workers : CreateStep(w) \/ RunStage(w)
  <1>1. ASSUME NEW w \in Workers, WorkerStep(w)
        PROVE  steps' = steps \/ CreateStep(w) \/ RunStage(w)
    BY <1>1
       DEF WorkerStep, dbVars, Load, BeginRun, CommitStart, Publish, CheckStage, NextAttempt,
           LogLine, MarkRetrying, MarkFailed, MarkSucceeded, WriteStatus, LogCompleted,
           AutoRetry, Ack
  <1>2. ASSUME NEW w \in Workers, Fault(w) PROVE steps' = steps
    BY <1>2 DEF Fault, dbVars, Crash, Disconnect, LoseChild, Exception
  <1>3. ASSUME NEW e \in Executions,
               \/ CreateExecution(e) \/ ApiStep(e) \/ AbortTrigger(e)
               \/ \E w \in Workers : Deliver(w, e)
        PROVE  steps' = steps
    BY <1>3 DEF ApiStep, dbVars, CreateExecution, SendTask, CommitTrigger, AbortTrigger, Deliver
  <1>4. Quiescent \/ UNCHANGED vars => steps' = steps
    BY DEF Quiescent, vars, dbVars
  <1> QED
    BY <1>1, <1>2, <1>3, <1>4 DEF Next

\* A verdict is never rewritten and a row never disappears.
LEMMA RowsOnlyMature ==
  ASSUME TypeInv, StepInv, [Next]_vars
  PROVE  \A e \in Executions, k \in Keys, a \in Attempts :
            /\ steps[e][k][a] \in {"succeeded", "failed"}
                  => steps'[e][k][a] = steps[e][k][a]
            /\ steps[e][k][a] # "absent" => steps'[e][k][a] # "absent"
  <1>1. CASE steps' = steps
    BY <1>1
  <1>2. ASSUME NEW w \in Workers, CreateStep(w), steps' # steps
        PROVE  \A e \in Executions, k \in Keys, a \in Attempts :
            /\ steps[e][k][a] \in {"succeeded", "failed"}
                  => steps'[e][k][a] = steps[e][k][a]
            /\ steps[e][k][a] # "absent" => steps'[e][k][a] # "absent"
    <2>1. /\ pc[w] \in StagePcs \ {"number"}
          /\ steps[job[w]][Key(stage[w])][attempt[w]] = "absent"
          /\ WritesRow(w, "running")
      BY <1>2 DEF CreateStep, WritesRow, Goto, StagePcs
    <2>2. \A e \in Executions, k \in Keys, a \in Attempts :
            steps'[e][k][a] =
               IF e = job[w] /\ k = Key(stage[w]) /\ a = attempt[w]
               THEN "running" ELSE steps[e][k][a]
      BY <1>2, <2>1, RowWrite
    <2> QED
      BY <2>1, <2>2
  <1>3. ASSUME NEW w \in Workers, RunStage(w)
        PROVE  \A e \in Executions, k \in Keys, a \in Attempts :
            /\ steps[e][k][a] \in {"succeeded", "failed"}
                  => steps'[e][k][a] = steps[e][k][a]
            /\ steps[e][k][a] # "absent" => steps'[e][k][a] # "absent"
    <2>1. PICK s \in {"succeeded", "failed"} :
            /\ pc[w] \in StagePcs \ {"number"}
            /\ steps[job[w]][Key(stage[w])][attempt[w]] = "running"
            /\ WritesRow(w, s)
      BY <1>3 DEF RunStage, FinishStep, WritesRow, Outcomes, StepInv, RunInv, RowHeld, StagePcs, OpenPcs
    <2>2. \A e \in Executions, k \in Keys, a \in Attempts :
            steps'[e][k][a] =
               IF e = job[w] /\ k = Key(stage[w]) /\ a = attempt[w]
               THEN s ELSE steps[e][k][a]
      BY <1>3, <2>1, RowWrite
    <2> QED
      BY <2>1, <2>2
  <1> QED
    BY <1>1, <1>2, <1>3, StepsFrame

\* Hence a succeeded stage stays succeeded.
LEMMA SuccessIsStable ==
  ASSUME TypeInv, StepInv, [Next]_vars, NEW e \in Executions, NEW k \in Keys,
         Succeeded(e, k)
  PROVE  Succeeded(e, k)'
  BY RowsOnlyMature DEF Succeeded

----------------------------------------------------------------------------
Moves(w) == WorkerStep(w) \/ Fault(w) \/ \E e \in Executions : Deliver(w, e)

Still(v) ==
    /\ pc'[v] = pc[v]
    /\ job'[v] = job[v]
    /\ stage'[v] = stage[v]
    /\ attempt'[v] = attempt[v]

\* A step moves at most one worker.
LEMMA OthersStill ==
  ASSUME TypeInv, NEW w \in Workers, Moves(w), NEW v \in Workers, v # w
  PROVE  Still(v)
  <1> USE DEF Still, TypeInv, TypeOK, Goto, taskVars, workerVars
  <1>1. ASSUME NEW e \in Executions, Deliver(w, e) PROVE Still(v)
    BY <1>1 DEF Deliver
  <1>2. CASE Fault(w)
    BY <1>2 DEF Fault, Crash, Disconnect, LoseChild, Exception, Release
  <1>3. CASE Load(w) \/ BeginRun(w) \/ CommitStart(w) \/ Publish(w) \/ CheckStage(w)
    BY <1>3 DEF Load, BeginRun, CommitStart, Publish, CheckStage
  <1>4. CASE NextAttempt(w) \/ CreateStep(w) \/ LogLine(w) \/ RunStage(w) \/ LogCompleted(w)
    BY <1>4 DEF NextAttempt, CreateStep, LogLine, RunStage, FinishStep, LogCompleted
  <1>5. CASE MarkRetrying(w) \/ MarkFailed(w) \/ MarkSucceeded(w)
    BY <1>5 DEF MarkRetrying, MarkFailed, MarkSucceeded, WriteStatus
  <1>6. CASE AutoRetry(w) \/ Ack(w)
    BY <1>6 DEF AutoRetry, Ack, Release
  <1> QED
    BY <1>1, <1>2, <1>3, <1>4, <1>5, <1>6 DEF Moves, WorkerStep

\* The API and idling move no worker.
LEMMA NextCases ==
  ASSUME [Next]_vars
  PROVE  \/ \E w \in Workers : Moves(w)
         \/ UNCHANGED workerVars /\ UNCHANGED <<steps, logs>>
  BY DEF Next, ApiStep, Quiescent, vars, dbVars, CreateExecution, SendTask,
         CommitTrigger, AbortTrigger, Moves

\* Stages already passed stay succeeded.
LEMMA StagesStayPassed ==
  ASSUME TypeInv, StepInv, [Next]_vars, NEW w \in Workers, pc[w] # "idle",
         NEW e \in Executions, e = job[w], NEW i \in 1..(stage[w] - 1)
  PROVE  Succeeded(e, Key(i))'
  <1>1. stage[w] \in 1..(Len(Stages) + 1)
    BY DEF TypeInv, TypeOK
  <1>2. Key(i) \in Keys
    BY <1>1, StagesType
  <1>3. Succeeded(e, Key(i))
    BY DEF StepInv, RunInv, StagesPassed
  <1> QED
    BY <1>2, <1>3, SuccessIsStable

\* What a run knows stays true while others move.
LEMMA StillRun ==
  ASSUME TypeInv, StepInv, [Next]_vars, NEW v \in Workers, Still(v)
  PROVE  RunInv(v)'
  <1>1. RunInv(v)
    BY DEF StepInv
  <1>2. AttemptIsNext(v)'
    <2> SUFFICES ASSUME pc[v] = "create", NEW b \in 1..(attempt[v] - 1)
                 PROVE  steps'[job[v]][Key(stage[v])][b] # "absent"
      BY DEF Still, AttemptIsNext
    <2>1. pc[v] \in StagePcs \ {"number"}
      BY DEF StagePcs
    <2>2. /\ job[v] \in Executions
          /\ Key(stage[v]) \in Keys
          /\ attempt[v] \in Attempts
      BY <2>1, RowType
    <2>3. b \in Attempts
      BY <2>2, ConstantsType DEF Attempts
    <2> QED
      BY <1>1, <2>2, <2>3, RowsOnlyMature DEF RunInv, AttemptIsNext
  <1>3. StagesPassed(v)'
    <2> SUFFICES ASSUME pc[v] # "idle", NEW i \in 1..(stage[v] - 1)
                 PROVE  Succeeded(job[v], Key(i))'
      BY DEF Still, StagesPassed, Succeeded
    <2>1. job[v] \in Executions /\ i \in DOMAIN Stages
      BY StagesType DEF TypeInv, TypeOK
    <2>2. Succeeded(job[v], Key(i))
      BY <1>1 DEF RunInv, StagesPassed
    <2> QED
      BY <2>1, <2>2, StagesType, SuccessIsStable, Key(i) \in Keys DEF Still, Succeeded
  <1>4. RowHeld(v)'
    <2> SUFFICES ASSUME pc[v] \in OpenPcs \cup FailedPcs \cup DonePcs
                 PROVE  RowHeld(v)'
      BY DEF Still, RowHeld
    <2> DEFINE row == steps[job[v]][Key(stage[v])][attempt[v]]
    <2>1. /\ job[v] \in Executions
          /\ Key(stage[v]) \in Keys
          /\ attempt[v] \in Attempts
      BY RowType DEF StagePcs, OpenPcs, FailedPcs, DonePcs
    <2>2. RowHeld(v)
      BY <1>1 DEF RunInv
    <2>3. CASE pc[v] \notin OpenPcs
      <3>1. row' = row
        BY <2>1, <2>2, <2>3, RowsOnlyMature DEF RowHeld, Still
      <3> QED
        BY <2>2, <3>1 DEF RowHeld, Still
    <2>4. CASE pc[v] \in OpenPcs
      <3>1. row = "running"
        BY <2>2, <2>4 DEF RowHeld
      <3>2. row' = "running"
        <4>1. CASE steps' = steps
          BY <3>1, <4>1 DEF Still
        <4>2. ASSUME NEW w \in Workers, CreateStep(w) \/ RunStage(w), steps' # steps
              PROVE  row' = "running"
          <5>1. w # v
            BY <2>4, <4>2 DEF Still, CreateStep, RunStage, FinishStep, Goto, OpenPcs, TypeInv, TypeOK
          <5>2. PICK s \in StepStatuses : WritesRow(w, s)
            BY <4>2 DEF CreateStep, RunStage, FinishStep, WritesRow, Outcomes, StepStatuses
          <5>3. /\ pc[w] \in StagePcs \ {"number"}
                /\ \/ pc[w] \in OpenPcs
                   \/ steps[job[w]][Key(stage[w])][attempt[w]] = "absent"
            BY <4>2 DEF CreateStep, RunStage, FinishStep, Goto, StagePcs, OpenPcs
          <5>4. ~(/\ job[v] = job[w]
                  /\ Key(stage[v]) = Key(stage[w])
                  /\ attempt[v] = attempt[w])
            BY <2>4, <3>1, <4>2, <5>1, <5>3 DEF StepInv, OneRunPerRow
          <5>5. row = steps'[job[v]][Key(stage[v])][attempt[v]]
            BY <2>1, <4>2, <5>2, <5>3, <5>4, RowWrite
          <5> QED
            BY <3>1, <5>5 DEF Still
        <4> QED
          BY <4>1, <4>2, StepsFrame
      <3> QED
        BY <2>4, <3>2 DEF RowHeld, Still, OpenPcs, FailedPcs, DonePcs
    <2> QED
      BY <2>3, <2>4
  <1> QED
    BY <1>2, <1>3, <1>4 DEF RunInv

\* Every step of a run leaves it knowing what it needs to know.
LEMMA OwnRun ==
  ASSUME TypeInv, StepInv, AttemptsContiguous, NEW w \in Workers, Moves(w), [Next]_vars
  PROVE  RunInv(w)'
  <1> USE DEF Goto, taskVars, dbVars, OpenPcs, FailedPcs, DonePcs
  <1>0. RunInv(w) /\ pc \in [Workers -> Pcs]
    BY DEF StepInv, TypeInv, TypeOK
  <1>a. steps' = steps => \A e, k : Succeeded(e, k)' = Succeeded(e, k)
    BY DEF Succeeded
  <1>1. ASSUME NEW e \in Executions, Deliver(w, e) PROVE RunInv(w)'
    <2>1. stage'[w] = 1 /\ pc'[w] = "load"
      BY <1>0, <1>1 DEF Deliver, TypeInv, LocalsOK
    <2> QED
      BY <2>1 DEF RunInv, RowHeld, StagesPassed, AttemptIsNext
  <1>2. CASE Ack(w) \/ Crash(w)
    <2>1. pc'[w] = "idle"
      BY <1>0, <1>2 DEF Ack, Crash
    <2> QED
      BY <2>1 DEF RunInv, RowHeld, StagesPassed, AttemptIsNext
  <1>3. CASE \/ Load(w) \/ BeginRun(w) \/ CommitStart(w)
             \/ LogCompleted(w) \/ AutoRetry(w)
    BY <1>0, <1>3, <1>a
       DEF RunInv, RowHeld, StagesPassed, AttemptIsNext, Succeeded,
           Load, BeginRun, CommitStart, LogCompleted, AutoRetry
  <1>4. CASE Disconnect(w) \/ LoseChild(w) \/ \E c \in {"redis", "db"} : Exception(w, c)
    BY <1>0, <1>4, <1>a
       DEF RunInv, RowHeld, StagesPassed, AttemptIsNext, Succeeded,
           Disconnect, LoseChild, Exception, RunPcs, PublishPcs, DbPcs, LogPcs
  <1>5. CASE MarkRetrying(w) \/ MarkFailed(w) \/ MarkSucceeded(w)
    BY <1>0, <1>5, <1>a
       DEF RunInv, RowHeld, StagesPassed, AttemptIsNext, Succeeded,
           MarkRetrying, MarkFailed, MarkSucceeded, WriteStatus
  <1>6. CASE LogLine(w)
    BY <1>0, <1>6
       DEF RunInv, RowHeld, StagesPassed, AttemptIsNext, Succeeded,
           LogLine, AfterLog, LogPcs
  <1>7. CASE Publish(w)
    <2>1. /\ pc'[w] = AfterPublish(pc[w]) /\ pc[w] \in PublishPcs
          /\ job' = job /\ attempt' = attempt /\ steps' = steps
      BY <1>0, <1>7 DEF Publish
    <2>2. CASE pc[w] = "pubLogCompleted"
      <3>1. pc'[w] = "check" /\ stage'[w] = stage[w] + 1
        BY <1>7, <2>1, <2>2 DEF Publish, AfterPublish, TypeInv, TypeOK
      <3>2. Succeeded(job[w], Key(stage[w]))
        BY <1>0, <2>2, RowType DEF RunInv, RowHeld, Succeeded, StagePcs
      <3>3. \A i \in 1..stage[w] : Succeeded(job[w], Key(i))
        BY <1>0, <2>2, <3>2 DEF RunInv, StagesPassed, TypeInv, TypeOK
      <3>4. \A i \in 1..(stage'[w] - 1) : Succeeded(job[w], Key(i))'
        BY <2>1, <3>1, <3>3 DEF Succeeded, TypeInv, TypeOK
      <3> QED
        BY <3>1, <3>4 DEF RunInv, RowHeld, StagesPassed, AttemptIsNext
    <2>3. CASE pc[w] # "pubLogCompleted"
      <3>1. stage'[w] = stage[w]
        BY <1>7, <2>3 DEF Publish, TypeInv, TypeOK
      <3> QED
        BY <1>0, <2>1, <2>3, <3>1
           DEF RunInv, RowHeld, StagesPassed, AttemptIsNext, Succeeded,
               AfterPublish, PublishPcs
    <2> QED
      BY <2>2, <2>3
  <1>8. CASE CheckStage(w)
    <2>1. /\ job' = job /\ attempt' = attempt /\ steps' = steps
          /\ pc[w] = "check" /\ pc'[w] \in {"check", "number"}
      BY <1>0, <1>8 DEF CheckStage
    <2>2. \A i \in 1..(stage'[w] - 1) : Succeeded(job[w], Key(i))
      <3>1. CASE Succeeded(job[w], Key(stage[w]))
        <4>1. stage'[w] = stage[w] + 1
          BY <1>8, <3>1 DEF CheckStage, TypeInv, TypeOK
        <4> QED
          BY <1>0, <2>1, <3>1, <4>1 DEF RunInv, StagesPassed, TypeInv, TypeOK
      <3>2. CASE ~Succeeded(job[w], Key(stage[w]))
        <4>1. stage'[w] = stage[w]
          BY <1>8, <3>2 DEF CheckStage, TypeInv, TypeOK
        <4> QED
          BY <1>0, <2>1, <4>1 DEF RunInv, StagesPassed
      <3> QED
        BY <3>1, <3>2
    <2> QED
      BY <2>1, <2>2 DEF RunInv, RowHeld, StagesPassed, AttemptIsNext, Succeeded
  <1>9. CASE NextAttempt(w)
    <2>1. /\ job' = job /\ stage' = stage /\ steps' = steps
          /\ pc[w] = "number" /\ pc'[w] = "create"
      BY <1>0, <1>9 DEF NextAttempt
    <2>2. PICK n \in 0..(MaxAttempts - 1) :
            /\ IsLastAttempt(job[w], Key(stage[w]), n)
            /\ attempt'[w] = n + 1
      BY <1>9 DEF NextAttempt, TypeInv, TypeOK
    <2>3. \A b \in 1..n : steps[job[w]][Key(stage[w])][b] # "absent"
      <3>1. job[w] \in Executions /\ Key(stage[w]) \in Keys
        BY <2>1, StagesType DEF TypeInv, TypeOK, LocalsOK, StagePcs
      <3>2. n # 0 => n \in Attempts /\ steps[job[w]][Key(stage[w])][n] # "absent"
        BY <2>2, ConstantsType DEF IsLastAttempt, Attempts
      <3> QED
        BY <3>1, <3>2 DEF AttemptsContiguous
    <2> QED
      BY <1>0, <2>1, <2>2, <2>3
         DEF RunInv, RowHeld, StagesPassed, AttemptIsNext, Succeeded
  <1>10. CASE CreateStep(w)
    <2>1. /\ job' = job /\ stage' = stage /\ attempt' = attempt
          /\ pc[w] = "create" /\ pc'[w] \in {"pubStep", "ack"}
      BY <1>0, <1>10 DEF CreateStep
    <2>2. pc'[w] = "pubStep" => WritesRow(w, "running")
      BY <1>0, <1>10 DEF CreateStep, WritesRow
    <2>3. RowHeld(w)'
      BY <2>1, <2>2, RowWrite, RowType DEF RowHeld, StagePcs
    <2>4. StagesPassed(w)'
      BY <2>1, RowType, StagesStayPassed DEF StagesPassed, StagePcs
    <2> QED
      BY <2>1, <2>3, <2>4 DEF RunInv, AttemptIsNext
  <1>11. CASE RunStage(w)
    <2>1. /\ job' = job /\ stage' = stage /\ attempt' = attempt
          /\ pc[w] = "simulate"
      BY <1>11 DEF RunStage, FinishStep
    <2>2. \/ pc'[w] = "pubFailed" /\ WritesRow(w, "failed")
          \/ pc'[w] = "pubSucceeded" /\ WritesRow(w, "succeeded")
      BY <1>0, <1>11 DEF RunStage, FinishStep, Outcomes, WritesRow
    <2>3. RowHeld(w)'
      BY <2>1, <2>2, RowWrite, RowType DEF RowHeld, StagePcs
    <2>4. StagesPassed(w)'
      BY <2>1, RowType, StagesStayPassed DEF StagesPassed, StagePcs
    <2> QED
      BY <2>1, <2>2, <2>3, <2>4 DEF RunInv, AttemptIsNext
  <1> QED
    BY <1>1, <1>2, <1>3, <1>4, <1>5, <1>6, <1>7, <1>8, <1>9, <1>10, <1>11
       DEF Moves, WorkerStep, Fault

\* The unique key keeps the rows of two runs apart.
LEMMA RowsApart ==
  ASSUME TypeInv, StepInv, [Next]_vars
  PROVE  OneRunPerRow'
  <1> DEFINE Same(v, w) == /\ job[v] = job[w]
                           /\ Key(stage[v]) = Key(stage[w])
                           /\ attempt[v] = attempt[w]
             Opens(v) == CreateStep(v) /\ WritesRow(v, "running")
                         /\ steps[job[v]][Key(stage[v])][attempt[v]] = "absent"
  <1>1. ASSUME NEW v \in Workers, pc'[v] \in OpenPcs
        PROVE  /\ stage'[v] = stage[v] /\ attempt'[v] = attempt[v] /\ job'[v] = job[v]
               /\ pc[v] \in OpenPcs \/ Opens(v)
    <2>1. CASE Still(v)
      BY <1>1, <2>1 DEF Still
    <2>2. CASE Moves(v)
      <3> USE DEF TypeInv, TypeOK, Goto, OpenPcs, taskVars
      <3>1. CASE CreateStep(v)
        BY <1>1, <3>1 DEF CreateStep, WritesRow
      <3>2. CASE Publish(v) \/ LogLine(v) \/ Disconnect(v)
        BY <1>1, <3>2 DEF Publish, AfterPublish, PublishPcs, LogLine, AfterLog, LogPcs, Disconnect
      <3>3. ASSUME NEW e \in Executions, Deliver(v, e) PROVE FALSE
        BY <1>1, <3>3 DEF Deliver
      <3>4. CASE \/ Load(v) \/ BeginRun(v) \/ CommitStart(v) \/ CheckStage(v)
                 \/ NextAttempt(v) \/ RunStage(v) \/ LogCompleted(v) \/ AutoRetry(v)
                 \/ Ack(v) \/ Crash(v) \/ LoseChild(v)
        BY <1>1, <3>4
           DEF Load, BeginRun, CommitStart, CheckStage, NextAttempt, RunStage, FinishStep,
               LogCompleted, AutoRetry, Ack, Crash, LoseChild
      <3>5. CASE MarkRetrying(v) \/ MarkFailed(v) \/ MarkSucceeded(v)
                 \/ \E c \in {"redis", "db"} : Exception(v, c)
        BY <1>1, <3>5 DEF MarkRetrying, MarkFailed, MarkSucceeded, Exception
      <3> QED
        BY <2>2, <3>1, <3>2, <3>3, <3>4, <3>5 DEF Moves, WorkerStep, Fault
    <2> QED
      BY <1>1, <2>1, <2>2, OthersStill, NextCases DEF Still, workerVars
  <1>2. ASSUME NEW v \in Workers, NEW w \in Workers, v # w, Opens(v), Same(v, w)
        PROVE  pc'[w] \notin OpenPcs
    <2>1. Moves(v)
      BY <1>2 DEF Moves, WorkerStep
    <2>2. Still(w)
      BY <1>2, <2>1, OthersStill
    <2>3. pc[w] \notin OpenPcs
      BY <1>2 DEF StepInv, RunInv, RowHeld
    <2> QED
      BY <2>2, <2>3 DEF Still
  <1> QED
    BY <1>1, <1>2 DEF OneRunPerRow, StepInv

LEMMA StepInvStep ==
  ASSUME TypeInv, StepInv, AttemptsContiguous, [Next]_vars
  PROVE  StepInv'
  <1>1. ASSUME NEW v \in Workers PROVE RunInv(v)'
    <2>1. CASE Moves(v)
      BY <1>1, <2>1, OwnRun
    <2>2. CASE ~Moves(v)
      <3>1. Still(v)
        BY <1>1, <2>2, OthersStill, NextCases DEF Still, workerVars
      <3> QED
        BY <1>1, <3>1, StillRun
    <2> QED
      BY <2>1, <2>2
  <1> QED
    BY <1>1, RowsApart, TypeStep DEF StepInv, TypeInv

----------------------------------------------------------------------------
\* The four facts about rows and statuses.
LEMMA OrderStep ==
  ASSUME TypeInv, StepInv, StagesInOrder, [Next]_vars
  PROVE  StagesInOrder'
  <1> SUFFICES ASSUME NEW e \in Executions, NEW k \in Keys, NEW a \in Attempts,
                      steps'[e][k][a] # "absent"
               PROVE  \E i \in DOMAIN Stages :
                         /\ Key(i) = k
                         /\ \A j \in 1..(i - 1) : Succeeded(e, Key(j))'
    BY DEF StagesInOrder
  <1>1. CASE steps[e][k][a] # "absent"
    <2>1. PICK i \in DOMAIN Stages :
            /\ Key(i) = k
            /\ \A j \in 1..(i - 1) : Succeeded(e, Key(j))
      BY <1>1 DEF StagesInOrder
    <2>2. ASSUME NEW j \in 1..(i - 1) PROVE Succeeded(e, Key(j))'
      BY <2>1, <2>2, StagesType, SuccessIsStable
    <2> QED
      BY <2>1, <2>2
  <1>2. CASE steps[e][k][a] = "absent"
    <2>1. PICK w \in Workers : CreateStep(w) \/ RunStage(w)
      BY <1>2, StepsFrame
    <2>2. PICK s \in StepStatuses : WritesRow(w, s)
      BY <1>2, <2>1 DEF CreateStep, RunStage, FinishStep, WritesRow, Outcomes, StepStatuses
    <2>3. pc[w] \in StagePcs \ {"number"}
      BY <2>1 DEF CreateStep, RunStage, FinishStep, Goto, StagePcs, OpenPcs
    <2>4. e = job[w] /\ k = Key(stage[w])
      BY <1>2, <2>2, <2>3, RowWrite
    <2>5. stage[w] \in DOMAIN Stages
      BY <2>3, RowType
    <2>6. pc[w] # "idle"
      BY <2>1 DEF CreateStep, RunStage, FinishStep, Goto
    <2>7. ASSUME NEW j \in 1..(stage[w] - 1) PROVE Succeeded(e, Key(j))'
      BY <2>4, <2>6, <2>7, StagesStayPassed
    <2> QED
      BY <2>4, <2>5, <2>7
  <1> QED
    BY <1>1, <1>2

LEMMA ContiguousStep ==
  ASSUME TypeInv, StepInv, AttemptsContiguous, [Next]_vars
  PROVE  AttemptsContiguous'
  <1> SUFFICES ASSUME NEW e \in Executions, NEW k \in Keys, NEW a \in Attempts,
                      steps'[e][k][a] # "absent", NEW b \in 1..a
               PROVE  steps'[e][k][b] # "absent"
    BY DEF AttemptsContiguous
  <1>0. b \in Attempts
    BY ConstantsType DEF Attempts
  <1>1. CASE steps[e][k][a] # "absent"
    BY <1>0, <1>1, RowsOnlyMature DEF AttemptsContiguous
  <1>2. CASE steps[e][k][a] = "absent" /\ b # a
    <2>1. PICK w \in Workers : CreateStep(w) \/ RunStage(w)
      BY <1>2, StepsFrame
    <2>2. PICK s \in StepStatuses : WritesRow(w, s)
      BY <1>2, <2>1 DEF CreateStep, RunStage, FinishStep, WritesRow, Outcomes, StepStatuses
    <2>3. pc[w] \in StagePcs \ {"number"}
      BY <2>1 DEF CreateStep, RunStage, FinishStep, Goto, StagePcs, OpenPcs
    <2>4. e = job[w] /\ k = Key(stage[w]) /\ a = attempt[w]
      BY <1>2, <2>2, <2>3, RowWrite
    <2>5. pc[w] = "create"
      BY <1>2, <2>1, <2>4 DEF CreateStep, RunStage, FinishStep, Goto, OpenPcs, StepInv, RunInv, RowHeld
    <2>6. b \in 1..(attempt[w] - 1)
      BY <1>2, <2>4, ConstantsType DEF Attempts
    <2>7. steps[e][k][b] # "absent"
      BY <2>4, <2>5, <2>6 DEF StepInv, RunInv, AttemptIsNext
    <2> QED
      BY <1>0, <2>7, RowsOnlyMature
  <1>3. CASE b = a
    BY <1>3
  <1> QED
    BY <1>1, <1>2, <1>3

\* Which steps write the status of an execution, and with what.
LEMMA StatusFrame ==
  ASSUME TypeInv, [Next]_vars, NEW e \in Executions, exec'[e].status # exec[e].status
  PROVE  \/ CommitTrigger(e) /\ exec'[e].status = "queued"
         \/ \E w \in Workers :
               /\ job[w] = e
               /\ \/ CommitStart(w) /\ exec'[e].status = "running"
                  \/ MarkRetrying(w) /\ exec'[e].status = "retrying"
                  \/ MarkFailed(w) /\ exec'[e].status = "failed"
                  \/ MarkSucceeded(w) /\ exec'[e].status = "succeeded"
  <1> USE DEF TypeInv, TypeOK, dbVars
  <1>1. CASE exec' = exec
    BY <1>1
  <1>2. ASSUME NEW x \in Executions, CommitTrigger(x) PROVE CommitTrigger(e) /\ exec'[e].status = "queued"
    BY <1>2 DEF CommitTrigger
  <1>3. ASSUME NEW w \in Workers, CommitStart(w) PROVE job[w] = e /\ exec'[e].status = "running"
    BY <1>3 DEF CommitStart, Goto
  <1>4. ASSUME NEW w \in Workers, MarkRetrying(w) PROVE job[w] = e /\ exec'[e].status = "retrying"
    BY <1>4 DEF MarkRetrying, WriteStatus, Goto
  <1>5. ASSUME NEW w \in Workers, MarkFailed(w) PROVE job[w] = e /\ exec'[e].status = "failed"
    BY <1>5 DEF MarkFailed, WriteStatus, Goto
  <1>6. ASSUME NEW w \in Workers, MarkSucceeded(w) PROVE job[w] = e /\ exec'[e].status = "succeeded"
    BY <1>6 DEF MarkSucceeded, WriteStatus, Goto
  <1>7. \/ exec' = exec
        \/ \E x \in Executions : CommitTrigger(x)
        \/ \E w \in Workers : CommitStart(w) \/ MarkRetrying(w) \/ MarkFailed(w) \/ MarkSucceeded(w)
    BY DEF Next, ApiStep, WorkerStep, Fault, Quiescent, vars,
         CreateExecution, SendTask, AbortTrigger, Deliver, Load,
         BeginRun, Publish, CheckStage, NextAttempt, CreateStep, LogLine, RunStage, FinishStep,
         LogCompleted, AutoRetry, Ack, Crash, Disconnect, LoseChild, Exception
  <1> QED
    BY <1>1, <1>2, <1>3, <1>4, <1>5, <1>6, <1>7

LEMMA SucceededStep ==
  ASSUME TypeInv, StepInv, SucceededMeansAllStages, [Next]_vars
  PROVE  SucceededMeansAllStages'
  <1> SUFFICES ASSUME NEW e \in Executions, exec'[e].status = "succeeded",
                      NEW i \in DOMAIN Stages
               PROVE  Succeeded(e, Key(i))'
    BY DEF SucceededMeansAllStages
  <1>1. CASE exec[e].status = "succeeded"
    BY <1>1, StagesType, SuccessIsStable DEF SucceededMeansAllStages
  <1>2. CASE exec[e].status # "succeeded"
    <2>1. PICK w \in Workers : job[w] = e /\ MarkSucceeded(w)
      BY <1>2, StatusFrame
    <2>2. pc[w] # "idle" /\ i \in 1..(stage[w] - 1)
      BY <2>1, StagesType DEF MarkSucceeded, Goto, TypeInv, TypeOK
    <2> QED
      BY <2>1, <2>2, StagesStayPassed
  <1> QED
    BY <1>1, <1>2

LEMMA FailedStep ==
  ASSUME TypeInv, StepInv, FailedOnlyAfterBudget, [Next]_vars
  PROVE  FailedOnlyAfterBudget'
  <1> SUFFICES ASSUME NEW e \in Executions, exec'[e].status = "failed"
               PROVE  \E k \in Keys, a \in Attempts :
                         a >= MaxStageRetries /\ steps'[e][k][a] = "failed"
    BY DEF FailedOnlyAfterBudget
  <1>1. CASE exec[e].status = "failed"
    BY <1>1, RowsOnlyMature DEF FailedOnlyAfterBudget
  <1>2. CASE exec[e].status # "failed"
    <2>1. PICK w \in Workers : job[w] = e /\ MarkFailed(w)
      BY <1>2, StatusFrame
    <2>2. pc[w] \in FailedPcs /\ pc[w] \in StagePcs \ {"number"}
      BY <2>1 DEF MarkFailed, Goto, FailedPcs, StagePcs
    <2>3. steps[e][Key(stage[w])][attempt[w]] = "failed"
      BY <2>1, <2>2 DEF StepInv, RunInv, RowHeld
    <2>4. attempt[w] >= MaxStageRetries
      BY <2>1 DEF MarkFailed
    <2> QED
      BY <2>2, <2>3, <2>4, RowType, RowsOnlyMature
  <1> QED
    BY <1>1, <1>2

\* Only add_log writes the lines of a step, one per call.
LEMMA LogsFrame ==
  ASSUME TypeInv, [Next]_vars, NEW e \in Executions, NEW k \in Keys,
         NEW a \in Attempts, NEW l \in logs'[e][k][a], l \notin logs[e][k][a]
  PROVE  \E w \in Workers :
            /\ LogLine(w)
            /\ job[w] = e /\ Key(stage[w]) = k /\ attempt[w] = a /\ l = Line(pc[w])
  <1>1. ASSUME NEW w \in Workers, LogLine(w)
        PROVE  job[w] = e /\ Key(stage[w]) = k /\ attempt[w] = a /\ l = Line(pc[w])
    <2>1. logs \in [Executions -> [Keys -> [Attempts -> SUBSET StepLines]]]
      BY DEF TypeInv, TypeOK
    <2>2. /\ job[w] \in Executions
          /\ Key(stage[w]) \in Keys
          /\ attempt[w] \in Attempts
      BY <1>1, RowType DEF LogLine, LogPcs, StagePcs, OpenPcs, FailedPcs, DonePcs
    <2>3. logs' = [logs EXCEPT ![job[w]][Key(stage[w])][attempt[w]] = @ \cup {Line(pc[w])}]
      BY <1>1 DEF LogLine
    <2>4. \A v : [logs EXCEPT ![job[w]][Key(stage[w])][attempt[w]] = v][e][k][a] =
                   IF e = job[w] /\ k = Key(stage[w]) /\ a = attempt[w]
                   THEN v ELSE logs[e][k][a]
      BY <2>1, <2>2
    <2> QED
      BY <2>3, <2>4
  <1>2. ASSUME NEW w \in Workers, WorkerStep(w) PROVE logs' = logs \/ LogLine(w)
    BY <1>2
       DEF WorkerStep, dbVars, Load, BeginRun, CommitStart, Publish, CheckStage, NextAttempt,
           CreateStep, RunStage, FinishStep, MarkRetrying, MarkFailed, MarkSucceeded,
           WriteStatus, LogCompleted, AutoRetry, Ack
  <1>3. ASSUME NEW w \in Workers, Fault(w) PROVE logs' = logs
    BY <1>3 DEF Fault, dbVars, Crash, Disconnect, LoseChild, Exception
  <1>4. ASSUME NEW x \in Executions,
               \/ CreateExecution(x) \/ ApiStep(x) \/ AbortTrigger(x)
               \/ \E w \in Workers : Deliver(w, x)
        PROVE  logs' = logs
    BY <1>4 DEF ApiStep, dbVars, CreateExecution, SendTask, CommitTrigger, AbortTrigger, Deliver
  <1>5. Quiescent \/ UNCHANGED vars => logs' = logs
    BY DEF Quiescent, vars, dbVars
  <1> QED
    BY <1>1, <1>2, <1>3, <1>4, <1>5 DEF Next

LEMMA LogsStep ==
  ASSUME TypeInv, StepInv, LogsNeverAhead, [Next]_vars
  PROVE  LogsNeverAhead'
  <1> SUFFICES ASSUME NEW e \in Executions, NEW k \in Keys, NEW a \in Attempts
               PROVE  /\ "started"   \in logs'[e][k][a] => steps'[e][k][a] # "absent"
                      /\ "failed"    \in logs'[e][k][a] => steps'[e][k][a] = "failed"
                      /\ "completed" \in logs'[e][k][a] => steps'[e][k][a] = "succeeded"
    BY DEF LogsNeverAhead
  <1>1. ASSUME NEW l \in logs'[e][k][a], l \notin logs[e][k][a]
        PROVE  /\ l = "started"   => steps[e][k][a] # "absent"
               /\ l = "failed"    => steps[e][k][a] = "failed"
               /\ l = "completed" => steps[e][k][a] = "succeeded"
    <2>1. PICK w \in Workers :
            /\ LogLine(w)
            /\ job[w] = e /\ Key(stage[w]) = k /\ attempt[w] = a /\ l = Line(pc[w])
      BY <1>1, LogsFrame
    <2> QED
      BY <2>1 DEF LogLine, LogPcs, Line, StepInv, RunInv, RowHeld, OpenPcs, FailedPcs, DonePcs
  <1>2. ASSUME NEW l \in {"started", "failed", "completed"}, l \in logs'[e][k][a]
        PROVE  /\ l = "started"   => steps[e][k][a] # "absent"
               /\ l = "failed"    => steps[e][k][a] = "failed"
               /\ l = "completed" => steps[e][k][a] = "succeeded"
    BY <1>1, <1>2 DEF LogsNeverAhead
  <1> QED
    BY <1>2, RowsOnlyMature

----------------------------------------------------------------------------
SafetyInv ==
    /\ TypeInv
    /\ StepInv
    /\ AttemptsContiguous
    /\ StagesInOrder
    /\ SucceededMeansAllStages
    /\ FailedOnlyAfterBudget
    /\ LogsNeverAhead

LEMMA SafetyInit == Init => SafetyInv
  <1> SUFFICES ASSUME Init PROVE SafetyInv
    OBVIOUS
  <1>1. TypeInv
    BY TypeInit
  <1>2. \A w \in Workers : pc[w] = "idle"
    BY DEF Init
  <1>3. StepInv
    BY <1>1, <1>2 DEF StepInv, TypeInv, OneRunPerRow, RunInv, RowHeld, StagesPassed,
                      AttemptIsNext, OpenPcs, FailedPcs, DonePcs
  <1>4. \A e \in Executions, k \in Keys, a \in Attempts :
          steps[e][k][a] = "absent" /\ logs[e][k][a] = {}
    BY DEF Init
  <1>5. \A e \in Executions : exec[e].status = "none"
    BY DEF Init
  <1> QED
    BY <1>1, <1>3, <1>4, <1>5
       DEF SafetyInv, AttemptsContiguous, StagesInOrder, SucceededMeansAllStages,
           FailedOnlyAfterBudget, LogsNeverAhead

LEMMA SafetyInvariant == Spec => []SafetyInv
  <1>1. SafetyInv /\ [Next]_vars => SafetyInv'
    BY TypeStep, StepInvStep, ContiguousStep, OrderStep, SucceededStep, FailedStep,
       LogsStep DEF SafetyInv
  <1> QED
    BY SafetyInit, <1>1, PTL DEF Spec

\* Whatever is redelivered, lost or run twice, a step is recorded for a stage
\* only after all stages before it succeeded (the loop of run_execution).
THEOREM StagesAlwaysInOrder == Spec => []StagesInOrder
  BY SafetyInvariant, PTL DEF SafetyInv

\* SUCCEEDED means that every stage has a succeeded step.
THEOREM SuccessIsComplete == Spec => []SucceededMeansAllStages
  BY SafetyInvariant, PTL DEF SafetyInv

\* FAILED means that some stage failed at or beyond MAX_STAGE_RETRIES.
THEOREM FailureIsEarned == Spec => []FailedOnlyAfterBudget
  BY SafetyInvariant, PTL DEF SafetyInv

\* Attempt numbers have no gap although they are read by one statement and
\* inserted by a later one, thanks to the unique key.
THEOREM AttemptsNeverSkip == Spec => []AttemptsContiguous
  BY SafetyInvariant, PTL DEF SafetyInv

\* The log never runs ahead of the step rows.
THEOREM LogsFollowSteps == Spec => []LogsNeverAhead
  BY SafetyInvariant, PTL DEF SafetyInv

\* No step row with a verdict is ever rewritten.
THEOREM VerdictsAreFinal == Spec => VerdictIsFinal
  <1>1. SafetyInv /\ [Next]_vars =>
          [\A e \in Executions, k \in Keys, a \in Attempts :
             steps[e][k][a] \in {"succeeded", "failed"}
                => steps'[e][k][a] = steps[e][k][a]]_vars
    BY RowsOnlyMature DEF SafetyInv
  <1> QED
    BY SafetyInvariant, <1>1, PTL DEF Spec, VerdictIsFinal
=============================================================================
