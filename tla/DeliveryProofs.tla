--------------------------- MODULE DeliveryProofs ---------------------------
(* Theorems about the messages of Orchestration: an execution is stranded    *)
(* only by a known cause; and, while nothing is delivered twice, one message *)
(* at a time, agreement of the settled rows, and the refinement of           *)
(* ExecutionLifecycle.                                                       *)
EXTENDS OrchestrationProofs, FiniteSetTheorems

----------------------------------------------------------------------------
(* What a step may do to the row, the messages and the fate of an execution. *)

Carries(v, e) ==
    /\ job[v] = e
    /\ pc[v] \in RunPcs \ ClosingPcs
    /\ pc[v] = "load" \/ seen[v] \notin Terminal

Waiting(e) == \E r \in RetryCounts : ready[e][r] > 0

LEMMA CarrierIs ==
  ASSUME NEW e \in Executions
  PROVE  Carrier(e) <=> Waiting(e) \/ \E v \in Workers : Carries(v, e)
  BY DEF Carrier, Carries, Waiting

\* A step moves the locals of at most one worker.
LEMMA OthersSeen ==
  ASSUME TypeInv, NEW w \in Workers, Moves(w), NEW v \in Workers, v # w
  PROVE  seen'[v] = seen[v]
  <1> USE DEF TypeInv, TypeOK, taskVars, workerVars
  <1>1. ASSUME NEW e \in Executions, Deliver(w, e) PROVE seen'[v] = seen[v]
    BY <1>1 DEF Deliver
  <1>2. CASE Fault(w)
    BY <1>2 DEF Fault, Crash, Disconnect, LoseChild, Exception, Release
  <1>3. CASE Load(w) \/ BeginRun(w) \/ CommitStart(w) \/ Publish(w) \/ CheckStage(w)
    BY <1>3 DEF Load, BeginRun, CommitStart, Publish, CheckStage
  <1>4. CASE NextAttempt(w) \/ CreateStep(w) \/ LogLine(w) \/ RunStage(w) \/ LogCompleted(w)
    BY <1>4 DEF NextAttempt, CreateStep, LogLine, RunStage, LogCompleted
  <1>5. CASE MarkRetrying(w) \/ MarkFailed(w) \/ MarkSucceeded(w)
    BY <1>5 DEF MarkRetrying, MarkFailed, MarkSucceeded, WriteStatus
  <1>6. CASE AutoRetry(w) \/ Ack(w)
    BY <1>6 DEF AutoRetry, Ack, Release
  <1> QED
    BY <1>1, <1>2, <1>3, <1>4, <1>5, <1>6 DEF Moves, WorkerStep

LEMMA OthersCarry ==
  ASSUME TypeInv, NEW w \in Workers, Moves(w), NEW v \in Workers, v # w,
         NEW e \in Executions, Carries(v, e)
  PROVE  Carries(v, e)'
  <1>1. Still(v) /\ seen'[v] = seen[v]
    BY OthersStill, OthersSeen
  <1> QED
    BY <1>1 DEF Still, Carries

\* A worker's step touches the row, the messages and the fate of its own
\* execution, and no trigger handler.
LEMMA OtherExecutions ==
  ASSUME TypeInv, NEW w \in Workers, WorkerStep(w) \/ Fault(w),
         NEW e \in Executions, e # job[w]
  PROVE  /\ exec'[e] = exec[e] /\ ready'[e] = ready[e] /\ lost'[e] = lost[e]
  <1> USE DEF TypeInv, TypeOK, dbVars, Lose, Goto
  <1>1. CASE Fault(w)
    BY <1>1 DEF Fault, Crash, Disconnect, LoseChild, Exception, Requeue
  <1>2. CASE Load(w) \/ BeginRun(w) \/ CommitStart(w) \/ Publish(w) \/ CheckStage(w)
    BY <1>2 DEF Load, BeginRun, CommitStart, Publish, CheckStage
  <1>3. CASE NextAttempt(w) \/ CreateStep(w) \/ LogLine(w) \/ RunStage(w) \/ LogCompleted(w)
    BY <1>3 DEF NextAttempt, CreateStep, LogLine, RunStage, LogCompleted
  <1>4. CASE MarkRetrying(w) \/ MarkFailed(w) \/ MarkSucceeded(w)
    BY <1>4 DEF MarkRetrying, MarkFailed, MarkSucceeded, WriteStatus
  <1>5. CASE AutoRetry(w) \/ Ack(w)
    BY <1>5 DEF AutoRetry, Ack
  <1> QED
    BY <1>1, <1>2, <1>3, <1>4, <1>5 DEF WorkerStep

\* A worker at work has an execution.
LEMMA BusyHasJob ==
  ASSUME TypeInv, NEW w \in Workers, WorkerStep(w) \/ Fault(w)
  PROVE  pc[w] # "idle" /\ job[w] \in Executions
  <1>1. pc[w] # "idle"
    <2>1. CASE Fault(w)
      BY <2>1 DEF Fault, Crash, Disconnect, LoseChild, Exception, TypeInv, LocalsOK,
                  RunPcs, PublishPcs, DbPcs, LogPcs
    <2>2. CASE WorkerStep(w)
      BY <2>2 DEF WorkerStep, Load, BeginRun, CommitStart, Publish, CheckStage, NextAttempt,
                  CreateStep, LogLine, RunStage, MarkRetrying, MarkFailed, MarkSucceeded,
                  LogCompleted, AutoRetry, Ack, Goto, PublishPcs, LogPcs
    <2> QED
      BY <2>1, <2>2
  <1> QED
    BY <1>1 DEF TypeInv, TypeOK

----------------------------------------------------------------------------
(* Only a committed execution gets past load.                                *)

LEMMA ApiFrame ==
  ASSUME TypeInv, [Next]_vars, NEW e \in Executions, api'[e] # api[e]
  PROVE  CreateExecution(e) \/ SendTask(e) \/ CommitTrigger(e) \/ AbortTrigger(e)
  <1> USE DEF TypeInv, TypeOK
  <1>1. \/ api' = api
        \/ \E x \in Executions : CreateExecution(x) \/ ApiStep(x) \/ AbortTrigger(x)
    <2>1. ASSUME NEW w \in Workers, WorkerStep(w) \/ Fault(w)
          PROVE  api' = api
      BY <2>1
         DEF WorkerStep, Fault, Load, BeginRun, CommitStart, Publish, CheckStage, NextAttempt,
             CreateStep, LogLine, RunStage, MarkRetrying, MarkFailed, MarkSucceeded,
             WriteStatus, LogCompleted, AutoRetry, Ack, Crash, Disconnect, LoseChild, Exception
    <2>2. ASSUME NEW w \in Workers, NEW x \in Executions, Deliver(w, x)
          PROVE  api' = api
      BY <2>2 DEF Deliver
    <2> QED
      BY <2>1, <2>2 DEF Next, Quiescent, vars
  <1>2. ASSUME NEW x \in Executions, CreateExecution(x) \/ ApiStep(x) \/ AbortTrigger(x)
        PROVE  x = e
    BY <1>2 DEF CreateExecution, ApiStep, SendTask, CommitTrigger, AbortTrigger
  <1> QED
    BY <1>1, <1>2 DEF ApiStep

\* A committed row stays committed.
LEMMA CommittedStays ==
  ASSUME TypeInv, [Next]_vars, NEW e \in Executions, exec[e].status # "none"
  PROVE  exec'[e].status # "none"
  BY StatusFrame

LEMMA CommittedFirstStep ==
  ASSUME TypeInv, CommittedFirst, [Next]_vars
  PROVE  CommittedFirst'
  <1> USE DEF CommittedFirst
  <1>1. ASSUME NEW e \in Executions, api'[e] # "done" PROVE exec'[e].status = "none"
    <2>1. api[e] # "done"
      <3> SUFFICES ASSUME api[e] = "done", api'[e] # api[e] PROVE FALSE
        BY <1>1
      <3> QED
        BY ApiFrame DEF CreateExecution, SendTask, CommitTrigger, AbortTrigger
    <2>2. exec[e].status = "none"
      BY <2>1
    <2>3. ~CommitTrigger(e)
      BY <1>1 DEF CommitTrigger, TypeInv, TypeOK
    <2>4. ASSUME NEW w \in Workers, job[w] = e PROVE pc[w] \notin RunPcs \ {"load"}
      BY <2>2, <2>4
    <2> QED
      BY <2>2, <2>3, <2>4, StatusFrame
         DEF CommitStart, MarkRetrying, MarkFailed, MarkSucceeded, Goto, RunPcs, DbPcs
  <1>2. ASSUME NEW v \in Workers, pc'[v] \in RunPcs \ {"load"}
        PROVE  exec'[job'[v]].status # "none"
    <2>1. CASE Still(v)
      <3>1. pc[v] \in RunPcs \ {"load"} /\ job'[v] = job[v] /\ job[v] \in Executions
        BY <1>2, <2>1 DEF Still, TypeInv, TypeOK, RunPcs, PublishPcs, DbPcs, LogPcs
      <3> QED
        BY <3>1, CommittedStays
    <2>2. CASE ~Still(v)
      <3>1. Moves(v)
        BY <2>2, OthersStill, NextCases DEF workerVars, Still
      <3>2. job'[v] = job[v] /\ job[v] \in Executions /\ exec[job[v]].status # "none"
        <4>1. CASE \E e \in Executions : Deliver(v, e)
          BY <1>2, <4>1 DEF Deliver, Goto, TypeInv, TypeOK
        <4>2. CASE Fault(v)
          <5>1. job[v] \in Executions
            BY <4>2, BusyHasJob
          <5> QED
            BY <1>2, <4>2, <5>1
               DEF Fault, Crash, Disconnect, LoseChild, Exception, taskVars, TypeInv, TypeOK,
                   RunPcs, PublishPcs, DbPcs, LogPcs
        <4>3. CASE WorkerStep(v)
          <5>1. job[v] \in Executions
            BY <4>3, BusyHasJob
          <5>2. CASE Load(v)
            BY <1>2, <5>1, <5>2 DEF Load, Goto, TypeInv, TypeOK, RunPcs, PublishPcs, DbPcs, LogPcs
          <5>3. CASE Ack(v)
            BY <1>2, <5>3 DEF Ack, Goto, TypeInv, TypeOK, RunPcs, PublishPcs, DbPcs, LogPcs
          <5>4. CASE ~Load(v) /\ ~Ack(v)
            <6>1. pc[v] \in RunPcs \ {"load"} /\ job' = job
              BY <4>3, <5>4
                 DEF WorkerStep, BeginRun, CommitStart, Publish, CheckStage, NextAttempt,
                     CreateStep, LogLine, RunStage, MarkRetrying, MarkFailed, MarkSucceeded,
                     WriteStatus, LogCompleted, AutoRetry, Goto, taskVars, RunPcs,
                     PublishPcs, DbPcs, LogPcs
            <6> QED
              BY <5>1, <6>1
          <5> QED
            BY <5>2, <5>3, <5>4
        <4> QED
          BY <3>1, <4>1, <4>2, <4>3 DEF Moves
      <3> QED
        BY <3>2, CommittedStays
    <2> QED
      BY <2>1, <2>2
  <1> QED
    BY <1>1, <1>2

----------------------------------------------------------------------------
(* A message leaves its queue only for a worker, and a worker gives it up    *)
(* only when the row is settled, a message is back, or the cause is noted.   *)

\* A noted cause is there to be read.
LEMMA LoseNotes ==
  ASSUME TypeInv, NEW e \in Executions, NEW cause, Lose(e, cause)
  PROVE  lost'[e] # {}
  <1>1. lost' = [lost EXCEPT ![e] = @ \cup {cause}] /\ e \in DOMAIN lost
    BY DEF TypeInv, TypeOK, Lose
  <1>2. cause \in lost'[e]
    BY <1>1
  <1> QED
    BY <1>2

LEMMA NextRetryCount ==
  ASSUME NEW r \in RetryCounts, r < MaxStageRetries
  PROVE  r + 1 \in RetryCounts
  BY ConstantsType DEF RetryCounts

\* The history only grows.
LEMMA LostGrows ==
  ASSUME TypeInv, [Next]_vars, NEW e \in Executions
  PROVE  lost[e] \subseteq lost'[e]
  <1> USE DEF TypeInv, TypeOK, Lose
  <1>1. lost' = lost \/ \E x \in Executions, c \in LostCauses : Lose(x, c)
    <2>1. ASSUME NEW w \in Workers, WorkerStep(w) \/ Fault(w)
          PROVE  lost' = lost \/ \E x \in Executions, c \in LostCauses : Lose(x, c)
      <3>1. job[w] \in Executions
        BY <2>1, BusyHasJob
      <3>2. lost' = lost \/ \E c \in LostCauses : Lose(job[w], c)
        BY <2>1
           DEF LostCauses, WorkerStep, Fault, Load, BeginRun, CommitStart, Publish, CheckStage,
               NextAttempt, CreateStep, LogLine, RunStage, MarkRetrying, MarkFailed,
               MarkSucceeded, WriteStatus, LogCompleted, AutoRetry, Ack, Crash, Disconnect,
               LoseChild, Exception
      <3> QED
        BY <3>1, <3>2
    <2> QED
      BY <2>1
         DEF Next, ApiStep, CreateExecution, SendTask, CommitTrigger, AbortTrigger, Deliver,
             Quiescent, vars
  <1>2. ASSUME NEW x \in Executions, NEW c \in LostCauses, Lose(x, c)
        PROVE  lost[e] \subseteq lost'[e]
    <2>1. lost \in [Executions -> SUBSET LostCauses] /\ lost' = [lost EXCEPT ![x] = @ \cup {c}]
      BY <1>2
    <2> QED
      BY <2>1
  <1> QED
    BY <1>1, <1>2

\* Only a delivery takes a message away.
LEMMA MessagesStay ==
  ASSUME TypeInv, [Next]_vars, NEW e \in Executions, Waiting(e),
         ~ \E w \in Workers : Deliver(w, e)
  PROVE  Waiting(e)'
  <1> USE DEF TypeInv, TypeOK, Waiting
  <1>1. CASE ready' = ready
    BY <1>1
  <1>2. ASSUME NEW x \in Executions, NEW r \in RetryCounts,
               ready' = [ready EXCEPT ![x][r] = @ + 1]
        PROVE  Waiting(e)'
    BY <1>2
  <1>3. ASSUME NEW w \in Workers, NEW x \in Executions, x # e, Deliver(w, x)
        PROVE  Waiting(e)'
    BY <1>3 DEF Deliver
  <1>4. \/ ready' = ready
        \/ \E x \in Executions, r \in RetryCounts : ready' = [ready EXCEPT ![x][r] = @ + 1]
        \/ \E w \in Workers, x \in Executions : Deliver(w, x)
    <2>1. ASSUME NEW w \in Workers, WorkerStep(w) \/ Fault(w)
          PROVE  \/ ready' = ready
                 \/ \E x \in Executions, r \in RetryCounts :
                       ready' = [ready EXCEPT ![x][r] = @ + 1]
      <3>1. job[w] \in Executions /\ retries[w] \in RetryCounts
        BY <2>1, BusyHasJob
      <3>2. retries[w] < MaxStageRetries => retries[w] + 1 \in RetryCounts
        BY <3>1, NextRetryCount
      <3>3. CASE Fault(w)
        BY <3>1, <3>3 DEF Fault, Crash, Disconnect, LoseChild, Exception, Requeue
      <3>4. CASE WorkerStep(w)
        BY <3>1, <3>2, <3>4
           DEF WorkerStep, Load, BeginRun, CommitStart, Publish, CheckStage,
               NextAttempt, CreateStep, LogLine, RunStage, MarkRetrying, MarkFailed,
               MarkSucceeded, WriteStatus, LogCompleted, AutoRetry, Ack
      <3> QED
        BY <2>1, <3>3, <3>4
    <2>2. 0 \in RetryCounts
      BY ConstantsType DEF RetryCounts
    <2> QED
      BY <2>1, <2>2
         DEF Next, ApiStep, CreateExecution, SendTask, CommitTrigger, AbortTrigger,
             Quiescent, vars
  <1> QED
    BY <1>1, <1>2, <1>3, <1>4

\* The carrier hands on what it carries, whatever it does next.
LEMMA CarrierStep ==
  ASSUME TypeInv, [Next]_vars, NEW w \in Workers, NEW e \in Executions,
         WorkerStep(w) \/ Fault(w), Carries(w, e),
         ~Settled(e), ~Settled(e)', lost'[e] = {}
  PROVE  Carries(w, e)' \/ Waiting(e)'
  <1> USE DEF TypeInv, TypeOK, Carries, ClosingPcs
  <1>1. CASE Fault(w)
    <2>1. CASE Crash(w) \/ Disconnect(w)
      <3>1. owned[w] => Waiting(e)'
        <4> SUFFICES ASSUME owned[w] PROVE Waiting(e)'
          OBVIOUS
        <4>1. ready' = [ready EXCEPT ![e][retries[w]] = @ + 1] /\ retries[w] \in RetryCounts
          BY <2>1 DEF Crash, Disconnect, Requeue
        <4> QED
          BY <4>1 DEF Waiting
      <3>2. owned[w] \/ lost'[e] # {}
        <4>1. pc[w] # "ack"
          BY DEF RunPcs, PublishPcs, DbPcs, LogPcs
        <4> QED
          BY <2>1, <4>1, LoseNotes DEF Crash, Disconnect
      <3> QED
        BY <3>1, <3>2
    <2>2. CASE LoseChild(w) \/ \E cause \in {"redis", "db"} : Exception(w, cause)
      BY <2>2, LoseNotes DEF LoseChild, Exception
    <2> QED
      BY <1>1, <2>1, <2>2 DEF Fault
  <1>2. CASE Load(w)
    <2>1. /\ seen'[w] = exec[e].status
          /\ exec[e].status # "none" => pc'[w] \in {"begin", "check"} /\ job' = job
      BY <1>2 DEF Load, Goto
    <2>2. exec[e].status = "none" => lost'[e] # {}
      BY <1>2, LoseNotes DEF Load
    <2> QED
      BY <2>1, <2>2 DEF Settled, RunPcs, DbPcs
  <1>3. CASE BeginRun(w) \/ CommitStart(w)
    BY <1>3 DEF BeginRun, CommitStart, Goto, taskVars, Terminal, RunPcs, DbPcs, PublishPcs
  <1>4. CASE Publish(w)
    BY <1>4 DEF Publish, AfterPublish, RunPcs, PublishPcs, DbPcs, LogPcs
  <1>5. CASE CheckStage(w) \/ NextAttempt(w) \/ CreateStep(w)
    <2>1. CASE CheckStage(w) \/ NextAttempt(w)
      BY <2>1 DEF CheckStage, NextAttempt, Goto, RunPcs, DbPcs
    <2>2. CASE CreateStep(w)
      <3>1. CASE Lose(e, "conflict")
        BY <3>1, LoseNotes
      <3>2. CASE ~Lose(e, "conflict")
        <4>1. pc'[w] = "pubStep" /\ UNCHANGED taskVars
          BY <2>2, <3>2 DEF CreateStep, Goto
        <4> QED
          BY <2>2, <4>1 DEF CreateStep, Goto, taskVars, RunPcs, DbPcs, PublishPcs
      <3> QED
        BY <3>1, <3>2
    <2> QED
      BY <1>5, <2>1, <2>2
  <1>6. CASE LogLine(w) \/ RunStage(w)
    BY <1>6 DEF LogLine, AfterLog, RunStage, taskVars, RunPcs, PublishPcs, LogPcs
  <1>7. CASE MarkRetrying(w)
    <2>1. exec'[e].status = seen'[w]
      BY <1>7 DEF MarkRetrying, WriteStatus
    <2> QED
      BY <1>7, <2>1 DEF MarkRetrying, WriteStatus, Goto, Settled, RunPcs, PublishPcs
  <1>8. CASE MarkFailed(w) \/ MarkSucceeded(w)
    <2>1. exec'[e].status \in Terminal
      BY <1>8 DEF MarkFailed, MarkSucceeded, WriteStatus, Terminal, Goto, Settled
    <2> QED
      BY <2>1 DEF Settled
  <1>9. CASE AutoRetry(w)
    <2>1. retries[w] < MaxStageRetries => retries[w] + 1 \in RetryCounts
      BY NextRetryCount
    <2>2. CASE retries[w] < MaxStageRetries
      <3>1. ready' = [ready EXCEPT ![e][retries[w] + 1] = @ + 1]
        BY <1>9, <2>2, ConstantsType DEF AutoRetry, RetryCounts
      <3> QED
        BY <2>1, <2>2, <3>1 DEF Waiting
    <2>3. CASE ~(retries[w] < MaxStageRetries)
      <3>1. Lose(e, "budget")
        BY <1>9, <2>3 DEF AutoRetry
      <3> QED
        BY <3>1, LoseNotes
    <2> QED
      BY <2>2, <2>3
  <1>10. CASE LogCompleted(w) \/ Ack(w)
    BY <1>10 DEF LogCompleted, Ack, Goto, RunPcs, PublishPcs, DbPcs, LogPcs
  <1> QED
    BY <1>1, <1>2, <1>3, <1>4, <1>5, <1>6, <1>7, <1>8, <1>9, <1>10 DEF WorkerStep

LEMMA CarriedStep ==
  ASSUME TypeInv, CarryInv, [Next]_vars
  PROVE  Carried'
  <1> USE DEF CarryInv
  <1> SUFFICES ASSUME NEW e \in Executions, api'[e] \in {"sent", "done"},
                      ~Settled(e)', lost'[e] = {}
               PROVE  Carrier(e)'
    BY DEF Carried
  <1>1. lost[e] = {}
    BY LostGrows
  <1>2. Carrier(e)' <=> Waiting(e)' \/ \E v \in Workers : Carries(v, e)'
    BY DEF Carrier, Carries, Waiting
  <1>3. CASE SendTask(e)
    <2>1. 0 \in RetryCounts
      BY ConstantsType DEF RetryCounts
    <2> QED
      BY <1>2, <1>3, <2>1 DEF SendTask, Waiting, TypeInv, TypeOK
  <1>4. CASE ~SendTask(e)
    <2>1. api[e] \in {"sent", "done"}
      BY <1>4, ApiFrame
         DEF CreateExecution, CommitTrigger, AbortTrigger, TypeInv, TypeOK
    <2>2. CASE Settled(e)
      <3>1. PICK w \in Workers : job[w] = e /\ (CommitStart(w) \/ MarkRetrying(w))
        BY <2>2, StatusFrame DEF Settled, Terminal, CommitTrigger, CommittedFirst, TypeInv, TypeOK
      <3>2. Carries(w, e)'
        <4>1. CASE CommitStart(w)
          <5>1. seen[w] = "running" /\ UNCHANGED taskVars /\ pc'[w] = "check"
            BY <4>1 DEF CommitStart, Goto, StartersBelieve, TypeInv, TypeOK
          <5> QED
            BY <3>1, <5>1 DEF Carries, taskVars, Terminal, RunPcs, DbPcs, ClosingPcs
        <4>2. CASE MarkRetrying(w)
          <5>1. exec'[e].status = seen'[w] /\ pc'[w] = "pubRetrying" /\ job' = job
            BY <3>1, <4>2 DEF MarkRetrying, WriteStatus, Goto, TypeInv, TypeOK
          <5> QED
            BY <3>1, <5>1 DEF Carries, Settled, RunPcs, PublishPcs, ClosingPcs
        <4> QED
          BY <3>1, <4>1, <4>2
      <3> QED
        BY <1>2, <3>2
    <2>3. CASE ~Settled(e)
      <3>1. Waiting(e) \/ \E v \in Workers : Carries(v, e)
        BY <1>1, <2>1, <2>3, CarrierIs DEF Carried
      <3>2. CASE Waiting(e)
        <4>1. ASSUME NEW w \in Workers, Deliver(w, e) PROVE Carries(w, e)'
          BY <4>1 DEF Deliver, Goto, Carries, TypeInv, TypeOK, RunPcs, DbPcs, ClosingPcs
        <4> QED
          BY <1>2, <3>2, <4>1, MessagesStay
      <3>3. ASSUME NEW v \in Workers, Carries(v, e) PROVE Carrier(e)'
        <4>1. CASE WorkerStep(v) \/ Fault(v)
          BY <1>2, <2>3, <3>3, <4>1, CarrierStep
        <4>2. ASSUME NEW w \in Workers, w # v, Moves(w) PROVE Carrier(e)'
          BY <1>2, <3>3, <4>2, OthersCarry
        <4>3. ~ \E x \in Executions : Deliver(v, x)
          BY <3>3 DEF Deliver, Goto, Carries, RunPcs, PublishPcs, DbPcs, LogPcs
        <4>4. CASE UNCHANGED workerVars
          BY <1>2, <3>3, <4>4 DEF workerVars, Carries
        <4> QED
          BY <4>1, <4>2, <4>3, <4>4, NextCases DEF Moves
      <3> QED
        BY <3>1, <3>2, <3>3
    <2> QED
      BY <2>2, <2>3
  <1> QED
    BY <1>3, <1>4

LEMMA StartersStep ==
  ASSUME TypeInv, StartersBelieve, [Next]_vars
  PROVE  StartersBelieve'
  <1> SUFFICES ASSUME NEW w \in Workers,
                      pc'[w] \in {"pubRunning", "pubStarted", "commitStart"}
               PROVE  seen'[w] = "running"
    BY DEF StartersBelieve
  <1> USE DEF StartersBelieve, TypeInv, TypeOK
  <1>1. CASE Still(w) /\ seen'[w] = seen[w]
    BY <1>1 DEF Still
  <1>2. CASE WorkerStep(w)
    <2>1. ~Load(w) /\ ~CommitStart(w) /\ ~CheckStage(w) /\ ~NextAttempt(w) /\ ~CreateStep(w)
      BY DEF Load, CommitStart, CheckStage, NextAttempt, CreateStep, Goto
    <2>2. ~LogLine(w) /\ ~RunStage(w)
      BY DEF LogLine, AfterLog, RunStage
    <2>3. /\ ~MarkRetrying(w) /\ ~MarkFailed(w) /\ ~MarkSucceeded(w)
          /\ ~LogCompleted(w) /\ ~AutoRetry(w) /\ ~Ack(w)
      BY DEF MarkRetrying, MarkFailed, MarkSucceeded, LogCompleted, AutoRetry, Ack, Goto
    <2>4. BeginRun(w) \/ Publish(w)
      BY <1>2, <2>1, <2>2, <2>3 DEF WorkerStep
    <2> QED
      BY <2>4 DEF BeginRun, Publish, AfterPublish, PublishPcs
  <1>3. CASE Fault(w) \/ \E e \in Executions : Deliver(w, e)
    BY <1>3 DEF Fault, Crash, Disconnect, LoseChild, Exception, Deliver, Goto
  <1>4. ASSUME NEW v \in Workers, v # w, Moves(v) PROVE Still(w) /\ seen'[w] = seen[w]
    BY <1>4, OthersStill, OthersSeen
  <1>5. UNCHANGED workerVars => Still(w) /\ seen'[w] = seen[w]
    BY DEF workerVars, Still
  <1> QED
    BY <1>1, <1>2, <1>3, <1>4, <1>5, NextCases DEF Moves

LEMMA CarryInit == Init => CarryInv
  BY DEF Init, CarryInv, CommittedFirst, StartersBelieve, Carried, RunPcs, PublishPcs, DbPcs,
         LogPcs

\* Who is carried, and that only a committed row is worked on (send_task before
\* the commit of get_db, acks_late, the new message of autoretry_for before the
\* acknowledgement of the old one).
THEOREM CarryInvariant == Spec => []CarryInv
  <1>1. TypeInv /\ CarryInv /\ [Next]_vars => CarryInv'
    BY CommittedFirstStep, StartersStep, CarriedStep DEF CarryInv
  <1> QED
    BY CarryInit, <1>1, TypeInvariant, PTL DEF Spec

\* With any number of workers, messages and faults, an accepted execution that
\* is neither finished nor in anyone's hands was lost in a way that the history
\* names.
THEOREM StrandedOnlyByCause == Spec => []StrandedOnlyByKnownCause
  <1>1. TypeInv /\ CarryInv => StrandedOnlyByKnownCause
    <2> SUFFICES ASSUME TypeInv, CarryInv, NEW e \in Executions,
                        Committed(e), ~Settled(e), ~InHand(e)
                 PROVE  lost[e] # {}
      BY DEF StrandedOnlyByKnownCause
    <2>1. api[e] = "done"
      BY DEF CarryInv, CommittedFirst, Committed
    <2>2. ~Carrier(e)
      BY DEF Carrier, InHand
    <2> QED
      BY <2>1, <2>2 DEF CarryInv, Carried
  <1> QED
    BY <1>1, TypeInvariant, CarryInvariant, PTL

----------------------------------------------------------------------------
(* Without redelivery: one message, one run.                                 *)

NoneLeft == faults["crash"] = 0 /\ faults["disconnect"] = 0

\* Spent faults do not come back, and those two cannot happen any more.
LEMMA NoneLeftStep ==
  ASSUME TypeInv, NoneLeft, [Next]_vars
  PROVE  NoneLeft'
  <1>1. faults' = faults \/ \E kind \in FaultKinds : Spend(kind)
    <2>1. ASSUME NEW w \in Workers, WorkerStep(w) \/ Fault(w)
          PROVE  faults' = faults \/ \E kind \in FaultKinds : Spend(kind)
      BY <2>1
         DEF FaultKinds, WorkerStep, Fault, taskVars, Load, BeginRun, CommitStart, Publish,
             CheckStage, NextAttempt, CreateStep, LogLine, RunStage, MarkRetrying, MarkFailed,
             MarkSucceeded, WriteStatus, LogCompleted, AutoRetry, Ack, Crash, Disconnect,
             LoseChild, Exception
    <2> QED
      BY <2>1
         DEF FaultKinds, Next, ApiStep, CreateExecution, SendTask, CommitTrigger, AbortTrigger,
             Deliver, Quiescent, vars
  <1>2. ASSUME NEW kind \in FaultKinds, Spend(kind) PROVE NoneLeft'
    BY <1>2 DEF Spend, NoneLeft, TypeInv, TypeOK, FaultKinds
  <1> QED
    BY <1>1, <1>2 DEF NoneLeft

LEMMA NoRedelivery ==
  ASSUME NoneLeft, NEW w \in Workers
  PROVE  ~Crash(w) /\ ~Disconnect(w)
  BY DEF NoneLeft, Crash, Disconnect, Spend

\* The steps that touch the messages of an execution.
LEMMA ReadyFrame ==
  ASSUME TypeInv, NoneLeft, [Next]_vars, NEW e \in Executions
  PROVE  \/ ready'[e] = ready[e]
         \/ SendTask(e)
         \/ \E w \in Workers : Deliver(w, e)
         \/ \E w \in Workers : AutoRetry(w) /\ job[w] = e
  <1> USE DEF TypeInv, TypeOK
  <1>1. ASSUME NEW x \in Executions, x # e, SendTask(x) PROVE ready'[e] = ready[e]
    BY <1>1 DEF SendTask
  <1>2. ASSUME NEW x \in Executions, x # e, NEW w \in Workers, Deliver(w, x)
        PROVE  ready'[e] = ready[e]
    BY <1>2 DEF Deliver
  <1>3. ASSUME NEW w \in Workers, WorkerStep(w) \/ Fault(w), ~(AutoRetry(w) /\ job[w] = e)
        PROVE  ready'[e] = ready[e]
    <2>1. CASE AutoRetry(w)
      BY <1>3, <2>1, OtherExecutions
    <2>2. CASE ~AutoRetry(w)
      BY <1>3, <2>2, NoRedelivery
         DEF WorkerStep, Fault, Load, BeginRun, CommitStart, Publish, CheckStage,
             NextAttempt, CreateStep, LogLine, RunStage, MarkRetrying, MarkFailed,
             MarkSucceeded, WriteStatus, LogCompleted, Ack, LoseChild, Exception
    <2> QED
      BY <2>1, <2>2
  <1> QED
    BY <1>1, <1>2, <1>3
       DEF Next, ApiStep, CreateExecution, CommitTrigger, AbortTrigger, Quiescent, vars

\* A run begins by a delivery.
LEMMA RunsFrame ==
  ASSUME TypeInv, [Next]_vars, NEW e \in Executions, NEW v \in Workers, Runs(v, e)',
         ~Deliver(v, e)
  PROVE  Runs(v, e)
  <1> USE DEF TypeInv, TypeOK, Runs, RunPcs, PublishPcs, DbPcs, LogPcs
  <1>1. CASE WorkerStep(v) \/ Fault(v)
    <2>1. pc'[v] \in RunPcs /\ job'[v] = e
      OBVIOUS
    <2>2. CASE Fault(v)
      BY <2>1, <2>2 DEF Fault, Crash, Disconnect, LoseChild, Exception
    <2>3. CASE Ack(v)
      BY <2>1, <2>3 DEF Ack, Goto
    <2>4. CASE WorkerStep(v) /\ ~Ack(v)
      BY <2>1, <2>4
         DEF WorkerStep, Load, BeginRun, CommitStart, Publish, CheckStage, NextAttempt,
             CreateStep, LogLine, RunStage, MarkRetrying, MarkFailed, MarkSucceeded,
             WriteStatus, LogCompleted, AutoRetry, Goto, taskVars
    <2> QED
      BY <1>1, <2>2, <2>3, <2>4
  <1>2. ASSUME NEW x \in Executions, Deliver(v, x) PROVE Runs(v, e)
    BY <1>2 DEF Deliver
  <1>3. CASE Still(v)
    BY <1>3 DEF Still
  <1> QED
    BY <1>1, <1>2, <1>3, OthersStill, NextCases DEF Moves, workerVars, Still

LEMMA HandsAre ==
  ASSUME NEW e \in Executions
  PROVE  InHand(e) <=> Waiting(e) \/ \E w \in Workers : Runs(w, e)
  BY DEF InHand, Waiting, Runs

\* What a worker that is busy in any step does not concern.
LEMMA DeliverFrame ==
  ASSUME TypeInv, NEW w \in Workers, NEW e \in Executions, Deliver(w, e)
  PROVE  /\ ~Runs(w, e)
         /\ Waiting(e)
         /\ pc'[w] = "load" /\ job'[w] = e
         /\ \E r \in RetryCounts : /\ ready[e][r] > 0
                                   /\ retries'[w] = r
                                   /\ ready' = [ready EXCEPT ![e][r] = @ - 1]
         /\ UNCHANGED <<exec, steps, api, lost>>
  BY DEF Deliver, Goto, Runs, Waiting, TypeInv, TypeOK, RunPcs, PublishPcs, DbPcs, LogPcs, dbVars

LEMMA MessageAloneStep ==
  ASSUME TypeInv, NoneLeft, NEW e \in Executions, MessageAlone(e), [Next]_vars
  PROVE  MessageAlone(e)'
  <1> USE DEF TypeInv, TypeOK
  <1> DEFINE Unsent == api[e] \in {"idle", "created"}
  <1>1. Unsent' => Unsent
    BY ApiFrame DEF CreateExecution, SendTask, CommitTrigger, AbortTrigger
  <1>2. InHand(e)' <=> Waiting(e)' \/ \E w \in Workers : Runs(w, e)'
    BY DEF InHand, Waiting, Runs
  <1>3. ready[e] \in [RetryCounts -> Nat] /\ ready'[e] \in [RetryCounts -> Nat]
    <2>1. TypeInv'
      BY TypeStep
    <2> QED
      BY <2>1
  <1>4. CASE ready'[e] = ready[e]
    <2>1. ASSUME NEW v \in Workers, Runs(v, e)' PROVE Runs(v, e)
      <3>1. ~Deliver(v, e)
        BY <1>3, <1>4 DEF Deliver
      <3> QED
        BY <2>1, <3>1, RunsFrame
    <2>2. Waiting(e)' <=> Waiting(e)
      BY <1>4 DEF Waiting
    <2> QED
      BY <1>1, <1>2, <1>4, <2>1, <2>2, HandsAre DEF MessageAlone
  <1>5. CASE SendTask(e)
    <2>1. /\ Unsent /\ ~Unsent'
          /\ ready' = [ready EXCEPT ![e][0] = @ + 1]
      BY <1>5 DEF SendTask
    <2>2. ~Waiting(e) /\ \A w \in Workers : ~Runs(w, e)
      BY <2>1, HandsAre DEF MessageAlone
    <2>3. \A r \in RetryCounts : ready'[e][r] = IF r = 0 THEN 1 ELSE 0
      BY <1>3, <2>1, <2>2 DEF Waiting
    <2>4. \A w \in Workers : ~Runs(w, e)'
      BY <1>5, <2>2 DEF SendTask, workerVars, Runs
    <2> QED
      BY <2>1, <2>3, <2>4 DEF MessageAlone
  <1>6. ASSUME NEW w \in Workers, Deliver(w, e) PROVE MessageAlone(e)'
    <2>1. Waiting(e) /\ api' = api
      BY <1>6, DeliverFrame
    <2>2. PICK r \in RetryCounts : ready[e][r] > 0 /\ ready' = [ready EXCEPT ![e][r] = @ - 1]
      BY <1>6 DEF Deliver
    <2>3. \A q \in RetryCounts : ready'[e][q] = 0
      <3> SUFFICES ASSUME NEW q \in RetryCounts PROVE ready'[e][q] = 0
        OBVIOUS
      <3>1. CASE q = r
        BY <1>3, <2>2, <3>1 DEF MessageAlone
      <3>2. CASE q # r
        BY <1>3, <2>2, <3>2 DEF MessageAlone
      <3> QED
        BY <3>1, <3>2
    <2>4. \A v \in Workers : ~Runs(v, e)
      BY <2>2 DEF MessageAlone
    <2>5. ASSUME NEW v \in Workers, Runs(v, e)' PROVE v = w
      <3>1. Deliver(v, e)
        BY <2>4, <2>5, RunsFrame
      <3> QED
        BY <1>6, <3>1 DEF Deliver, Goto
    <2>6. ~Unsent
      BY <2>1, HandsAre DEF MessageAlone
    <2> QED
      BY <2>1, <2>3, <2>5, <2>6 DEF MessageAlone
  <1>7. ASSUME NEW w \in Workers, AutoRetry(w), job[w] = e PROVE MessageAlone(e)'
    <2>1. Runs(w, e) /\ ~Runs(w, e)' /\ api' = api
      BY <1>7 DEF AutoRetry, Goto, Runs, RunPcs, PublishPcs, DbPcs, LogPcs
    <2>2. \A v \in Workers : Runs(v, e) => v = w
      BY <2>1 DEF MessageAlone
    <2>3. \A v \in Workers : ~Runs(v, e)'
      <3> SUFFICES ASSUME NEW v \in Workers, Runs(v, e)' PROVE FALSE
        OBVIOUS
      <3>1. ~Deliver(v, e)
        <4>1. ~Waiting(e)
          BY <2>1 DEF MessageAlone, Waiting
        <4> QED
          BY <4>1, DeliverFrame
      <3> QED
        BY <2>1, <2>2, <3>1, RunsFrame
    <2>4. \A r \in RetryCounts : ready[e][r] = 0
      BY <1>3, <2>1 DEF MessageAlone
    <2>5. \/ ready' = ready
          \/ \E r \in RetryCounts : ready' = [ready EXCEPT ![e][r] = @ + 1]
      <3>1. retries[w] \in RetryCounts
        OBVIOUS
      <3> QED
        BY <1>7, <3>1, NextRetryCount DEF AutoRetry
    <2>6. \E r \in RetryCounts : \A q \in RetryCounts : ready'[e][q] = 0 \/ (q = r /\ ready'[e][q] = 1)
      <3>1. CASE ready' = ready
        BY <2>4, <3>1, ConstantsType DEF RetryCounts
      <3>2. ASSUME NEW r \in RetryCounts, ready' = [ready EXCEPT ![e][r] = @ + 1]
            PROVE  \A q \in RetryCounts : ready'[e][q] = 0 \/ (q = r /\ ready'[e][q] = 1)
        BY <1>3, <2>4, <3>2
      <3> QED
        BY <2>5, <3>1, <3>2
    <2>7. ~Unsent
      BY <2>1, HandsAre DEF MessageAlone
    <2>8. /\ \A r \in RetryCounts : ready'[e][r] <= 1
          /\ \A r, q \in RetryCounts : ready'[e][r] > 0 /\ ready'[e][q] > 0 => r = q
      <3> HIDE DEF TypeInv, TypeOK
      <3>1. PICK n \in RetryCounts :
              \A q \in RetryCounts : ready'[e][q] = 0 \/ (q = n /\ ready'[e][q] = 1)
        BY <2>6
      <3> QED
        BY <3>1
    <2> HIDE DEF TypeInv, TypeOK
    <2>9. ~Unsent'
      BY <2>1, <2>7
    <2> QED
      BY <2>3, <2>8, <2>9 DEF MessageAlone
  <1> QED
    BY <1>4, <1>5, <1>6, <1>7, ReadyFrame

----------------------------------------------------------------------------
(* Whoever runs the message is alone with the rows of its execution.         *)

\* The steps that write the row of an execution, and those that write its steps.
LEMMA RowFrame ==
  ASSUME TypeInv, [Next]_vars, NEW e \in Executions, exec'[e] # exec[e]
  PROVE  \/ CommitTrigger(e)
         \/ \E w \in Workers :
               /\ job[w] = e
               /\ CommitStart(w) \/ MarkRetrying(w) \/ MarkFailed(w) \/ MarkSucceeded(w)
  <1> USE DEF TypeInv, TypeOK, dbVars
  <1>1. ASSUME NEW x \in Executions, CommitTrigger(x) PROVE x = e
    BY <1>1 DEF CommitTrigger
  <1>2. ASSUME NEW w \in Workers, WorkerStep(w) \/ Fault(w) PROVE job[w] = e
    BY <1>2, OtherExecutions
  <1>3. \/ exec' = exec
        \/ \E x \in Executions : CommitTrigger(x)
        \/ \E w \in Workers : CommitStart(w) \/ MarkRetrying(w) \/ MarkFailed(w) \/ MarkSucceeded(w)
    BY DEF Next, ApiStep, WorkerStep, Fault, Quiescent, vars,
         CreateExecution, SendTask, AbortTrigger, Deliver, Load,
         BeginRun, Publish, CheckStage, NextAttempt, CreateStep, LogLine, RunStage, FinishStep,
         LogCompleted, AutoRetry, Ack, Crash, Disconnect, LoseChild, Exception
  <1> QED
    BY <1>1, <1>2, <1>3 DEF WorkerStep

LEMMA StepRowsFrame ==
  ASSUME TypeInv, [Next]_vars, NEW e \in Executions, steps'[e] # steps[e]
  PROVE  \E w \in Workers : job[w] = e /\ (CreateStep(w) \/ RunStage(w))
  <1>1. PICK w \in Workers : CreateStep(w) \/ RunStage(w)
    BY StepsFrame
  <1>2. job[w] = e
    BY <1>1 DEF CreateStep, RunStage, FinishStep, TypeInv, TypeOK
  <1> QED
    BY <1>1, <1>2

\* The only run that may write is the one that has the message.
LEMMA WritersRun ==
  ASSUME TypeInv, NEW w \in Workers,
         \/ CommitStart(w) \/ MarkRetrying(w) \/ MarkFailed(w) \/ MarkSucceeded(w)
         \/ CreateStep(w) \/ RunStage(w) \/ AutoRetry(w)
  PROVE  Runs(w, job[w]) /\ pc[w] \in RunPcs \ ({"load"} \cup ClosingPcs)
  BY DEF CommitStart, MarkRetrying, MarkFailed, MarkSucceeded, CreateStep, RunStage, AutoRetry,
         Goto, Runs, RunPcs, PublishPcs, DbPcs, ClosingPcs

\* While one worker runs a loaded execution and does not move, its rows stay.
LEMMA AloneFrame ==
  ASSUME TypeInv, CarryInv, NEW w \in Workers, NEW e \in Executions, MessageAlone(e),
         [Next]_vars, Runs(w, e), pc[w] # "load", ~WorkerStep(w), ~Fault(w)
  PROVE  /\ exec'[e] = exec[e] /\ steps'[e] = steps[e]
         /\ Still(w) /\ seen'[w] = seen[w]
  <1>1. \A v \in Workers : Runs(v, e) => v = w
    BY DEF MessageAlone
  <1>2. exec'[e] = exec[e]
    <2>1. ~CommitTrigger(e)
      BY DEF CarryInv, CommittedFirst, Runs, CommitTrigger
    <2>2. ASSUME NEW v \in Workers, job[v] = e,
                 CommitStart(v) \/ MarkRetrying(v) \/ MarkFailed(v) \/ MarkSucceeded(v)
          PROVE  FALSE
      <3>1. v = w
        BY <1>1, <2>2, WritersRun
      <3> QED
        BY <2>2, <3>1 DEF WorkerStep
    <2> QED
      BY <2>1, <2>2, RowFrame
  <1>3. steps'[e] = steps[e]
    <2>1. ASSUME NEW v \in Workers, job[v] = e, CreateStep(v) \/ RunStage(v)
          PROVE  FALSE
      <3>1. v = w
        BY <1>1, <2>1, WritersRun
      <3> QED
        BY <2>1, <3>1 DEF WorkerStep
    <2> QED
      BY <2>1, StepRowsFrame
  <1>4. Still(w) /\ seen'[w] = seen[w]
    <2>1. ~Moves(w)
      BY DEF Moves, Deliver, Goto, Runs, RunPcs, PublishPcs, DbPcs, LogPcs
    <2>2. CASE UNCHANGED workerVars
      BY <2>2 DEF workerVars, Still
    <2> QED
      BY <2>1, <2>2, NextCases, OthersStill, OthersSeen
  <1> QED
    BY <1>2, <1>3, <1>4

\* The status a run decides on is still there when it has loaded it.
LEMMA UnsettledWhileRunning ==
  ASSUME NEW e \in Executions, RowSettled(e), NEW w \in Workers, Runs(w, e),
         pc[w] \notin ClosingPcs
  PROVE  ~Settled(e)
  BY DEF RowSettled

\* A run does not write a success for a stage without noticing.
LEMMA SuccessFrame ==
  ASSUME TypeInv, NEW e \in Executions, NEW k \in Keys, steps'[e] = steps[e]
  PROVE  Succeeded(e, k)' <=> Succeeded(e, k)
  BY DEF Succeeded

LEMMA OwnStatus ==
  ASSUME TypeInv, CarryInv, NoneLeft, NEW w \in Workers, StatusKnown(w),
         \A e \in Executions : RowSettled(e), Moves(w)
  PROVE  StatusKnown(w)'
  <1> USE DEF TypeInv, TypeOK, Goto, taskVars, StatusKnown, StartPcs, LoopPcs, ClosingPcs, RunPcs,
              PublishPcs, DbPcs, LogPcs
  <1>1. CASE \E e \in Executions : Deliver(w, e)
    BY <1>1, DeliverFrame
  <1>2. CASE Fault(w)
    BY <1>2, NoRedelivery DEF Fault, LoseChild, Exception
  <1>3. CASE Load(w)
    <2>1. job[w] \in Executions /\ Runs(w, job[w]) /\ pc[w] = "load"
      BY <1>3 DEF Load, Runs
    <2>2. ~Settled(job[w])
      BY <2>1, UnsettledWhileRunning
    <2>3. exec[job[w]].status \in ExecStatuses
      BY <2>1
    <2> QED
      BY <1>3, <2>1, <2>2, <2>3 DEF Load, Settled, Terminal, ExecStatuses, dbVars
  <1>4. CASE BeginRun(w)
    BY <1>4 DEF BeginRun, dbVars
  <1>5. CASE CommitStart(w)
    <2>1. seen[w] = "running" /\ seen'[w] = seen[w] /\ job'[w] = job[w] /\ job[w] \in Executions
      BY <1>5 DEF CommitStart, CarryInv, StartersBelieve
    <2>2. exec'[job[w]].status = "running" /\ pc'[w] = "check"
      BY <1>5, <2>1 DEF CommitStart
    <2> QED
      BY <2>1, <2>2 DEF Terminal
  <1>6. CASE Publish(w)
    <2>1. UNCHANGED <<exec, job, seen>> /\ pc'[w] = AfterPublish(pc[w]) /\ pc[w] \in PublishPcs
      BY <1>6 DEF Publish, dbVars
    <2>2. /\ pc'[w] \in StartPcs => pc[w] \in StartPcs
          /\ pc'[w] \in LoopPcs => pc[w] \in LoopPcs
      BY <2>1 DEF AfterPublish
    <2> HIDE DEF StartPcs, LoopPcs
    <2> QED
      BY <2>1, <2>2
  <1>7. CASE CheckStage(w) \/ NextAttempt(w) \/ CreateStep(w) \/ LogLine(w) \/ RunStage(w)
    <2>1. pc[w] \in LoopPcs /\ pc'[w] \in LoopPcs \cup {"ack"}
      BY <1>7 DEF CheckStage, NextAttempt, CreateStep, LogLine, AfterLog, RunStage
    <2>2. UNCHANGED <<exec, job, seen>>
      BY <1>7 DEF CheckStage, NextAttempt, CreateStep, LogLine, RunStage, dbVars
    <2> QED
      BY <2>1, <2>2
  <1>8. CASE MarkRetrying(w)
    <2>1. /\ job[w] \in Executions /\ pc[w] \in LoopPcs
          /\ exec'[job[w]].status = IF seen[w] = "retrying" THEN exec[job[w]].status ELSE "retrying"
          /\ exec'[job[w]].status = seen'[w]
          /\ pc'[w] = "pubRetrying" /\ job' = job
      BY <1>8 DEF MarkRetrying, WriteStatus
    <2> QED
      BY <2>1 DEF Terminal
  <1>9. CASE MarkFailed(w) \/ MarkSucceeded(w) \/ LogCompleted(w) \/ AutoRetry(w) \/ Ack(w)
    <2>1. pc'[w] \in ClosingPcs \cup {"ack", "idle"}
      BY <1>9 DEF MarkFailed, MarkSucceeded, LogCompleted, AutoRetry, Ack
    <2> QED
      BY <2>1
  <1> QED
    BY <1>1, <1>2, <1>3, <1>4, <1>5, <1>6, <1>7, <1>8, <1>9 DEF Moves, WorkerStep

\* A run works on a stage that has not succeeded yet.
LEMMA OwnStage ==
  ASSUME TypeInv, StepInv, NoneLeft, NEW w \in Workers, StageUndone(w), Moves(w)
  PROVE  StageUndone(w)'
  <1> DEFINE UndonePcs == StagePcs \ (DonePcs \cup ClosingPcs)
  <1> USE DEF TypeInv, TypeOK, Goto, taskVars, dbVars, StagePcs, OpenPcs, FailedPcs, DonePcs,
              ClosingPcs, StageUndone
  <1>1. CASE \E e \in Executions : Deliver(w, e)
    BY <1>1, DeliverFrame
  <1>2. CASE Fault(w)
    BY <1>2, NoRedelivery DEF Fault, LoseChild, Exception
  <1>3. CASE Load(w) \/ BeginRun(w) \/ CommitStart(w) \/ MarkFailed(w) \/ MarkSucceeded(w)
             \/ LogCompleted(w) \/ AutoRetry(w) \/ Ack(w)
    <2>1. CASE Load(w) \/ BeginRun(w) \/ CommitStart(w)
      BY <2>1 DEF Load, BeginRun, CommitStart
    <2>2. CASE MarkFailed(w) \/ MarkSucceeded(w)
      BY <2>2 DEF MarkFailed, MarkSucceeded
    <2>3. CASE LogCompleted(w) \/ AutoRetry(w) \/ Ack(w)
      BY <2>3 DEF LogCompleted, AutoRetry, Ack
    <2> QED
      BY <1>3, <2>1, <2>2, <2>3
  <1>4. CASE Publish(w) \/ NextAttempt(w) \/ LogLine(w) \/ MarkRetrying(w)
    <2>1. steps' = steps /\ job' = job
      BY <1>4 DEF Publish, NextAttempt, LogLine, MarkRetrying, WriteStatus
    <2>2. pc'[w] \in UndonePcs => pc[w] \in UndonePcs /\ stage'[w] = stage[w]
      BY <1>4 DEF Publish, AfterPublish, PublishPcs, NextAttempt, LogLine, AfterLog, LogPcs,
                  MarkRetrying, WriteStatus
    <2> QED
      BY <2>1, <2>2 DEF Succeeded
  <1>5. CASE CheckStage(w)
    <2>1. pc'[w] = "number" => ~Succeeded(job[w], Key(stage[w])) /\ stage'[w] = stage[w]
      BY <1>5 DEF CheckStage
    <2> QED
      BY <1>5, <2>1 DEF CheckStage, Succeeded
  <1>6. CASE CreateStep(w) \/ RunStage(w)
    <2>1. PICK s \in {"running", "failed", "succeeded"} :
            \/ WritesRow(w, s) /\ (s = "succeeded" => pc'[w] = "pubSucceeded")
            \/ pc'[w] = "ack"
      BY <1>6 DEF CreateStep, RunStage, FinishStep, Outcomes, WritesRow
    <2>2. UNCHANGED <<job, stage, attempt>> /\ pc[w] \in UndonePcs \ {"number"}
      BY <1>6 DEF CreateStep, RunStage
    <2>3. /\ job[w] \in Executions /\ Key(stage[w]) \in Keys
          /\ pc[w] \in StagePcs \ {"number"}
      BY <2>2, RowType
    <2> SUFFICES ASSUME pc'[w] \in UndonePcs PROVE ~Succeeded(job[w], Key(stage[w]))'
      BY <2>2
    <2>4. WritesRow(w, s) /\ s # "succeeded"
      BY <2>1
    <2>5. \A a \in Attempts :
            steps'[job[w]][Key(stage[w])][a] =
               IF a = attempt[w] THEN s ELSE steps[job[w]][Key(stage[w])][a]
      BY <2>3, <2>4, RowWrite
    <2> QED
      BY <2>2, <2>4, <2>5 DEF Succeeded
  <1> QED
    BY <1>1, <1>2, <1>3, <1>4, <1>5, <1>6 DEF Moves, WorkerStep

LEMMA RunsKnown ==
  ASSUME TypeInv, StepInv, CarryInv, DeliveryInv, [Next]_vars, NEW w \in Workers
  PROVE  StatusKnown(w)' /\ StageUndone(w)'
  <1>1. /\ NoneLeft /\ StatusKnown(w) /\ StageUndone(w)
        /\ \A e \in Executions : MessageAlone(e) /\ RowSettled(e)
    BY DEF DeliveryInv, NoneLeft
  <1>2. CASE Moves(w)
    BY <1>1, <1>2, OwnStatus, OwnStage
  <1>3. CASE ~Moves(w)
    <2>1. Still(w)
      <3>1. CASE UNCHANGED workerVars
        BY <3>1 DEF workerVars, Still
      <3> QED
        BY <1>3, <3>1, NextCases, OthersStill
    <2>2. CASE pc[w] \in RunPcs \ {"load"}
      <3>1. job[w] \in Executions /\ Runs(w, job[w])
        BY <2>2 DEF Runs, TypeInv, TypeOK, RunPcs, PublishPcs, DbPcs, LogPcs
      <3>2. /\ exec'[job[w]] = exec[job[w]] /\ steps'[job[w]] = steps[job[w]]
            /\ seen'[w] = seen[w]
        BY <1>1, <1>3, <2>2, <3>1, AloneFrame DEF Moves
      <3>3. StatusKnown(w)'
        BY <1>1, <2>1, <3>2 DEF Still, StatusKnown
      <3>4. StageUndone(w)'
        <4> SUFFICES ASSUME pc[w] \in StagePcs \ (DonePcs \cup ClosingPcs)
                     PROVE  ~Succeeded(job[w], Key(stage[w]))'
          BY <2>1 DEF Still, StageUndone
        <4>1. ~Succeeded(job[w], Key(stage[w]))
          BY <1>1 DEF StageUndone
        <4> QED
          BY <2>1, <3>2, <4>1 DEF Still, Succeeded
      <3> QED
        BY <3>3, <3>4
    <2>3. CASE pc[w] \notin RunPcs \ {"load"}
      <3>1. pc'[w] \notin StartPcs \cup LoopPcs \cup StagePcs
        BY <2>1, <2>3
           DEF Still, StartPcs, LoopPcs, StagePcs, OpenPcs, FailedPcs, DonePcs, RunPcs,
               PublishPcs, DbPcs, LogPcs
      <3> QED
        BY <3>1 DEF StatusKnown, StageUndone
    <2> QED
      BY <2>2, <2>3
  <1> QED
    BY <1>2, <1>3

\* A run that closes has no way back.
LEMMA ClosingStays ==
  ASSUME TypeInv, [Next]_vars, NEW w \in Workers, pc[w] \in ClosingPcs, pc'[w] \in RunPcs
  PROVE  pc'[w] \in ClosingPcs
  <1> USE DEF TypeInv, TypeOK, ClosingPcs, Goto
  <1>1. CASE WorkerStep(w)
    <2>1. Publish(w) \/ LogCompleted(w)
      BY <1>1
         DEF WorkerStep, Load, BeginRun, CommitStart, CheckStage, NextAttempt, CreateStep,
             LogLine, LogPcs, RunStage, MarkRetrying, MarkFailed, MarkSucceeded, AutoRetry, Ack
    <2>2. pc'[w] \in ClosingPcs \cup {"ack"}
      BY <2>1 DEF Publish, AfterPublish, LogCompleted
    <2> QED
      BY <2>2 DEF RunPcs, PublishPcs, DbPcs, LogPcs
  <1>2. CASE Fault(w)
    BY <1>2 DEF Fault, Crash, Disconnect, LoseChild, Exception, RunPcs, PublishPcs, DbPcs, LogPcs
  <1>3. ~ \E e \in Executions : Deliver(w, e)
    BY DEF Deliver
  <1>4. CASE Still(w)
    BY <1>4 DEF Still
  <1> QED
    BY <1>1, <1>2, <1>3, <1>4, NextCases, OthersStill DEF Moves, workerVars, Still

LEMMA RowSettledStep ==
  ASSUME TypeInv, StepInv, CarryInv, DeliveryInv, [Next]_vars, NEW e \in Executions
  PROVE  RowSettled(e)'
  <1>1. NoneLeft /\ MessageAlone(e) /\ RowSettled(e) /\ MessageAlone(e)'
    <2>1. NoneLeft /\ MessageAlone(e) /\ RowSettled(e)
      BY DEF DeliveryInv, NoneLeft
    <2> QED
      BY <2>1, MessageAloneStep
  <1>2. exec[e] \in [status : ExecStatuses, result : BOOLEAN, error : BOOLEAN]
    BY DEF TypeInv, TypeOK
  <1>3. CASE exec'[e] = exec[e]
    <2>1. CASE Settled(e)
      <3>1. ready'[e] = ready[e]
        <4>1. ~SendTask(e)
          BY <2>1 DEF SendTask, CarryInv, CommittedFirst, Settled, Terminal
        <4>2. ~ \E w \in Workers : Deliver(w, e)
          BY <1>1, <2>1, DeliverFrame DEF RowSettled, Waiting
        <4>3. ASSUME NEW w \in Workers, AutoRetry(w), job[w] = e PROVE FALSE
          BY <1>1, <2>1, <4>3, WritersRun DEF RowSettled
        <4> QED
          BY <1>1, <4>1, <4>2, <4>3, ReadyFrame
      <3>2. ASSUME NEW w \in Workers, Runs(w, e)' PROVE pc'[w] \in ClosingPcs
        <4>1. ~Deliver(w, e)
          BY <1>1, <2>1, DeliverFrame DEF RowSettled, Waiting
        <4>2. Runs(w, e)
          BY <3>2, <4>1, RunsFrame
        <4>3. pc[w] \in ClosingPcs
          BY <1>1, <2>1, <4>2 DEF RowSettled
        <4> QED
          BY <3>2, <4>3, ClosingStays DEF Runs
      <3> QED
        BY <1>1, <1>3, <3>1, <3>2 DEF RowSettled, Settled
    <2>2. CASE ~Settled(e)
      BY <1>1, <1>3, <2>2 DEF RowSettled, Settled
    <2> QED
      BY <2>1, <2>2
  <1>4. CASE CommitTrigger(e)
    <2>1. exec[e].status = "none"
      BY <1>4 DEF CommitTrigger, CarryInv, CommittedFirst
    <2>2. exec'[e] = [exec[e] EXCEPT !.status = "queued"]
      BY <1>4 DEF CommitTrigger, TypeInv, TypeOK
    <2> QED
      BY <1>1, <1>2, <2>1, <2>2 DEF RowSettled, Settled, Terminal
  <1>5. ASSUME NEW w \in Workers, job[w] = e,
               CommitStart(w) \/ MarkRetrying(w) \/ MarkFailed(w) \/ MarkSucceeded(w)
        PROVE  RowSettled(e)'
    <2>1. /\ Runs(w, e) /\ pc[w] \in RunPcs \ ({"load"} \cup ClosingPcs)
          /\ StatusKnown(w) /\ UNCHANGED <<ready, job>>
      BY <1>5, WritersRun
         DEF DeliveryInv, CommitStart, MarkRetrying, MarkFailed, MarkSucceeded, WriteStatus, taskVars
    <2>2. ~Settled(e)
      BY <1>1, <2>1, UnsettledWhileRunning
    <2>3. exec[e].result = FALSE /\ exec[e].error = FALSE
      BY <1>1, <1>2, <2>2 DEF RowSettled, Settled, Terminal
    <2>4. CASE CommitStart(w)
      <3>1. exec'[e] = [exec[e] EXCEPT !.status = "running"]
        BY <1>5, <2>4 DEF CommitStart, TypeInv, TypeOK
      <3> QED
        BY <1>2, <2>3, <3>1 DEF RowSettled, Settled, Terminal
    <2>5. CASE MarkRetrying(w)
      <3>1. /\ exec'[e].status \in {exec[e].status, "retrying"}
            /\ exec'[e].result = FALSE /\ exec'[e].error = FALSE
        BY <1>2, <1>5, <2>3, <2>5 DEF MarkRetrying, WriteStatus, TypeInv, TypeOK
      <3> QED
        BY <2>2, <3>1 DEF RowSettled, Settled, Terminal
    <2>6. CASE MarkFailed(w) \/ MarkSucceeded(w)
      <3>1. seen[w] \notin Terminal
        BY <2>1, <2>6 DEF StatusKnown, LoopPcs, StartPcs, MarkFailed, MarkSucceeded, Goto
      <3>2. /\ \/ exec'[e] = [status |-> "failed", result |-> FALSE, error |-> TRUE]
               \/ exec'[e] = [status |-> "succeeded", result |-> TRUE, error |-> FALSE]
            /\ pc'[w] \in ClosingPcs
        BY <1>2, <1>5, <2>3, <2>6, <3>1
           DEF MarkFailed, MarkSucceeded, WriteStatus, Goto, Terminal, ClosingPcs, TypeInv, TypeOK
      <3>3. \A r \in RetryCounts : ready'[e][r] = 0
        BY <1>1, <2>1 DEF MessageAlone, TypeInv, TypeOK
      <3>4. ASSUME NEW v \in Workers, Runs(v, e)' PROVE v = w
        <4>1. Runs(v, e)
          <5>1. ~Deliver(v, e)
            BY <3>3, <2>1 DEF Deliver
          <5> QED
            BY <3>4, <5>1, RunsFrame
        <4> QED
          BY <1>1, <2>1, <4>1 DEF MessageAlone
      <3> QED
        BY <3>2, <3>3, <3>4 DEF RowSettled, Settled, Terminal
    <2> QED
      BY <1>5, <2>4, <2>5, <2>6
  <1> QED
    BY <1>3, <1>4, <1>5, RowFrame

\* A worker that leaves an open row behind has finished it or given it up.
LEMMA OpenPcsStep ==
  ASSUME TypeInv, NoneLeft, NEW w \in Workers, pc[w] \in OpenPcs, WorkerStep(w) \/ Fault(w)
  PROVE  \/ pc'[w] \in OpenPcs /\ UNCHANGED <<job, stage, attempt>>
         \/ RunStage(w)
         \/ pc'[w] = "ack" /\ UNCHANGED <<exec, ready, job>>
  <1> USE DEF TypeInv, TypeOK, OpenPcs, Goto, taskVars, dbVars
  <1>1. CASE Fault(w)
    BY <1>1, NoRedelivery DEF Fault, LoseChild, Exception
  <1>2. CASE WorkerStep(w)
    <2>1. Publish(w) \/ LogLine(w) \/ RunStage(w)
      BY <1>2
         DEF WorkerStep, Load, BeginRun, CommitStart, CheckStage, NextAttempt, CreateStep,
             MarkRetrying, MarkFailed, MarkSucceeded, LogCompleted, AutoRetry, Ack
    <2> QED
      BY <2>1 DEF Publish, AfterPublish, PublishPcs, LogLine, AfterLog, LogPcs
  <1> QED
    BY <1>1, <1>2

LEMMA OpenRowStep ==
  ASSUME TypeInv, StepInv, CarryInv, DeliveryInv, [Next]_vars,
         NEW e \in Executions, NEW k \in Keys, NEW a \in Attempts,
         steps[e][k][a] = "running", steps'[e][k][a] = "running"
  PROVE  OpenRow(e, k, a)'
  <1>1. /\ NoneLeft /\ MessageAlone(e) /\ RowSettled(e) /\ MessageAlone(e)'
        /\ OpenRow(e, k, a) /\ Committed(e)
    <2>1. /\ NoneLeft /\ MessageAlone(e) /\ RowSettled(e)
          /\ OpenRow(e, k, a) /\ Committed(e)
      BY DEF DeliveryInv, NoneLeft, RowsOwned
    <2> QED
      BY <2>1, MessageAloneStep
  <1>2. ~SendTask(e)
    BY <1>1 DEF SendTask, CarryInv, CommittedFirst, Committed
  <1>3. InHand(e)' <=> Waiting(e)' \/ \E v \in Workers : Runs(v, e)'
    BY DEF InHand, Waiting, Runs
  <1>4. ASSUME NEW w \in Workers, job[w] = e, pc[w] \in OpenPcs, Key(stage[w]) = k, attempt[w] = a
        PROVE  OpenRow(e, k, a)'
    <2>1. Runs(w, e) /\ pc[w] \notin ClosingPcs /\ pc[w] # "load"
      BY <1>4 DEF Runs, OpenPcs, ClosingPcs, RunPcs, PublishPcs, DbPcs, LogPcs
    <2>2. ~Settled(e)
      BY <1>1, <2>1, UnsettledWhileRunning
    <2>3. CASE pc'[w] \in OpenPcs /\ UNCHANGED <<job, stage, attempt>>
      BY <1>4, <2>3 DEF OpenRow
    <2>4. CASE Still(w)
      BY <1>4, <2>4 DEF Still, OpenRow
    <2>5. ~RunStage(w)
      <3> SUFFICES ASSUME RunStage(w) PROVE FALSE
        OBVIOUS
      <3>1. PICK s \in {"succeeded", "failed"} : WritesRow(w, s)
        BY DEF RunStage, FinishStep, WritesRow, Outcomes
      <3>2. pc[w] \in StagePcs \ {"number"}
        BY <1>4 DEF StagePcs, OpenPcs
      <3>3. steps'[e][k][a] = s
        BY <1>4, <3>1, <3>2, RowWrite
      <3> QED
        BY <3>3
    <2>6. CASE pc'[w] = "ack" /\ UNCHANGED <<exec, ready, job>>
      <3>1. ~Waiting(e)'
        BY <1>1, <2>1, <2>6 DEF MessageAlone, Waiting
      <3>2. ASSUME NEW v \in Workers PROVE ~Runs(v, e)'
        <4>1. ~Deliver(v, e)
          BY <1>1, <2>1, DeliverFrame DEF MessageAlone, Waiting
        <4>2. Runs(v, e)' => v = w
          BY <1>1, <2>1, <4>1, RunsFrame DEF MessageAlone
        <4> QED
          BY <2>6, <4>2 DEF Runs, RunPcs, PublishPcs, DbPcs, LogPcs
      <3> QED
        BY <1>3, <2>2, <2>6, <3>1, <3>2 DEF OpenRow, Settled
    <2>7. CASE WorkerStep(w) \/ Fault(w)
      BY <1>1, <1>4, <2>3, <2>5, <2>6, <2>7, OpenPcsStep
    <2>8. CASE ~WorkerStep(w) /\ ~Fault(w)
      BY <1>1, <2>1, <2>4, <2>8, AloneFrame
    <2> QED
      BY <2>7, <2>8
  <1>5. CASE ~InHand(e) /\ ~Settled(e)
    <2>1. ~Waiting(e) /\ \A v \in Workers : ~Runs(v, e)
      BY <1>5, HandsAre
    <2>2. \A v \in Workers : ~Deliver(v, e) /\ ~(AutoRetry(v) /\ job[v] = e)
      BY <2>1, DeliverFrame, WritersRun
    <2>3. ~Waiting(e)'
      BY <1>1, <1>2, <2>1, <2>2, ReadyFrame DEF Waiting
    <2>4. \A v \in Workers : ~Runs(v, e)'
      BY <2>1, <2>2, RunsFrame
    <2>5. exec'[e] = exec[e]
      <3>1. ~CommitTrigger(e)
        BY <1>1 DEF CommitTrigger, CarryInv, CommittedFirst, Committed
      <3> QED
        BY <2>1, <3>1, RowFrame, WritersRun
    <2> QED
      BY <1>3, <1>5, <2>3, <2>4, <2>5 DEF OpenRow, Settled
  <1> QED
    BY <1>1, <1>4, <1>5 DEF OpenRow

LEMMA RowsOwnedStep ==
  ASSUME TypeInv, StepInv, CarryInv, DeliveryInv, [Next]_vars
  PROVE  RowsOwned'
  <1> SUFFICES ASSUME NEW e \in Executions, NEW k \in Keys, NEW a \in Attempts
               PROVE  /\ steps'[e][k][a] # "absent" => Committed(e)'
                      /\ steps'[e][k][a] = "running" => OpenRow(e, k, a)'
    BY DEF RowsOwned
  <1>1. CASE steps'[e][k][a] = steps[e][k][a]
    <2>1. steps[e][k][a] # "absent" => Committed(e)'
      BY CommittedStays DEF DeliveryInv, RowsOwned, Committed
    <2> QED
      BY <1>1, <2>1, OpenRowStep
  <1>2. CASE steps'[e][k][a] # steps[e][k][a]
    <2>1. PICK w \in Workers : job[w] = e /\ (CreateStep(w) \/ RunStage(w))
      BY <1>2, StepRowsFrame
    <2>2. Committed(e)'
      <3>1. exec[e].status # "none"
        BY <2>1, WritersRun DEF CarryInv, CommittedFirst
      <3> QED
        BY <3>1, CommittedStays DEF Committed
    <2>3. PICK s \in {"running", "succeeded", "failed"} :
            /\ WritesRow(w, s)
            /\ s = "running" => pc'[w] = "pubStep" /\ UNCHANGED taskVars
      BY <1>2, <2>1
         DEF CreateStep, RunStage, FinishStep, Outcomes, WritesRow, Goto, TypeInv, TypeOK
    <2>4. pc[w] \in StagePcs \ {"number"}
      BY <2>1 DEF CreateStep, RunStage, Goto, StagePcs, OpenPcs
    <2>5. k = Key(stage[w]) /\ a = attempt[w] /\ steps'[e][k][a] = s
      BY <1>2, <2>1, <2>3, <2>4, RowWrite
    <2> QED
      BY <2>1, <2>2, <2>3, <2>5 DEF OpenRow, OpenPcs, taskVars
  <1> QED
    BY <1>1, <1>2

LEMMA DeliveryInit == SingleDelivery /\ Init => DeliveryInv
  <1> SUFFICES ASSUME SingleDelivery, Init PROVE DeliveryInv
    OBVIOUS
  <1>1. faults["crash"] = 0 /\ faults["disconnect"] = 0
    BY DEF SingleDelivery, Init
  <1>2. /\ \A w \in Workers : pc[w] = "idle"
        /\ \A e \in Executions, r \in RetryCounts : ready[e][r] = 0
        /\ \A e \in Executions : exec[e] = [status |-> "none", result |-> FALSE, error |-> FALSE]
        /\ \A e \in Executions, k \in Keys, a \in Attempts : steps[e][k][a] = "absent"
    BY DEF Init
  <1>3. "idle" \notin RunPcs
    BY DEF RunPcs, PublishPcs, DbPcs, LogPcs
  <1>4. \A e \in Executions : MessageAlone(e) /\ RowSettled(e)
    BY <1>2, <1>3 DEF MessageAlone, RowSettled, Runs, InHand, Settled, Terminal
  <1>5. \A w \in Workers : StatusKnown(w) /\ StageUndone(w)
    BY <1>2, <1>3
       DEF StatusKnown, StageUndone, StartPcs, LoopPcs, StagePcs, OpenPcs, FailedPcs
  <1> QED
    BY <1>1, <1>2, <1>4, <1>5 DEF DeliveryInv, RowsOwned

\* Without redelivery the only message of an execution is in one place, its run
\* knows the status, and a step row that is running has its run.
LEMMA DeliveryInvariant == SingleDelivery => (Spec => []DeliveryInv)
  <1>1. SafetyInv /\ CarryInv /\ DeliveryInv /\ [Next]_vars => DeliveryInv'
    <2> SUFFICES ASSUME SafetyInv, CarryInv, DeliveryInv, [Next]_vars PROVE DeliveryInv'
      OBVIOUS
    <2>1. TypeInv /\ StepInv /\ NoneLeft
      BY DEF SafetyInv, DeliveryInv, NoneLeft
    <2>2. NoneLeft'
      BY <2>1, NoneLeftStep
    <2>3. \A e \in Executions : MessageAlone(e)' /\ RowSettled(e)'
      BY <2>1, MessageAloneStep, RowSettledStep DEF DeliveryInv
    <2>4. \A w \in Workers : StatusKnown(w)' /\ StageUndone(w)'
      BY <2>1, RunsKnown
    <2> QED
      BY <2>1, <2>2, <2>3, <2>4, RowsOwnedStep DEF DeliveryInv, NoneLeft
  <1> QED
    BY DeliveryInit, <1>1, SafetyInvariant, CarryInvariant, PTL DEF Spec

\* A set whose members are all equal has at most one.
LEMMA AtMostOne ==
  ASSUME NEW S, \A x, y \in S : x = y
  PROVE  Cardinality(S) \in 0..1
  <1>1. CASE S = {}
    BY <1>1, FS_EmptySet
  <1>2. CASE S # {}
    <2>1. PICK x \in S : TRUE
      BY <1>2
    <2>2. S = {x}
      BY <2>1
    <2> QED
      BY <2>2, FS_Singleton
  <1> QED
    BY <1>1, <1>2

\* Without redelivery an execution has one message at a time, waiting or being
\* run (send_task once, AutoRetry's new message before the old one is settled).
THEOREM OneMessageAtATime == SingleDelivery => (Spec => []OneMessage)
  <1>1. TypeInv /\ DeliveryInv => OneMessage
    <2> SUFFICES ASSUME TypeInv, DeliveryInv, NEW e \in Executions
                 PROVE  LET waiting == {r \in RetryCounts : ready[e][r] > 0}
                            running == {w \in Workers : job[w] = e /\ pc[w] # "ack"}
                        IN  /\ Cardinality(waiting) + Cardinality(running) <= 1
                            /\ \A r \in waiting : ready[e][r] = 1
      BY DEF OneMessage
    <2> DEFINE waiting == {r \in RetryCounts : ready[e][r] > 0}
               running == {w \in Workers : job[w] = e /\ pc[w] # "ack"}
    <2>1. MessageAlone(e)
      BY DEF DeliveryInv
    <2>2. \A w \in running : Runs(w, e)
      BY ConstantsType DEF Runs, TypeInv, TypeOK, Pcs
    <2>3. Cardinality(waiting) \in 0..1
      <3>1. \A q, r \in waiting : q = r
        BY <2>1 DEF MessageAlone
      <3> HIDE DEF waiting
      <3> QED
        BY <3>1, AtMostOne
    <2>4. Cardinality(running) \in 0..1
      <3>1. \A v, w \in running : v = w
        BY <2>1, <2>2 DEF MessageAlone
      <3> HIDE DEF running
      <3> QED
        BY <3>1, AtMostOne
    <2>5. waiting = {} \/ running = {}
      BY <2>1, <2>2 DEF MessageAlone
    <2>6. \A r \in waiting : ready[e][r] = 1
      BY <2>1 DEF MessageAlone, TypeInv, TypeOK
    <2>7. Cardinality({}) = 0
      BY FS_EmptySet
    <2> HIDE DEF waiting, running
    <2>8. Cardinality(waiting) + Cardinality(running) <= 1
      BY <2>3, <2>4, <2>5, <2>7
    <2> QED
      BY <2>6, <2>8 DEF waiting, running
  <1> QED
    BY <1>1, TypeInvariant, DeliveryInvariant, PTL

\* Without redelivery a finished execution has the outcome it says it has and no
\* step left running (update_execution_status last, finish_step before it).
THEOREM SettledRowsAlwaysAgree == SingleDelivery => (Spec => []SettledRowsAgree)
  <1>1. DeliveryInv => SettledRowsAgree
    <2> SUFFICES ASSUME DeliveryInv, NEW e \in Executions, Settled(e)
                 PROVE  /\ exec[e].result <=> exec[e].status = "succeeded"
                        /\ exec[e].error  <=> exec[e].status = "failed"
                        /\ \A k \in Keys, a \in Attempts : steps[e][k][a] # "running"
      BY DEF SettledRowsAgree
    <2>1. RowSettled(e)
      BY DEF DeliveryInv
    <2>2. ASSUME NEW k \in Keys, NEW a \in Attempts, steps[e][k][a] = "running"
          PROVE  FALSE
      <3>1. PICK w \in Workers : job[w] = e /\ pc[w] \in OpenPcs
        BY <2>2 DEF DeliveryInv, RowsOwned, OpenRow
      <3>2. Runs(w, e) /\ pc[w] \notin ClosingPcs
        BY <3>1 DEF Runs, OpenPcs, ClosingPcs, RunPcs, PublishPcs, DbPcs, LogPcs
      <3> QED
        BY <2>1, <3>2, UnsettledWhileRunning
    <2> QED
      BY <2>1, <2>2 DEF RowSettled
  <1> QED
    BY <1>1, DeliveryInvariant, PTL

\* Without redelivery no stage is started again once it succeeded, although the
\* look for a succeeded step and the INSERT are different transactions.
THEOREM SucceededNeverRedone == SingleDelivery => (Spec => SucceededNotRedone)
  <1>1. TypeInv /\ DeliveryInv /\ [Next]_vars =>
          [\A e \in Executions, k \in Keys :
             Succeeded(e, k) => \A a \in Attempts :
                steps[e][k][a] = "absent" => steps'[e][k][a] = "absent"]_vars
    <2> SUFFICES ASSUME TypeInv, DeliveryInv, [Next]_vars,
                        NEW e \in Executions, NEW k \in Keys, Succeeded(e, k),
                        NEW a \in Attempts, steps[e][k][a] = "absent",
                        steps'[e][k][a] # "absent"
                 PROVE  FALSE
      OBVIOUS
    <2>1. PICK w \in Workers : job[w] = e /\ (CreateStep(w) \/ RunStage(w))
      BY StepRowsFrame
    <2>2. pc[w] \in {"create", "simulate"}
      BY <2>1 DEF CreateStep, RunStage, Goto
    <2>3. pc[w] \in StagePcs \ {"number"} /\ ~Succeeded(e, Key(stage[w]))
      BY <2>1, <2>2 DEF DeliveryInv, StageUndone, StagePcs, OpenPcs, DonePcs, ClosingPcs
    <2>4. PICK s : WritesRow(w, s)
      BY <2>1 DEF CreateStep, RunStage, FinishStep, WritesRow
    <2> QED
      BY <2>1, <2>3, <2>4, RowWrite
  <1> QED
    BY <1>1, TypeInvariant, DeliveryInvariant, PTL DEF Spec, SucceededNotRedone

----------------------------------------------------------------------------
(* Counting failures: without redelivery the retries header counts them.     *)

StageKeySet == {Key(i) : i \in DOMAIN Stages}

\* An execution has finitely many step rows, however many keys there may be.
LEMMA StageRowsFinite == IsFiniteSet(StageKeySet \X Attempts)
  <1>1. IsFiniteSet(DOMAIN Stages)
    BY StagesType, FS_Interval
  <1>2. [i \in DOMAIN Stages |-> Key(i)] \in Surjection(DOMAIN Stages, StageKeySet)
    BY DEF Surjection, StageKeySet
  <1>3. IsFiniteSet(StageKeySet)
    BY <1>1, <1>2, FS_Surjection
  <1>4. IsFiniteSet(Attempts)
    BY ConstantsType, FS_Interval DEF Attempts
  <1> QED
    BY <1>3, <1>4, FS_Product

LEMMA FailedRowsFinite ==
  ASSUME TypeInv, StagesInOrder, NEW e \in Executions
  PROVE  IsFiniteSet(FailedRows(e)) /\ Cardinality(FailedRows(e)) \in Nat
  <1>1. FailedRows(e) \in SUBSET (StageKeySet \X Attempts)
    <2> SUFFICES ASSUME NEW row \in FailedRows(e) PROVE row \in StageKeySet \X Attempts
      OBVIOUS
    <2>1. PICK k \in Keys, a \in Attempts : row = <<k, a>>
      BY DEF FailedRows
    <2>2. steps[e][k][a] = "failed"
      BY <2>1 DEF FailedRows
    <2>3. k \in StageKeySet
      BY <2>2 DEF StagesInOrder, StageKeySet
    <2> QED
      BY <2>1, <2>3
  <1>2. IsFiniteSet(FailedRows(e))
    BY <1>1, StageRowsFinite, FS_Subset
  <1> QED
    BY <1>2, FS_CardinalityType

LEMMA FailedRowsSame ==
  ASSUME NEW e \in Executions,
         \A k \in Keys, a \in Attempts : steps'[e][k][a] = "failed" <=> steps[e][k][a] = "failed"
  PROVE  FailedRows(e)' = FailedRows(e)
  <1>1. \A row \in Keys \X Attempts :
           steps'[e][row[1]][row[2]] = "failed" <=> steps[e][row[1]][row[2]] = "failed"
    OBVIOUS
  <1> QED
    BY <1>1 DEF FailedRows

\* A stage that fails adds its row.
LEMMA FailedStage ==
  ASSUME TypeInv, StepInv, NEW w \in Workers, RunStage(w), pc'[w] = "pubFailed",
         NEW e \in Executions, job[w] = e
  PROVE  \E row \in Keys \X Attempts :
            /\ row \notin FailedRows(e)
            /\ FailedRows(e)' = FailedRows(e) \cup {row}
  <1> DEFINE k == Key(stage[w])
             a == attempt[w]
  <1>1. pc[w] \in StagePcs \ {"number"} /\ pc[w] \in OpenPcs
    BY DEF RunStage, StagePcs, OpenPcs
  <1>2. k \in Keys /\ a \in Attempts
    BY <1>1, RowType
  <1>3. WritesRow(w, "failed")
    BY DEF RunStage, FinishStep, Outcomes, WritesRow, TypeInv, TypeOK
  <1>4. steps[e][k][a] = "running"
    BY <1>1 DEF StepInv, RunInv, RowHeld
  <1>5. \A k2 \in Keys, a2 \in Attempts :
          steps'[e][k2][a2] = IF k2 = k /\ a2 = a THEN "failed" ELSE steps[e][k2][a2]
    BY <1>1, <1>2, <1>3, RowWrite
  <1> HIDE DEF k, a
  <1>6. <<k, a>> \in Keys \X Attempts /\ <<k, a>> \notin FailedRows(e)
    BY <1>2, <1>4 DEF FailedRows
  <1>7. \A row \in Keys \X Attempts :
          steps'[e][row[1]][row[2]] = "failed"
             <=> row = <<k, a>> \/ steps[e][row[1]][row[2]] = "failed"
    BY <1>2, <1>5
  <1>8. FailedRows(e)' = FailedRows(e) \cup {<<k, a>>}
    BY <1>6, <1>7 DEF FailedRows
  <1> QED
    BY <1>6, <1>8

\* Nothing else changes the set.
LEMMA FailedRowsStep ==
  ASSUME TypeInv, StepInv, [Next]_vars, NEW e \in Executions,
         \A w \in Workers : ~(job[w] = e /\ RunStage(w) /\ pc'[w] = "pubFailed")
  PROVE  FailedRows(e)' = FailedRows(e)
  <1>1. CASE steps'[e] = steps[e]
    BY <1>1 DEF FailedRows
  <1>2. CASE steps'[e] # steps[e]
    <2>1. PICK w \in Workers : job[w] = e /\ (CreateStep(w) \/ RunStage(w))
      BY <1>2, StepRowsFrame
    <2>2. pc[w] \in StagePcs \ {"number"}
      BY <2>1 DEF CreateStep, RunStage, Goto, StagePcs, OpenPcs
    <2>3. PICK s \in {"running", "succeeded"} : WritesRow(w, s)
      BY <1>2, <2>1
         DEF CreateStep, RunStage, FinishStep, Outcomes, WritesRow, TypeInv, TypeOK
    <2>4. steps[e][Key(stage[w])][attempt[w]] \in {"absent", "running"}
      <3>1. CASE RunStage(w)
        BY <2>1, <3>1 DEF StepInv, RunInv, RowHeld, OpenPcs, RunStage
      <3>2. CASE CreateStep(w)
        BY <1>2, <2>1, <3>2 DEF CreateStep
      <3> QED
        BY <2>1, <3>1, <3>2
    <2>5. \A k \in Keys, a \in Attempts :
            steps'[e][k][a] =
               IF k = Key(stage[w]) /\ a = attempt[w] THEN s ELSE steps[e][k][a]
      BY <2>1, <2>2, <2>3, RowWrite
    <2> QED
      BY <2>4, <2>5, FailedRowsSame
  <1> QED
    BY <1>1, <1>2

\* Nobody but the run itself changes its retries header or its phase.
LEMMA RetriesFrame ==
  ASSUME TypeInv, NoneLeft, [Next]_vars, NEW w \in Workers, NEW e \in Executions,
         Runs(w, e), Runs(w, e)', ~RunStage(w), pc'[w] \notin ClosingPcs
  PROVE  /\ retries'[w] = retries[w]
         /\ pc'[w] \in FailedPcs <=> pc[w] \in FailedPcs
  <1> USE DEF TypeInv, TypeOK, Runs, Goto, taskVars
  <1>1. CASE WorkerStep(w)
    <2>1. retries'[w] = retries[w]
      <3>1. ~Ack(w)
        BY DEF Ack, RunPcs, PublishPcs, DbPcs, LogPcs
      <3> QED
        BY <1>1, <3>1
           DEF WorkerStep, Load, BeginRun, CommitStart, Publish, CheckStage, NextAttempt,
               CreateStep, LogLine, RunStage, MarkRetrying, MarkFailed, MarkSucceeded,
               WriteStatus, LogCompleted, AutoRetry
    <2>2. pc'[w] \in FailedPcs <=> pc[w] \in FailedPcs
      <3> USE DEF FailedPcs, ClosingPcs
      <3>1. pc'[w] # "ack" /\ pc'[w] # "idle"
        BY DEF RunPcs, PublishPcs, DbPcs, LogPcs
      <3>2. CASE Publish(w)
        BY <3>1, <3>2 DEF Publish, AfterPublish, PublishPcs
      <3>3. CASE LogLine(w)
        BY <3>3 DEF LogLine, AfterLog, LogPcs
      <3>4. CASE Load(w) \/ BeginRun(w) \/ CommitStart(w) \/ CheckStage(w) \/ NextAttempt(w)
                 \/ CreateStep(w)
        BY <3>1, <3>4 DEF Load, BeginRun, CommitStart, CheckStage, NextAttempt, CreateStep
      <3>5. CASE MarkRetrying(w) \/ MarkFailed(w) \/ MarkSucceeded(w)
        BY <3>1, <3>5 DEF MarkRetrying, MarkFailed, MarkSucceeded
      <3>6. CASE LogCompleted(w) \/ AutoRetry(w) \/ Ack(w)
        BY <3>1, <3>6 DEF LogCompleted, AutoRetry, Ack
      <3> QED
        BY <1>1, <3>2, <3>3, <3>4, <3>5, <3>6 DEF WorkerStep
    <2> QED
      BY <2>1, <2>2
  <1>2. ~Fault(w)
    BY NoRedelivery DEF Fault, LoseChild, Exception, RunPcs, PublishPcs, DbPcs, LogPcs
  <1>3. ~ \E x \in Executions : Deliver(w, x)
    BY DEF Deliver, RunPcs, PublishPcs, DbPcs, LogPcs
  <1>4. ASSUME NEW v \in Workers, v # w, Moves(v)
        PROVE  retries'[w] = retries[w] /\ pc'[w] = pc[w]
    <2>1. pc'[w] = pc[w]
      BY <1>4, OthersStill DEF Still
    <2>2. CASE Fault(v) \/ Ack(v)
      <3>1. retries' = retries \/ retries' = [retries EXCEPT ![v] = 0]
        BY <2>2, NoRedelivery DEF Fault, LoseChild, Exception, Ack, Release
      <3> QED
        BY <1>4, <2>1, <3>1
    <2>3. CASE WorkerStep(v) /\ ~Ack(v)
      BY <2>1, <2>3
         DEF WorkerStep, Load, BeginRun, CommitStart, Publish, CheckStage, NextAttempt,
             CreateStep, LogLine, RunStage, MarkRetrying, MarkFailed, MarkSucceeded,
             WriteStatus, LogCompleted, AutoRetry
    <2>4. CASE \E x \in Executions : Deliver(v, x)
      BY <1>4, <2>4 DEF Deliver
    <2> QED
      BY <1>4, <2>1, <2>2, <2>3, <2>4 DEF Moves
  <1>5. UNCHANGED workerVars => retries'[w] = retries[w] /\ pc'[w] = pc[w]
    BY DEF workerVars
  <1> QED
    BY <1>1, <1>2, <1>3, <1>4, <1>5, NextCases DEF Moves

Counts(w, e) ==
    Cardinality(FailedRows(e)) = retries[w] + (IF pc[w] \in FailedPcs THEN 1 ELSE 0)

LEMMA WaitingCount ==
  ASSUME SafetyInv, CarryInv, DeliveryInv, RetriesCount, [Next]_vars, NEW e \in Executions,
         NEW r \in RetryCounts, ready'[e][r] > 0
  PROVE  Cardinality(FailedRows(e)') = r
  <1>1. /\ TypeInv /\ StepInv /\ NoneLeft /\ MessageAlone(e) /\ MessageAlone(e)'
    <2>1. TypeInv /\ StepInv /\ NoneLeft /\ MessageAlone(e)
      BY DEF SafetyInv, DeliveryInv, NoneLeft
    <2> QED
      BY <2>1, MessageAloneStep
  <1>2. FailedRows(e)' = FailedRows(e)
    <2> SUFFICES ASSUME NEW w \in Workers, job[w] = e, RunStage(w), pc'[w] = "pubFailed"
                 PROVE  FALSE
      BY <1>1, FailedRowsStep
    <2>1. Runs(w, e)'
      BY <1>1 DEF RunStage, taskVars, Runs, RunPcs, PublishPcs
    <2> QED
      BY <1>1, <2>1 DEF MessageAlone
  <1>3. CASE ready'[e] = ready[e]
    BY <1>2, <1>3 DEF RetriesCount
  <1>4. CASE SendTask(e)
    <2>1. ~Waiting(e) /\ api[e] = "created"
      BY <1>1, <1>4, HandsAre DEF SendTask, MessageAlone
    <2>2. r = 0
      BY <1>1, <1>4, <2>1 DEF SendTask, Waiting, TypeInv, TypeOK
    <2>3. FailedRows(e) = {}
      BY <2>1 DEF RetriesCount
    <2> QED
      BY <1>2, <2>2, <2>3, FS_EmptySet
  <1>5. ASSUME NEW w \in Workers, Deliver(w, e) PROVE FALSE
    <2>1. Runs(w, e)'
      BY <1>1, <1>5, DeliverFrame DEF Runs, RunPcs, DbPcs
    <2> QED
      BY <1>1, <2>1 DEF MessageAlone
  <1>6. ASSUME NEW w \in Workers, AutoRetry(w), job[w] = e
        PROVE  Cardinality(FailedRows(e)) = r
    <2>1. Runs(w, e) /\ pc[w] \notin ClosingPcs /\ pc[w] \in FailedPcs
      BY <1>1, <1>6, WritersRun DEF AutoRetry, Goto, FailedPcs
    <2>2. Cardinality(FailedRows(e)) = retries[w] + 1
      BY <2>1 DEF RetriesCount
    <2>3. \A q \in RetryCounts : ~(ready[e][q] > 0)
      BY <1>1, <2>1 DEF MessageAlone
    <2>4. r = retries[w] + 1
      BY <1>1, <1>6, <2>3 DEF AutoRetry, TypeInv, TypeOK
    <2> QED
      BY <2>2, <2>4
  <1> QED
    BY <1>1, <1>2, <1>3, <1>4, <1>5, <1>6, ReadyFrame

LEMMA RunningCount ==
  ASSUME SafetyInv, CarryInv, DeliveryInv, RetriesCount, [Next]_vars, NEW e \in Executions,
         NEW w \in Workers, Runs(w, e)', pc'[w] \notin ClosingPcs
  PROVE  Counts(w, e)'
  <1>1. /\ TypeInv /\ StepInv /\ NoneLeft /\ MessageAlone(e) /\ MessageAlone(e)'
    <2>1. TypeInv /\ StepInv /\ NoneLeft /\ MessageAlone(e)
      BY DEF SafetyInv, DeliveryInv, NoneLeft
    <2> QED
      BY <2>1, MessageAloneStep
  <1>2. CASE Deliver(w, e)
    <2>1. PICK r \in RetryCounts : ready[e][r] > 0 /\ retries'[w] = r
      BY <1>1, <1>2, DeliverFrame
    <2>2. FailedRows(e)' = FailedRows(e) /\ pc'[w] = "load"
      BY <1>1, <1>2, DeliverFrame DEF FailedRows
    <2>3. Cardinality(FailedRows(e)) = r /\ r \in Nat
      BY <2>1, ConstantsType DEF RetriesCount, RetryCounts
    <2> QED
      BY <2>1, <2>2, <2>3 DEF Counts, FailedPcs
  <1>3. CASE ~Deliver(w, e)
    <2>1. Runs(w, e)
      BY <1>1, <1>3, RunsFrame
    <2>2. pc[w] \notin ClosingPcs
      BY <1>1, ClosingStays DEF Runs
    <2>3. Counts(w, e)
      BY <2>1, <2>2 DEF RetriesCount, Counts
    <2>4. ASSUME NEW v \in Workers, job[v] = e, RunStage(v) PROVE v = w
      BY <1>1, <2>1, <2>4, WritersRun DEF MessageAlone
    <2>5. CASE RunStage(w)
      <3>1. /\ pc[w] \notin FailedPcs /\ retries'[w] = retries[w] /\ job[w] = e
            /\ pc'[w] \in {"pubFailed", "pubSucceeded"}
        BY <1>1, <2>1, <2>5 DEF RunStage, taskVars, FailedPcs, Runs, TypeInv, TypeOK
      <3>2. Cardinality(FailedRows(e)) = retries[w]
        BY <1>1, <2>3, <3>1 DEF Counts, TypeInv, TypeOK, RetryCounts
      <3>3. CASE pc'[w] = "pubFailed"
        <4>1. PICK row \in Keys \X Attempts :
                row \notin FailedRows(e) /\ FailedRows(e)' = FailedRows(e) \cup {row}
          BY <1>1, <2>5, <3>1, <3>3, FailedStage
        <4>2. Cardinality(FailedRows(e)') = Cardinality(FailedRows(e)) + 1
          BY <1>1, <4>1, FailedRowsFinite, FS_AddElement DEF SafetyInv
        <4> QED
          BY <3>1, <3>2, <3>3, <4>2 DEF Counts, FailedPcs
      <3>4. CASE pc'[w] = "pubSucceeded"
        <4>1. FailedRows(e)' = FailedRows(e)
          BY <1>1, <2>4, <3>4, FailedRowsStep
        <4> QED
          BY <1>1, <3>1, <3>2, <3>4, <4>1 DEF Counts, FailedPcs, TypeInv, TypeOK, RetryCounts
      <3> QED
        BY <3>1, <3>3, <3>4
    <2>6. CASE ~RunStage(w)
      <3>1. FailedRows(e)' = FailedRows(e)
        BY <1>1, <2>4, <2>6, FailedRowsStep
      <3>2. retries'[w] = retries[w] /\ (pc'[w] \in FailedPcs <=> pc[w] \in FailedPcs)
        BY <1>1, <2>1, <2>6, RetriesFrame
      <3> QED
        BY <2>3, <3>1, <3>2 DEF Counts
    <2> QED
      BY <2>5, <2>6
  <1> QED
    BY <1>2, <1>3

LEMMA CountInit == Init => RetriesCount
  <1> SUFFICES ASSUME Init PROVE RetriesCount
    OBVIOUS
  <1>1. \A e \in Executions : FailedRows(e) = {}
    BY DEF Init, FailedRows
  <1>2. \A w \in Workers, e \in Executions : ~Runs(w, e)
    BY ConstantsType DEF Init, Runs
  <1>3. \A e \in Executions, r \in RetryCounts : ready[e][r] = 0
    BY DEF Init
  <1> QED
    BY <1>1, <1>2, <1>3 DEF RetriesCount

LEMMA RetriesInvariant == SingleDelivery => (Spec => []RetriesCount)
  <1>1. SafetyInv /\ CarryInv /\ DeliveryInv /\ CarryInv' /\ DeliveryInv' /\ RetriesCount
          /\ [Next]_vars => RetriesCount'
    <2> SUFFICES ASSUME SafetyInv, CarryInv, DeliveryInv, CarryInv', DeliveryInv',
                        RetriesCount, [Next]_vars, NEW e \in Executions
                 PROVE  /\ api'[e] \in {"idle", "created"} => FailedRows(e)' = {}
                        /\ \A r \in RetryCounts : ready'[e][r] > 0 => Cardinality(FailedRows(e)') = r
                        /\ \A w \in Workers : Runs(w, e)' /\ pc'[w] \notin ClosingPcs => Counts(w, e)'
      BY DEF RetriesCount, Counts
    <2>1. ASSUME api'[e] \in {"idle", "created"} PROVE FailedRows(e)' = {}
      <3>1. \A k \in Keys, a \in Attempts : steps'[e][k][a] = "absent"
        BY <2>1 DEF CarryInv, CommittedFirst, DeliveryInv, RowsOwned, Committed
      <3> QED
        BY <3>1 DEF FailedRows
    <2> QED
      BY <2>1, WaitingCount, RunningCount
  <1> QED
    BY CountInit, <1>1, SafetyInvariant, CarryInvariant, DeliveryInvariant, PTL DEF Spec

----------------------------------------------------------------------------
(* The detailed specification implements the abstract life of an execution.  *)

\* Nothing is accepted, done or failed at first.
LEMMA LifeInitial == Init => Lifecycle!LifeInit
  <1> SUFFICES ASSUME Init PROVE Lifecycle!LifeInit
    OBVIOUS
  <1>1. \A e \in Executions : exec[e].status = "none" /\ FailedRows(e) = {}
    BY DEF Init, FailedRows
  <1>2. \A e \in Executions : {k \in Keys : Succeeded(e, k)} = {}
    BY DEF Init, Succeeded
  <1>3. Cardinality({}) = 0
    BY FS_EmptySet
  <1> QED
    BY <1>1, <1>2, <1>3 DEF Lifecycle!LifeInit

\* A step that leaves the rows of all executions alone is a stutter.
LEMMA LifeStutter ==
  ASSUME UNCHANGED <<exec, steps>>
  PROVE  UNCHANGED Lifecycle!lifeVars
  BY DEF Lifecycle!lifeVars, Succeeded, FailedRows

\* A step that writes only the status of one execution is a move of it.
LEMMA LifeMove ==
  ASSUME TypeInv, NEW e \in Executions, steps' = steps, NEW s,
         exec'[e].status = s, \A x \in Executions \ {e} : exec'[x] = exec[x]
  PROVE  Lifecycle!Move(e, s)
  <1>1. \A x \in Executions : exec'[x].status = IF x = e THEN s ELSE exec[x].status
    OBVIOUS
  <1> QED
    BY <1>1 DEF Lifecycle!Move, Succeeded, FailedRows

\* The status steps of a run are the ones the lifecycle allows: Accept and Start.
LEMMA LifeBegins ==
  ASSUME TypeInv, CarryInv, DeliveryInv, NEW e \in Executions,
         CommitTrigger(e) \/ \E w \in Workers : job[w] = e /\ CommitStart(w)
  PROVE  Lifecycle!LifeNext
  <1> USE DEF TypeInv, TypeOK
  <1>1. CASE CommitTrigger(e)
    <2>1. Lifecycle!Move(e, "queued")
      BY <1>1, LifeMove DEF CommitTrigger
    <2>2. exec[e].status = "none"
      BY <1>1 DEF CommitTrigger, CarryInv, CommittedFirst
    <2>3. Lifecycle!Accept(e)
      BY <2>1, <2>2 DEF Lifecycle!Accept
    <2> QED
      BY <2>3 DEF Lifecycle!LifeNext
  <1>2. ASSUME NEW w \in Workers, job[w] = e, CommitStart(w) PROVE Lifecycle!LifeNext
    <2>1. Lifecycle!Move(e, "running")
      BY <1>2, LifeMove DEF CommitStart
    <2>2. exec[e].status = "queued"
      BY <1>2 DEF CommitStart, Goto, DeliveryInv, StatusKnown, StartPcs
    <2>3. Lifecycle!Start(e)
      BY <2>1, <2>2 DEF Lifecycle!Start
    <2> QED
      BY <2>3 DEF Lifecycle!LifeNext
  <1> QED
    BY <1>1, <1>2

\* Without redelivery a run that gives a stage up has seen all its attempts fail.
LEMMA AttemptsAllFailed ==
  ASSUME SafetyInv, DeliveryInv, NEW w \in Workers, NEW e \in Executions, job[w] = e,
         pc[w] = "judge", attempt[w] >= MaxStageRetries
  PROVE  Cardinality(FailedRows(e)) >= MaxStageRetries
  <1> DEFINE k == Key(stage[w])
             n == attempt[w]
             Column == {k} \X (1..n)
  <1>1. TypeInv /\ StepInv /\ AttemptsContiguous /\ StagesInOrder
    BY DEF SafetyInv
  <1>2. k \in Keys /\ n \in Attempts /\ pc[w] \in FailedPcs
    BY <1>1, RowType DEF StagePcs, FailedPcs
  <1>3. n \in Nat /\ n <= MaxAttempts
    BY <1>2, ConstantsType DEF Attempts
  <1>4. Runs(w, e) /\ MessageAlone(e)
    BY DEF Runs, RunPcs, DbPcs, DeliveryInv
  <1>5. ASSUME NEW b \in 1..n PROVE steps[e][k][b] = "failed"
    <2>1. b \in Attempts
      BY <1>3, ConstantsType DEF Attempts
    <2>2. steps[e][k][b] # "absent"
      <3>1. steps[e][k][n] = "failed"
        BY <1>1, <1>2 DEF StepInv, RunInv, RowHeld
      <3> QED
        BY <1>1, <1>2, <3>1 DEF AttemptsContiguous
    <2>3. steps[e][k][b] # "succeeded"
      BY <2>1 DEF DeliveryInv, StageUndone, Succeeded, StagePcs, FailedPcs, DonePcs, ClosingPcs
    <2>4. steps[e][k][b] # "running"
      <3>1. InHand(e)
        BY <1>4, HandsAre
      <3>2. ASSUME NEW v \in Workers, job[v] = e, pc[v] \in OpenPcs PROVE FALSE
        <4>1. Runs(v, e)
          BY <3>2 DEF Runs, OpenPcs, RunPcs, PublishPcs, DbPcs, LogPcs
        <4> QED
          BY <1>4, <3>2, <4>1 DEF MessageAlone, OpenPcs
      <3> QED
        BY <1>2, <2>1, <3>1, <3>2 DEF DeliveryInv, RowsOwned, OpenRow
    <2> QED
      BY <1>1, <1>2, <2>1, <2>2, <2>3, <2>4 DEF TypeInv, TypeOK, StepStatuses
  <1>6. IsFiniteSet({k}) /\ Cardinality({k}) = 1
    BY FS_Singleton
  <1>7. IsFiniteSet(1..n) /\ Cardinality(1..n) = n
    BY <1>3, FS_Interval
  <1>8. Cardinality(Column) = n
    <2> HIDE DEF k, n
    <2>1. Cardinality(Column) = Cardinality({k}) * Cardinality(1..n)
      BY <1>6, <1>7, FS_Product, Zenon
    <2> HIDE DEF Column
    <2> QED
      BY <1>3, <1>6, <1>7, <2>1
  <1>9. Column \in SUBSET FailedRows(e)
    <2> SUFFICES ASSUME NEW b \in 1..n PROVE <<k, b>> \in FailedRows(e)
      OBVIOUS
    <2>1. b \in Attempts
      BY <1>3, ConstantsType DEF Attempts
    <2> HIDE DEF k, n
    <2> QED
      BY <1>2, <1>5, <2>1 DEF FailedRows
  <1>10. IsFiniteSet(FailedRows(e)) /\ Cardinality(FailedRows(e)) \in Nat
    BY <1>1, FailedRowsFinite
  <1> HIDE DEF Column
  <1>11. Cardinality(Column) <= Cardinality(FailedRows(e))
    BY <1>9, <1>10, FS_Subset
  <1> QED
    BY <1>3, <1>8, <1>10, <1>11, ConstantsType

\* BackOff, GiveUp and Succeed.
LEMMA LifeJudges ==
  ASSUME SafetyInv, CarryInv, DeliveryInv, RetriesCount, NEW w \in Workers,
         NEW e \in Executions, job[w] = e,
         MarkRetrying(w) \/ MarkFailed(w) \/ MarkSucceeded(w)
  PROVE  Lifecycle!LifeNext \/ UNCHANGED Lifecycle!lifeVars
  <1>1. /\ TypeInv /\ StepInv /\ StagesInOrder /\ StatusKnown(w) /\ Runs(w, e)
        /\ pc[w] \in {"judge", "check"}
    BY WritersRun DEF SafetyInv, DeliveryInv, MarkRetrying, MarkFailed, MarkSucceeded, Goto
  <1>2. pc[w] \in LoopPcs /\ pc[w] \notin ClosingPcs
    BY <1>1 DEF TypeInv, TypeOK, LoopPcs, StartPcs, ClosingPcs, RunPcs, DbPcs
  <1>3. exec[e].status \in {"running", "retrying"} /\ seen[w] \notin Terminal
    BY <1>1, <1>2 DEF StatusKnown
  <1>4. Lifecycle!Active(e)
    BY <1>2, <1>3 DEF Lifecycle!Active
  <1>5. steps' = steps /\ \A x \in Executions \ {e} : exec'[x] = exec[x]
    BY <1>1 DEF MarkRetrying, MarkFailed, MarkSucceeded, WriteStatus, TypeInv, TypeOK
  <1>6. CASE MarkRetrying(w)
    <2>1. CASE seen[w] = "retrying"
      <3>1. \A x \in Executions : exec'[x].status = exec[x].status
        BY <1>1, <1>2, <1>6, <2>1 DEF MarkRetrying, WriteStatus, TypeInv, TypeOK
      <3> QED
        BY <1>5, <3>1 DEF Lifecycle!lifeVars, Succeeded, FailedRows
    <2>2. CASE seen[w] # "retrying"
      <3>1. exec'[e].status = "retrying"
        BY <1>1, <1>2, <1>6, <2>2 DEF MarkRetrying, WriteStatus, TypeInv, TypeOK
      <3>2. Lifecycle!Move(e, "retrying")
        BY <1>1, <1>2, <1>5, <3>1, LifeMove
      <3>3. Cardinality(FailedRows(e)) > 0
        <4>1. pc[w] \in FailedPcs
          BY <1>6 DEF MarkRetrying, Goto, FailedPcs
        <4>2. Cardinality(FailedRows(e)) = retries[w] + 1
          BY <1>1, <1>2, <4>1 DEF RetriesCount
        <4> QED
          BY <1>1, <4>2 DEF TypeInv, TypeOK, RetryCounts
      <3>4. Lifecycle!BackOff(e)
        BY <1>2, <1>4, <3>2, <3>3 DEF Lifecycle!BackOff
      <3> QED
        BY <1>2, <3>4 DEF Lifecycle!LifeNext
    <2> QED
      BY <2>1, <2>2
  <1>7. CASE MarkFailed(w)
    <2>1. exec'[e].status = "failed"
      BY <1>1, <1>2, <1>3, <1>7 DEF MarkFailed, WriteStatus, Terminal, TypeInv, TypeOK
    <2>2. Lifecycle!Move(e, "failed")
      BY <1>1, <1>2, <1>5, <2>1, LifeMove
    <2>3. Cardinality(FailedRows(e)) >= MaxStageRetries
      BY <1>2, <1>7, AttemptsAllFailed DEF MarkFailed, Goto
    <2>4. Lifecycle!GiveUp(e)
      BY <1>2, <1>4, <2>2, <2>3 DEF Lifecycle!GiveUp
    <2> QED
      BY <1>2, <2>4 DEF Lifecycle!LifeNext
  <1>8. CASE MarkSucceeded(w)
    <2>1. exec'[e].status = "succeeded"
      BY <1>1, <1>2, <1>3, <1>8 DEF MarkSucceeded, WriteStatus, Terminal, TypeInv, TypeOK
    <2>2. Lifecycle!Move(e, "succeeded")
      BY <1>1, <1>2, <1>5, <2>1, LifeMove
    <2>3. {k \in Keys : Succeeded(e, k)} = Lifecycle!StageKeys
      <3>1. ASSUME NEW i \in DOMAIN Stages PROVE Succeeded(e, Key(i))
        <4>1. i \in 1..(stage[w] - 1) /\ pc[w] # "idle"
          BY <1>1, <1>8, StagesType DEF MarkSucceeded, TypeInv, TypeOK
        <4> QED
          BY <1>1, <4>1 DEF StepInv, RunInv, StagesPassed
      <3>2. ASSUME NEW k \in Keys, Succeeded(e, k) PROVE \E i \in DOMAIN Stages : k = Key(i)
        BY <1>1, <1>2, <3>2 DEF Succeeded, StagesInOrder
      <3> QED
        BY <3>1, <3>2, StagesType DEF Lifecycle!StageKeys, Lifecycle!StageKey, Key
    <2>4. Lifecycle!Succeed(e)
      BY <1>2, <1>4, <2>2, <2>3 DEF Lifecycle!Succeed
    <2> QED
      BY <1>2, <2>4 DEF Lifecycle!LifeNext
  <1> QED
    BY <1>6, <1>7, <1>8

\* CompleteStage and FailAttempt; the INSERT of a step is out of sight.
LEMMA LifeWorks ==
  ASSUME SafetyInv, CarryInv, DeliveryInv, RetriesCount, NEW w \in Workers,
         NEW e \in Executions, job[w] = e, RunStage(w)
  PROVE  Lifecycle!LifeNext
  <1> DEFINE k == Key(stage[w])
             a == attempt[w]
  <1>1. /\ TypeInv /\ StepInv /\ StagesInOrder /\ StatusKnown(w) /\ StageUndone(w) /\ Runs(w, e)
        /\ pc[w] = "simulate" /\ exec' = exec
    BY WritersRun DEF SafetyInv, DeliveryInv, RunStage
  <1>2. /\ pc[w] \in LoopPcs \ (ClosingPcs \cup FailedPcs)
        /\ pc[w] \in StagePcs \ (DonePcs \cup ClosingPcs \cup {"number"})
    BY <1>1 DEF LoopPcs, StartPcs, ClosingPcs, RunPcs, DbPcs, StagePcs, OpenPcs, FailedPcs, DonePcs
  <1>3. stage[w] \in DOMAIN Stages /\ k \in Keys /\ a \in Attempts
    BY <1>1, <1>2, RowType
  <1>4. Lifecycle!Active(e)
    BY <1>1, <1>2 DEF StatusKnown, Lifecycle!Active
  <1>5. PICK s \in {"succeeded", "failed"} :
          /\ WritesRow(w, s)
          /\ pc'[w] = IF s = "failed" THEN "pubFailed" ELSE "pubSucceeded"
    BY <1>1 DEF RunStage, FinishStep, Outcomes, WritesRow, TypeInv, TypeOK
  <1>6. \A x \in Executions, k2 \in Keys, a2 \in Attempts :
          steps'[x][k2][a2] = IF x = e /\ k2 = k /\ a2 = a THEN s ELSE steps[x][k2][a2]
    BY <1>1, <1>2, <1>5, RowWrite
  <1>7. ~Succeeded(e, k)
    BY <1>1, <1>2 DEF StageUndone
  <1>8. steps[e][k][a] = "running"
    BY <1>1 DEF StepInv, RunInv, RowHeld, OpenPcs
  <1>9. k = Lifecycle!StageKey(stage[w])
    BY DEF Key, Lifecycle!StageKey
  <1>10. ASSUME NEW j \in 1..(stage[w] - 1)
         PROVE  Lifecycle!StageKey(j) \in {k2 \in Keys : Succeeded(e, k2)}
    <2>1. Succeeded(e, Key(j))
      BY <1>1 DEF StepInv, RunInv, StagesPassed
    <2>2. Key(j) \in Keys
      <3>1. j \in DOMAIN Stages
        BY <1>3, StagesType
      <3> QED
        BY <3>1, StagesType
    <2> QED
      BY <2>1, <2>2 DEF Lifecycle!StageKey, Key
  <1> HIDE DEF k, a
  <1>11. ASSUME NEW x \in Executions, x # e
         PROVE  FailedRows(x)' = FailedRows(x) /\ \A k2 \in Keys : Succeeded(x, k2)' = Succeeded(x, k2)
    <2>1. \A k2 \in Keys, a2 \in Attempts : steps'[x][k2][a2] = steps[x][k2][a2]
      BY <1>6, <1>11
    <2> QED
      BY <2>1, FailedRowsSame DEF Succeeded
  <1>12. CASE s = "succeeded"
    <2>1. FailedRows(e)' = FailedRows(e)
      BY <1>6, <1>8, <1>12, FailedRowsSame
    <2>2. \A k2 \in Keys : Succeeded(e, k2)' <=> k2 = k \/ Succeeded(e, k2)
      BY <1>3, <1>6, <1>7, <1>8, <1>12 DEF Succeeded
    <2>3. [x \in Executions |-> {k2 \in Keys : Succeeded(x, k2)}]'
            = [[x \in Executions |-> {k2 \in Keys : Succeeded(x, k2)}]
                 EXCEPT ![e] = @ \cup {k}]
      <3>1. {k2 \in Keys : Succeeded(e, k2)}' = {k2 \in Keys : Succeeded(e, k2)} \cup {k}
        BY <1>3, <2>2
      <3>2. \A x \in Executions \ {e} :
              {k2 \in Keys : Succeeded(x, k2)}' = {k2 \in Keys : Succeeded(x, k2)}
        BY <1>11
      <3> QED
        BY <3>1, <3>2
    <2>4. [x \in Executions |-> Cardinality(FailedRows(x))]'
            = [x \in Executions |-> Cardinality(FailedRows(x))]
      BY <1>11, <2>1
    <2>5. k \notin {k2 \in Keys : Succeeded(e, k2)}
      BY <1>7
    <2>6. Lifecycle!CompleteStage(e)
      BY <1>1, <1>3, <1>4, <1>9, <1>10, <2>3, <2>4, <2>5 DEF Lifecycle!CompleteStage
    <2> QED
      BY <2>6 DEF Lifecycle!LifeNext
  <1>13. CASE s = "failed"
    <2>1. \A k2 \in Keys : Succeeded(e, k2)' <=> Succeeded(e, k2)
      BY <1>3, <1>6, <1>8, <1>13 DEF Succeeded
    <2>2. Cardinality(FailedRows(e)) = retries[w] /\ retries[w] \in 0..MaxStageRetries
      BY <1>1, <1>2 DEF RetriesCount, TypeInv, TypeOK, RetryCounts
    <2>3. Cardinality(FailedRows(e)') = Cardinality(FailedRows(e)) + 1
      <3>1. PICK row \in Keys \X Attempts :
              row \notin FailedRows(e) /\ FailedRows(e)' = FailedRows(e) \cup {row}
        BY <1>1, <1>5, <1>13, FailedStage
      <3> QED
        BY <1>1, <3>1, FailedRowsFinite, FS_AddElement
    <2>4. [x \in Executions |-> Cardinality(FailedRows(x))]'
            = [[x \in Executions |-> Cardinality(FailedRows(x))] EXCEPT ![e] = @ + 1]
      BY <1>11, <2>3
    <2>5. [x \in Executions |-> {k2 \in Keys : Succeeded(x, k2)}]'
            = [x \in Executions |-> {k2 \in Keys : Succeeded(x, k2)}]
      BY <1>11, <2>1
    <2>6. Cardinality(FailedRows(e)) <= MaxStageRetries
      BY <2>2, ConstantsType
    <2>7. Lifecycle!FailAttempt(e)
      BY <1>1, <1>4, <2>4, <2>5, <2>6 DEF Lifecycle!FailAttempt
    <2> QED
      BY <2>7 DEF Lifecycle!LifeNext
  <1> QED
    BY <1>5, <1>12, <1>13

LEMMA LifeStep ==
  ASSUME SafetyInv, CarryInv, DeliveryInv, RetriesCount, [Next]_vars
  PROVE  [Lifecycle!LifeNext]_(Lifecycle!lifeVars)
  <1>1. TypeInv
    BY DEF SafetyInv
  <1>2. CASE UNCHANGED <<exec, steps>>
    BY <1>2, LifeStutter
  <1>3. CASE steps' # steps
    <2>1. PICK w \in Workers : CreateStep(w) \/ RunStage(w)
      BY <1>3, StepsFrame
    <2>2. pc[w] \in StagePcs \ {"number"}
      BY <2>1 DEF CreateStep, RunStage, Goto, StagePcs, OpenPcs
    <2>3. job[w] \in Executions
      BY <1>1, <2>2, RowType
    <2>4. CASE RunStage(w)
      BY <2>3, <2>4, LifeWorks
    <2>5. CASE CreateStep(w)
      <3>1. /\ WritesRow(w, "running") /\ exec' = exec
            /\ steps[job[w]][Key(stage[w])][attempt[w]] = "absent"
        BY <1>3, <2>5 DEF CreateStep, WritesRow
      <3>2. \A x \in Executions, k \in Keys, a \in Attempts :
              /\ steps'[x][k][a] = "failed" <=> steps[x][k][a] = "failed"
              /\ steps'[x][k][a] = "succeeded" <=> steps[x][k][a] = "succeeded"
        BY <1>1, <2>2, <3>1, RowWrite
      <3>3. \A x \in Executions : FailedRows(x)' = FailedRows(x)
        BY <3>2, FailedRowsSame
      <3>4. \A x \in Executions, k \in Keys : Succeeded(x, k)' <=> Succeeded(x, k)
        BY <3>2 DEF Succeeded
      <3>5. \A x \in Executions : {k \in Keys : Succeeded(x, k)}' = {k \in Keys : Succeeded(x, k)}
        BY <3>4
      <3> QED
        BY <3>1, <3>3, <3>5 DEF Lifecycle!lifeVars
    <2> QED
      BY <2>1, <2>4, <2>5
  <1>4. ASSUME NEW e \in Executions, exec'[e] # exec[e]
        PROVE  [Lifecycle!LifeNext]_(Lifecycle!lifeVars)
    <2>1. CASE CommitTrigger(e)
      BY <1>1, <2>1, LifeBegins
    <2>2. ASSUME NEW w \in Workers, job[w] = e, CommitStart(w)
          PROVE  Lifecycle!LifeNext
      BY <1>1, <2>2, LifeBegins
    <2>3. ASSUME NEW w \in Workers, job[w] = e,
                 MarkRetrying(w) \/ MarkFailed(w) \/ MarkSucceeded(w)
          PROVE  [Lifecycle!LifeNext]_(Lifecycle!lifeVars)
      BY <2>3, LifeJudges
    <2> QED
      BY <1>1, <1>4, <2>1, <2>2, <2>3, RowFrame
  <1>5. (\A e \in Executions : exec'[e] = exec[e]) => exec' = exec
    <2>1. TypeInv'
      BY <1>1, TypeStep
    <2> QED
      BY <1>1, <2>1 DEF TypeInv, TypeOK
  <1> QED
    BY <1>2, <1>3, <1>4, <1>5

\* Without redelivery run_execution keeps the promise of the lifecycle: accepted,
\* started, its stages completed in order, at most MAX_STAGE_RETRIES + 1 failures,
\* and finished at most once.
THEOREM LifecycleImplemented == SingleDelivery => (Spec => ImplementsLifecycle)
  <1>1. SafetyInv /\ CarryInv /\ DeliveryInv /\ RetriesCount /\ [Next]_vars
          => [Lifecycle!LifeNext]_(Lifecycle!lifeVars)
    BY LifeStep
  <1> QED
    BY LifeInitial, <1>1, SafetyInvariant, CarryInvariant, DeliveryInvariant, RetriesInvariant,
       PTL DEF Spec, ImplementsLifecycle, Lifecycle!Spec

=============================================================================
