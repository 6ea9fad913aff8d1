--------------------------- MODULE Orchestration ---------------------------
(* The life of an execution: the API handler that triggers it, the RabbitMQ  *)
(* queue of Celery messages, the workers that run `run_execution`, and the   *)
(* PostgreSQL rows they share.                                               *)
(*                                                                           *)
(* One action is one step that another process can observe: a transaction    *)
(* committed, a message published, delivered or settled, a read whose result *)
(* is used later.  PostgreSQL runs READ COMMITTED, so a flushed but          *)
(* uncommitted write is invisible and only holds the row lock.               *)
EXTENDS Naturals, Sequences, FiniteSets

CONSTANTS
    Executions,      \* one per accepted POST /workflows/{id}/executions
    Workers,         \* Celery pool processes, each with one unacked message
    Keys,            \* the stage keys that may occur
    Stages,          \* the workflow's stage_definitions, in list order
    MaxStageRetries, \* MAX_STAGE_RETRIES
    MaxAttempts,     \* bound on the attempts recorded for a stage
    FaultBudget,     \* bound on the faults of each kind
    None

Rates == {"zero", "some", "one"}   \* failure_rate = 0, strictly between, 1

FaultKinds == {"crash", "disconnect", "childLost", "redis", "db", "api"}

ASSUME OrchestrationAssumption ==
    /\ Stages \in Seq([key : Keys, rate : Rates])
    /\ MaxStageRetries \in Nat \ {0}
    /\ MaxAttempts \in Nat
    /\ MaxStageRetries <= MaxAttempts
    /\ FaultBudget \in [FaultKinds -> Nat]
    /\ None \notin Executions

VARIABLES
    exec,      \* the committed row of each execution
    steps,     \* the committed execution_steps rows, by stage key and attempt
    logs,      \* the committed log lines of each step row
    execLog,   \* the committed log lines of the execution itself
    api,       \* how far the trigger handler of each execution has come
    ready,     \* unacked, undelivered messages, by execution and retries header
    pc, job, retries, owned,     \* the worker and the message it is running
    seen, stage, attempt,        \* the locals of run_execution
    faults,    \* the faults that may still happen
    lost       \* history: why deliveries ended neither settled nor rescheduled

dbVars     == <<exec, steps, logs, execLog>>
workerVars == <<pc, job, retries, owned, seen, stage, attempt>>
taskVars   == <<job, retries, owned, seen, stage, attempt>>
vars       == <<dbVars, api, ready, workerVars, faults, lost>>

----------------------------------------------------------------------------
(* Value sets.                                                               *)

Attempts     == 1..MaxAttempts
RetryCounts  == 0..MaxStageRetries
Terminal     == {"succeeded", "failed"}
ExecStatuses == {"none", "queued", "running", "retrying"} \cup Terminal
StepStatuses == {"absent", "running", "succeeded", "failed"}
StepLines    == {"started", "failed", "completed"}
ExecLines    == {"started", "completed"}
LostCauses   == {"unseen", "budget", "redis", "db", "conflict", "childLost", "crash"}

PublishPcs == {"pubRunning", "pubStarted", "pubStep", "pubLogStarted",
               "pubFailed", "pubLogFailed", "pubRetrying", "pubGaveUp",
               "pubSucceeded", "pubLogCompleted", "pubDone", "pubLogDone"}
LogPcs     == {"logStarted", "logFailed", "logCompleted"}
DbPcs      == {"load", "begin", "commitStart", "check", "number", "create",
               "simulate", "judge", "logDone"} \cup LogPcs
RunPcs     == PublishPcs \cup DbPcs \cup {"raise"}
Pcs        == RunPcs \cup {"idle", "ack"}

(* The step row a worker is working on exists while it is in one of these.   *)
OpenPcs   == {"pubStep", "logStarted", "pubLogStarted", "simulate"}
FailedPcs == {"pubFailed", "logFailed", "pubLogFailed", "judge", "pubRetrying",
              "raise", "pubGaveUp"}
DonePcs   == {"pubSucceeded", "logCompleted", "pubLogCompleted"}
StagePcs  == {"number", "create"} \cup OpenPcs \cup FailedPcs \cup DonePcs

(* The end of a run whose last status write is behind it.                    *)
ClosingPcs == {"pubGaveUp", "pubDone", "logDone", "pubLogDone"}

----------------------------------------------------------------------------
(* Queries over the shared rows.                                             *)

Key(i) == Stages[i].key

Succeeded(e, k) == \E a \in Attempts : steps[e][k][a] = "succeeded"

\* The highest attempt recorded for a stage, 0 when there is none.
IsLastAttempt(e, k, n) ==
    /\ n # 0 => steps[e][k][n] # "absent"
    /\ \A a \in Attempts : a > n => steps[e][k][a] = "absent"

Committed(e) == exec[e].status # "none"
Settled(e)   == exec[e].status \in Terminal

\* The row lock taken by the flush of RUNNING lasts until its late commit.
RowLocked(e) == \E w \in Workers :
    /\ job[w] = e
    /\ pc[w] \in {"pubRunning", "pubStarted", "commitStart"}

\* Something will still work on the execution.
InHand(e) ==
    \/ \E r \in RetryCounts : ready[e][r] > 0
    \/ \E w \in Workers : job[w] = e /\ pc[w] \in RunPcs

----------------------------------------------------------------------------
Init ==
    /\ exec    = [e \in Executions |-> [status |-> "none", result |-> FALSE, error |-> FALSE]]
    /\ steps   = [e \in Executions |-> [k \in Keys |-> [a \in Attempts |-> "absent"]]]
    /\ logs    = [e \in Executions |-> [k \in Keys |-> [a \in Attempts |-> {}]]]
    /\ execLog = [e \in Executions |-> {}]
    /\ api     = [e \in Executions |-> "idle"]
    /\ ready   = [e \in Executions |-> [r \in RetryCounts |-> 0]]
    /\ pc      = [w \in Workers |-> "idle"]
    /\ job     = [w \in Workers |-> None]
    /\ retries = [w \in Workers |-> 0]
    /\ owned   = [w \in Workers |-> FALSE]
    /\ seen    = [w \in Workers |-> "none"]
    /\ stage   = [w \in Workers |-> 1]
    /\ attempt = [w \in Workers |-> 0]
    /\ faults  = FaultBudget
    /\ lost    = [e \in Executions |-> {}]

----------------------------------------------------------------------------
(* The API: one transaction around trigger_execution.  The task message      *)
(* leaves before the row it names is committed.                              *)

\* create_execution: INSERT PENDING and flush, still uncommitted.
CreateExecution(e) ==
    /\ api[e] = "idle"
    /\ api' = [api EXCEPT ![e] = "created"]
    /\ UNCHANGED <<dbVars, ready, workerVars, faults, lost>>

\* Bug: the message is published twice, as by a retried publication.
SendTaskTwice(e) ==
    /\ api[e] = "created"
    /\ api' = [api EXCEPT ![e] = "sent"]
    /\ ready' = [ready EXCEPT ![e][0] = @ + 2]
    /\ UNCHANGED <<dbVars, workerVars, faults, lost>>

\* celery_app.send_task: the broker has the message from here on.
SendTask(e) ==
    /\ api[e] = "created"
    /\ api' = [api EXCEPT ![e] = "sent"]
    /\ ready' = [ready EXCEPT ![e][0] = @ + 1]
    /\ UNCHANGED <<dbVars, workerVars, faults, lost>>

\* mark_queued and the commit of get_db; the row becomes visible as QUEUED.
CommitTrigger(e) ==
    /\ api[e] = "sent"
    /\ api' = [api EXCEPT ![e] = "done"]
    /\ exec' = [exec EXCEPT ![e].status = "queued"]
    /\ UNCHANGED <<steps, logs, execLog, ready, workerVars, faults, lost>>

Spend(kind) ==
    /\ faults[kind] > 0
    /\ faults' = [faults EXCEPT ![kind] = @ - 1]

\* send_task or the database raises: get_db rolls the transaction back.
AbortTrigger(e) ==
    /\ api[e] \in {"created", "sent"}
    /\ Spend("api")
    /\ api' = [api EXCEPT ![e] = "aborted"]
    /\ UNCHANGED <<dbVars, ready, workerVars, lost>>

----------------------------------------------------------------------------
(* The worker: one delivery of the task, from load to acknowledgement.       *)

Goto(w, from, to) ==
    /\ pc[w] = from
    /\ pc' = [pc EXCEPT ![w] = to]

Lose(e, cause) == lost' = [lost EXCEPT ![e] = @ \cup {cause}]

\* The broker hands a message to an idle worker, which will ack it late.
Deliver(w, e) ==
    \E r \in RetryCounts :
        /\ Goto(w, "idle", "load")
        /\ ready[e][r] > 0
        /\ ready' = [ready EXCEPT ![e][r] = @ - 1]
        /\ job' = [job EXCEPT ![w] = e]
        /\ retries' = [retries EXCEPT ![w] = r]
        /\ owned' = [owned EXCEPT ![w] = TRUE]
        /\ UNCHANGED <<dbVars, api, seen, stage, attempt, faults, lost>>

\* repo.get_execution: a row that is not there raises ValueError, which is not
\* retried; the guard on PENDING and QUEUED is decided on the status read here.
Load(w) ==
    LET s == exec[job[w]].status IN
    /\ Goto(w, "load", CASE s = "none"   -> "ack"
                         [] s = "queued" -> "begin"
                         [] OTHER        -> "check")
    /\ seen' = [seen EXCEPT ![w] = s]
    /\ IF s = "none" THEN Lose(job[w], "unseen") ELSE UNCHANGED lost
    /\ UNCHANGED <<dbVars, api, ready, job, retries, owned, stage, attempt, faults>>

\* Flush of status = RUNNING, uncommitted: invisible to others.
BeginRun(w) ==
    /\ ~RowLocked(job[w])
    /\ Goto(w, "begin", "pubRunning")
    /\ seen' = [seen EXCEPT ![w] = "running"]
    /\ UNCHANGED <<dbVars, api, ready, job, retries, owned, stage, attempt, faults, lost>>

\* The commit that makes RUNNING and "Execution started" visible, after both
\* have been published.
CommitStart(w) ==
    /\ Goto(w, "commitStart", "check")
    /\ exec' = [exec EXCEPT ![job[w]].status = "running"]
    /\ execLog' = [execLog EXCEPT ![job[w]] = @ \cup {"started"}]
    /\ UNCHANGED <<steps, logs, api, ready, taskVars, faults, lost>>

\* publish_event, and where the code goes on after each publication.
AfterPublish(p) ==
    CASE p = "pubRunning"      -> "pubStarted"
      [] p = "pubStarted"      -> "commitStart"
      [] p = "pubStep"         -> "logStarted"
      [] p = "pubLogStarted"   -> "simulate"
      [] p = "pubFailed"       -> "logFailed"
      [] p = "pubLogFailed"    -> "judge"
      [] p = "pubRetrying"     -> "raise"
      [] p = "pubSucceeded"    -> "logCompleted"
      [] p = "pubLogCompleted" -> "check"
      [] p = "pubDone"         -> "logDone"
      [] OTHER                 -> "ack"

Publish(w) ==
    /\ pc[w] \in PublishPcs
    /\ pc' = [pc EXCEPT ![w] = AfterPublish(@)]
    /\ stage' = [stage EXCEPT ![w] = IF pc[w] = "pubLogCompleted" THEN @ + 1 ELSE @]
    /\ UNCHANGED <<dbVars, api, ready, job, retries, owned, seen, attempt, faults, lost>>

\* Bug: any step row counts as done, not only a succeeded one.
CheckStageSkipsAny(w) ==
    LET skip == \E a \in Attempts : steps[job[w]][Key(stage[w])][a] # "absent" IN
    /\ stage[w] \in DOMAIN Stages
    /\ Goto(w, "check", IF skip THEN "check" ELSE "number")
    /\ stage' = [stage EXCEPT ![w] = IF skip THEN @ + 1 ELSE @]
    /\ UNCHANGED <<dbVars, api, ready, job, retries, owned, seen, attempt, faults, lost>>

\* Bug: every invocation starts over, without looking for succeeded steps.
CheckStageNeverSkips(w) ==
    /\ stage[w] \in DOMAIN Stages
    /\ Goto(w, "check", "number")
    /\ UNCHANGED <<dbVars, api, ready, taskVars, faults, lost>>

\* get_succeeded_step: a stage with a succeeded row is skipped.
CheckStage(w) ==
    LET skip == Succeeded(job[w], Key(stage[w])) IN
    /\ stage[w] \in DOMAIN Stages
    /\ Goto(w, "check", IF skip THEN "check" ELSE "number")
    /\ stage' = [stage EXCEPT ![w] = IF skip THEN @ + 1 ELSE @]
    /\ UNCHANGED <<dbVars, api, ready, job, retries, owned, seen, attempt, faults, lost>>

\* Bug: the attempt is taken from Celery's retries header.
NextAttemptFromRetries(w) ==
    /\ Goto(w, "number", "create")
    /\ attempt' = [attempt EXCEPT ![w] = retries[w] + 1]
    /\ UNCHANGED <<dbVars, api, ready, job, retries, owned, seen, stage, faults, lost>>

\* next_attempt_number: read now, used by the INSERT that follows.
NextAttempt(w) ==
    /\ Goto(w, "number", "create")
    /\ \E n \in 0..(MaxAttempts - 1) :
          /\ IsLastAttempt(job[w], Key(stage[w]), n)
          /\ attempt' = [attempt EXCEPT ![w] = n + 1]
    /\ UNCHANGED <<dbVars, api, ready, job, retries, owned, seen, stage, faults, lost>>

\* Bug: no unique constraint; the second INSERT takes the row over.
CreateStepOverwrites(w) ==
    /\ Goto(w, "create", "pubStep")
    /\ steps' = [steps EXCEPT ![job[w]][Key(stage[w])][attempt[w]] = "running"]
    /\ UNCHANGED <<exec, logs, execLog, api, ready, taskVars, faults, lost>>

\* create_step and its commit.  uq_execution_step_attempt turns a number that
\* another run took meanwhile into an IntegrityError, which ends the delivery.
CreateStep(w) ==
    LET e == job[w]
        k == Key(stage[w])
        n == attempt[w]
    IN  /\ Goto(w, "create", IF steps[e][k][n] = "absent" THEN "pubStep" ELSE "ack")
        /\ \/ /\ steps[e][k][n] = "absent"
              /\ steps' = [steps EXCEPT ![e][k][n] = "running"]
              /\ UNCHANGED lost
           \/ /\ steps[e][k][n] # "absent"
              /\ Lose(e, "conflict")
              /\ UNCHANGED steps
        /\ UNCHANGED <<exec, logs, execLog, api, ready, taskVars, faults>>

\* add_log and its commit, for the three lines about a step.
Line(p) == CASE p = "logStarted" -> "started"
             [] p = "logFailed"  -> "failed"
             [] OTHER            -> "completed"

AfterLog(p) == CASE p = "logStarted" -> "pubLogStarted"
                 [] p = "logFailed"  -> "pubLogFailed"
                 [] OTHER            -> "pubLogCompleted"

LogLine(w) ==
    /\ pc[w] \in LogPcs
    /\ pc' = [pc EXCEPT ![w] = AfterLog(@)]
    /\ logs' = [logs EXCEPT ![job[w]][Key(stage[w])][attempt[w]] = @ \cup {Line(pc[w])}]
    /\ UNCHANGED <<exec, steps, execLog, api, ready, taskVars, faults, lost>>

\* simulate: random() < failure_rate / attempt.
Outcomes(rate, n) ==
    CASE rate = "zero"           -> {"succeeded"}
      [] rate = "one" /\ n = 1   -> {"failed"}
      [] OTHER                   -> {"succeeded", "failed"}

\* Bug: finish_step is not committed before the log line is.
RunStageUncommitted(w) ==
    /\ pc[w] = "simulate"
    /\ \E outcome \in Outcomes(Stages[stage[w]].rate, attempt[w]) :
          pc' = [pc EXCEPT ![w] = IF outcome = "failed" THEN "pubFailed" ELSE "pubSucceeded"]
    /\ UNCHANGED <<dbVars, api, ready, taskVars, faults, lost>>

FinishStep(w, outcome) ==
    steps' = [steps EXCEPT ![job[w]][Key(stage[w])][attempt[w]] = outcome]

\* The simulated work, then finish_step and its commit.
RunStage(w) ==
    /\ pc[w] = "simulate"
    /\ \E outcome \in Outcomes(Stages[stage[w]].rate, attempt[w]) :
          /\ pc' = [pc EXCEPT ![w] = IF outcome = "failed" THEN "pubFailed" ELSE "pubSucceeded"]
          /\ FinishStep(w, outcome)
    /\ UNCHANGED <<exec, logs, execLog, api, ready, taskVars, faults, lost>>

\* update_execution_status and its commit.  The ORM sends the status column only
\* when it differs from the value this session loaded; the refresh that follows
\* reads the row back.
WriteStatus(w, s, result, error) ==
    LET row == [status |-> IF seen[w] = s THEN exec[job[w]].status ELSE s,
                result |-> exec[job[w]].result \/ result,
                error  |-> exec[job[w]].error \/ error]
        emits == seen[w] # s \/ result \/ error
    IN  /\ emits => ~RowLocked(job[w])
        /\ exec' = [exec EXCEPT ![job[w]] = row]
        /\ seen' = [seen EXCEPT ![w] = row.status]
        /\ UNCHANGED <<steps, logs, execLog, api, ready, job, retries, owned,
                       stage, attempt, faults, lost>>

MarkRetrying(w) ==
    /\ attempt[w] < MaxStageRetries
    /\ Goto(w, "judge", "pubRetrying")
    /\ WriteStatus(w, "retrying", FALSE, FALSE)

\* Bug: off by one in the last allowed attempt.
MarkFailedEarly(w) ==
    /\ attempt[w] + 1 >= MaxStageRetries
    /\ Goto(w, "judge", "pubGaveUp")
    /\ WriteStatus(w, "failed", FALSE, TRUE)

\* Bug: the error message is not stored.
MarkFailedSilently(w) ==
    /\ attempt[w] >= MaxStageRetries
    /\ Goto(w, "judge", "pubGaveUp")
    /\ WriteStatus(w, "failed", FALSE, FALSE)

MarkFailed(w) ==
    /\ attempt[w] >= MaxStageRetries
    /\ Goto(w, "judge", "pubGaveUp")
    /\ WriteStatus(w, "failed", FALSE, TRUE)

\* Bug: the loop ends one stage early.
MarkSucceededEarly(w) ==
    /\ stage[w] >= Len(Stages)
    /\ Goto(w, "check", "pubDone")
    /\ WriteStatus(w, "succeeded", TRUE, FALSE)

\* The loop is over: every stage was completed here or skipped.
MarkSucceeded(w) ==
    /\ stage[w] > Len(Stages)
    /\ Goto(w, "check", "pubDone")
    /\ WriteStatus(w, "succeeded", TRUE, FALSE)

LogCompleted(w) ==
    /\ Goto(w, "logDone", "pubLogDone")
    /\ execLog' = [execLog EXCEPT ![job[w]] = @ \cup {"completed"}]
    /\ UNCHANGED <<exec, steps, logs, api, ready, taskVars, faults, lost>>

\* Bug: the task ends without a new message.
AutoRetryForgets(w) ==
    /\ Goto(w, "raise", "ack")
    /\ UNCHANGED <<dbVars, api, ready, taskVars, faults, lost>>

\* autoretry_for: Celery publishes a new message with retries + 1, unless that
\* exceeds max_retries, in which case the task fails and only the result backend
\* knows.
AutoRetry(w) ==
    LET e == job[w]
        r == retries[w]
    IN  /\ Goto(w, "raise", "ack")
        /\ \/ /\ r < MaxStageRetries
              /\ ready' = [ready EXCEPT ![e][r + 1] = @ + 1]
              /\ UNCHANGED lost
           \/ /\ r >= MaxStageRetries
              /\ Lose(e, "budget")
              /\ UNCHANGED ready
        /\ UNCHANGED <<dbVars, api, taskVars, faults>>

\* Locals are reset so that idle workers are alike.
Release(w) ==
    /\ job' = [job EXCEPT ![w] = None]
    /\ retries' = [retries EXCEPT ![w] = 0]
    /\ owned' = [owned EXCEPT ![w] = FALSE]
    /\ seen' = [seen EXCEPT ![w] = "none"]
    /\ stage' = [stage EXCEPT ![w] = 1]
    /\ attempt' = [attempt EXCEPT ![w] = 0]

\* Bug: the worker keeps the finished request.
AckKeepsJob(w) ==
    /\ Goto(w, "ack", "idle")
    /\ UNCHANGED <<dbVars, api, ready, taskVars, faults, lost>>

\* task_acks_late: the message is settled when the task has ended, however.
Ack(w) ==
    /\ Goto(w, "ack", "idle")
    /\ Release(w)
    /\ UNCHANGED <<dbVars, api, ready, faults, lost>>

----------------------------------------------------------------------------
(* Faults of the environment, each within its budget.                        *)

Requeue(w) == ready' = [ready EXCEPT ![job[w]][retries[w]] = @ + 1]

\* Bug: early acknowledgement, so that nothing is left to deliver again.
CrashDropsMessage(w) ==
    /\ pc[w] # "idle"
    /\ Spend("crash")
    /\ pc' = [pc EXCEPT ![w] = "idle"]
    /\ Release(w)
    /\ UNCHANGED <<dbVars, api, ready, lost>>

\* The worker process tree dies: its open transaction rolls back and the
\* broker takes back the message if the worker still owns it.
Crash(w) ==
    /\ pc[w] # "idle"
    /\ Spend("crash")
    /\ pc' = [pc EXCEPT ![w] = "idle"]
    /\ Release(w)
    /\ IF owned[w] THEN Requeue(w) ELSE UNCHANGED ready
    /\ IF ~owned[w] /\ pc[w] # "ack" THEN Lose(job[w], "crash") ELSE UNCHANGED lost
    /\ UNCHANGED <<dbVars, api>>

\* The broker connection drops: the message is delivered again while the first
\* run goes on, and the first run's acknowledgement will mean nothing.
Disconnect(w) ==
    /\ owned[w]
    /\ Spend("disconnect")
    /\ Requeue(w)
    /\ owned' = [owned EXCEPT ![w] = FALSE]
    /\ UNCHANGED <<dbVars, api, pc, job, retries, seen, stage, attempt, lost>>

\* Only the pool child dies (out of memory, a signal).  Its parent acks, as
\* task_reject_on_worker_lost is not set.
LoseChild(w) ==
    /\ pc[w] \in RunPcs
    /\ Spend("childLost")
    /\ pc' = [pc EXCEPT ![w] = "ack"]
    /\ Lose(job[w], "childLost")
    /\ UNCHANGED <<dbVars, api, ready, taskVars>>

\* Redis or PostgreSQL raises.  Only StageExecutionError is retried: any other
\* exception closes the session, which rolls back, and ends the task.
Exception(w, cause) ==
    /\ pc[w] \in IF cause = "redis" THEN PublishPcs ELSE DbPcs
    /\ Spend(cause)
    /\ pc' = [pc EXCEPT ![w] = "ack"]
    /\ Lose(job[w], cause)
    /\ UNCHANGED <<dbVars, api, ready, taskVars>>

----------------------------------------------------------------------------
ApiStep(e) == SendTask(e) \/ CommitTrigger(e)

WorkerStep(w) ==
    \/ Load(w) \/ BeginRun(w) \/ CommitStart(w) \/ Publish(w)
    \/ CheckStage(w) \/ NextAttempt(w) \/ CreateStep(w) \/ LogLine(w) \/ RunStage(w)
    \/ MarkRetrying(w) \/ MarkFailed(w) \/ MarkSucceeded(w) \/ LogCompleted(w)
    \/ AutoRetry(w) \/ Ack(w)

Fault(w) ==
    \/ Crash(w) \/ Disconnect(w) \/ LoseChild(w)
    \/ \E cause \in {"redis", "db"} : Exception(w, cause)

\* Nothing is left to do: the handlers returned, the queue is empty, the
\* workers are idle.  Any other state without a successor is a deadlock.
Quiescent ==
    /\ \A e \in Executions : api[e] \in {"done", "aborted"}
    /\ \A e \in Executions, r \in RetryCounts : ready[e][r] = 0
    /\ \A w \in Workers : pc[w] = "idle"
    /\ UNCHANGED vars

Next ==
    \/ \E e \in Executions : CreateExecution(e) \/ ApiStep(e) \/ AbortTrigger(e)
    \/ \E w \in Workers, e \in Executions : Deliver(w, e)
    \/ \E w \in Workers : WorkerStep(w) \/ Fault(w)
    \/ Quiescent

Spec == Init /\ [][Next]_vars

\* A started handler runs to its end, a worker keeps executing its task, and
\* the broker delivers to a free worker.  Users and faults owe nothing.
Fairness ==
    /\ \A e \in Executions : WF_vars(ApiStep(e))
    /\ \A e \in Executions : WF_vars(\E w \in Workers : Deliver(w, e))
    /\ \A w \in Workers : WF_vars(WorkerStep(w))

FairSpec == Spec /\ Fairness
----------------------------------------------------------------------------
(* Properties that hold whatever is delivered, lost or delivered twice.      *)

\* Every variable stays in its range, and a worker has a message exactly while
\* it is not idle (deliver, run, settle).
TypeOK ==
    /\ exec \in [Executions -> [status : ExecStatuses, result : BOOLEAN, error : BOOLEAN]]
    /\ steps \in [Executions -> [Keys -> [Attempts -> StepStatuses]]]
    /\ logs \in [Executions -> [Keys -> [Attempts -> SUBSET StepLines]]]
    /\ execLog \in [Executions -> SUBSET ExecLines]
    /\ api \in [Executions -> {"idle", "created", "sent", "done", "aborted"}]
    /\ ready \in [Executions -> [RetryCounts -> Nat]]
    /\ pc \in [Workers -> Pcs]
    /\ job \in [Workers -> Executions \cup {None}]
    /\ retries \in [Workers -> RetryCounts]
    /\ owned \in [Workers -> BOOLEAN]
    /\ seen \in [Workers -> ExecStatuses]
    /\ stage \in [Workers -> 1..(Len(Stages) + 1)]
    /\ attempt \in [Workers -> 0..MaxAttempts]
    /\ faults \in [FaultKinds -> Nat]
    /\ lost \in [Executions -> SUBSET LostCauses]
    /\ \A w \in Workers : pc[w] = "idle" <=> job[w] = None

\* An accepted execution that is not finished and that no message and no run
\* will ever touch again was lost in one of the named ways; late
\* acknowledgement and republish-before-ack leave no other way.
StrandedOnlyByKnownCause ==
    \A e \in Executions :
        Committed(e) /\ ~Settled(e) /\ ~InHand(e) => lost[e] # {}

\* A step is recorded for a stage only after every stage before it succeeded,
\* across retries, redeliveries and concurrent runs of the same execution.
StagesInOrder ==
    \A e \in Executions, k \in Keys, a \in Attempts :
        steps[e][k][a] # "absent" =>
            \E i \in DOMAIN Stages :
                /\ Key(i) = k
                /\ \A j \in 1..(i - 1) : Succeeded(e, Key(j))

\* SUCCEEDED is only written when every stage of the workflow has a succeeded
\* step, even by a run that skipped most of them.
SucceededMeansAllStages ==
    \A e \in Executions :
        exec[e].status = "succeeded" => \A i \in DOMAIN Stages : Succeeded(e, Key(i))

\* The attempts of a stage are numbered 1, 2, ... without a gap, although the
\* number is read by one statement and inserted by a later one.
AttemptsContiguous ==
    \A e \in Executions, k \in Keys, a \in Attempts :
        steps[e][k][a] # "absent" => \A b \in 1..a : steps[e][k][b] # "absent"

\* FAILED is only written for a stage that failed at its last allowed attempt.
FailedOnlyAfterBudget ==
    \A e \in Executions :
        exec[e].status = "failed" =>
            \E k \in Keys, a \in Attempts :
                a >= MaxStageRetries /\ steps[e][k][a] = "failed"

\* A log line never tells more than the step row it belongs to: the two are
\* written in different transactions, the row first.
LogsNeverAhead ==
    \A e \in Executions, k \in Keys, a \in Attempts :
        /\ "started"   \in logs[e][k][a] => steps[e][k][a] # "absent"
        /\ "failed"    \in logs[e][k][a] => steps[e][k][a] = "failed"
        /\ "completed" \in logs[e][k][a] => steps[e][k][a] = "succeeded"

\* Once a step row says succeeded or failed no later run rewrites it, whichever
\* runs overlap.
VerdictIsFinal ==
    [][\A e \in Executions, k \in Keys, a \in Attempts :
          steps[e][k][a] \in {"succeeded", "failed"} => steps'[e][k][a] = steps[e][k][a]]_vars

----------------------------------------------------------------------------
(* Properties that hold as long as no message is delivered twice, that is    *)
(* without the faults "crash" and "disconnect".                              *)

\* An execution has one message at a time: waiting, or being run.
OneMessage ==
    \A e \in Executions :
        LET waiting == {r \in RetryCounts : ready[e][r] > 0}
            running == {w \in Workers : job[w] = e /\ pc[w] # "ack"}
        IN  /\ Cardinality(waiting) + Cardinality(running) <= 1
            /\ \A r \in waiting : ready[e][r] = 1

\* No step is recorded for a stage that has succeeded already.
SucceededNotRedone ==
    [][\A e \in Executions, k \in Keys :
          Succeeded(e, k) => \A a \in Attempts :
             steps[e][k][a] = "absent" => steps'[e][k][a] = "absent"]_vars

FailedRows(e) == {row \in Keys \X Attempts : steps[e][row[1]][row[2]] = "failed"}

\* A finished execution has no step left running, a result exactly when it
\* succeeded and an error message exactly when it failed.
SettledRowsAgree ==
    \A e \in Executions : Settled(e) =>
        /\ exec[e].result <=> exec[e].status = "succeeded"
        /\ exec[e].error  <=> exec[e].status = "failed"
        /\ \A k \in Keys, a \in Attempts : steps[e][k][a] # "running"

----------------------------------------------------------------------------
(* What makes the first group inductive.                                     *)

\* The locals of a run mean what the next statement needs them to mean.
LocalsOK ==
    \A w \in Workers :
        /\ pc[w] = "idle" => stage[w] = 1 /\ ~owned[w]
        /\ pc[w] \in StagePcs => stage[w] \in DOMAIN Stages
        /\ pc[w] \in StagePcs \ {"number"} => attempt[w] \in Attempts

\* A run's current row says what the run believes about it.
RowHeld(w) ==
    LET row == steps[job[w]][Key(stage[w])][attempt[w]] IN
    /\ pc[w] \in OpenPcs   => row = "running"
    /\ pc[w] \in FailedPcs => row = "failed"
    /\ pc[w] \in DonePcs   => row = "succeeded"

\* The loop of run_execution moves on from succeeded stages only.
StagesPassed(w) ==
    pc[w] # "idle" => \A i \in 1..(stage[w] - 1) : Succeeded(job[w], Key(i))

\* The number a run is about to insert leaves no gap below it.
AttemptIsNext(w) ==
    pc[w] = "create" =>
        \A b \in 1..(attempt[w] - 1) : steps[job[w]][Key(stage[w])][b] # "absent"

RunInv(w) == RowHeld(w) /\ StagesPassed(w) /\ AttemptIsNext(w)

\* uq_execution_step_attempt: no two runs work on the same row.
OneRunPerRow ==
    \A v, w \in Workers :
        /\ pc[v] \in OpenPcs /\ pc[w] \in OpenPcs
        /\ job[v] = job[w]
        /\ Key(stage[v]) = Key(stage[w])
        /\ attempt[v] = attempt[w]
        => v = w

StepInv == LocalsOK /\ OneRunPerRow /\ \A w \in Workers : RunInv(w)

\* Only a committed execution gets past load.
CommittedFirst ==
    /\ \A e \in Executions : api[e] # "done" => exec[e].status = "none"
    /\ \A w \in Workers :
          pc[w] \in RunPcs \ {"load"} => exec[job[w]].status # "none"

\* A run that starts an execution believes it running, even one that another
\* run has settled meanwhile, and will put it back to RUNNING.
StartersBelieve ==
    \A w \in Workers : pc[w] \in {"pubRunning", "pubStarted", "commitStart"} => seen[w] = "running"

\* Who will still move an unfinished execution: a message, or a run that has
\* not yet read a terminal status.  A run that read one may write nothing.
Carrier(e) ==
    \/ \E r \in RetryCounts : ready[e][r] > 0
    \/ \E w \in Workers :
          /\ job[w] = e
          /\ pc[w] \in RunPcs \ ClosingPcs
          /\ pc[w] = "load" \/ seen[w] \notin Terminal

Carried ==
    \A e \in Executions :
        api[e] \in {"sent", "done"} /\ ~Settled(e) /\ lost[e] = {} => Carrier(e)

CarryInv == CommittedFirst /\ StartersBelieve /\ Carried

----------------------------------------------------------------------------
(* What makes the second group inductive: without redelivery there is one    *)
(* message, and whoever runs it is alone with the rows of its execution.     *)

SingleDelivery == FaultBudget["crash"] = 0 /\ FaultBudget["disconnect"] = 0

Runs(w, e) == job[w] = e /\ pc[w] \in RunPcs

\* The only copy of the message is in one place.
MessageAlone(e) ==
    /\ \A r \in RetryCounts : ready[e][r] <= 1
    /\ \A r, q \in RetryCounts : ready[e][r] > 0 /\ ready[e][q] > 0 => r = q
    /\ \A v, w \in Workers : Runs(v, e) /\ Runs(w, e) => v = w
    /\ \A r \in RetryCounts, w \in Workers : ~(ready[e][r] > 0 /\ Runs(w, e))
    /\ api[e] \in {"idle", "created"} => ~InHand(e)

\* What a run believes about its execution is so.
StartPcs == {"begin", "pubRunning", "pubStarted", "commitStart"}

LoopPcs  == RunPcs \ (StartPcs \cup ClosingPcs \cup {"load"})

StatusKnown(w) ==
    /\ pc[w] \in StartPcs => exec[job[w]].status = "queued"
    /\ pc[w] \in LoopPcs =>
          exec[job[w]].status \in {"running", "retrying"} /\ seen[w] \notin Terminal

StageUndone(w) ==
    pc[w] \in StagePcs \ (DonePcs \cup ClosingPcs) => ~Succeeded(job[w], Key(stage[w]))

\* A finished execution is left alone, and only a finished one has a verdict.
RowSettled(e) ==
    /\ exec[e].result <=> exec[e].status = "succeeded"
    /\ exec[e].error  <=> exec[e].status = "failed"
    /\ Settled(e) => /\ \A r \in RetryCounts : ready[e][r] = 0
                     /\ \A w \in Workers : Runs(w, e) => pc[w] \in ClosingPcs

\* A step row that says "running" is being worked on, or its execution was
\* abandoned and stays unfinished.
OpenRow(e, k, a) ==
    \/ \E w \in Workers : /\ job[w] = e
                         /\ pc[w] \in OpenPcs
                         /\ Key(stage[w]) = k
                         /\ attempt[w] = a
    \/ ~InHand(e) /\ ~Settled(e)

RowsOwned ==
    \A e \in Executions, k \in Keys, a \in Attempts :
        /\ steps[e][k][a] # "absent" => Committed(e)
        /\ steps[e][k][a] = "running" => OpenRow(e, k, a)

DeliveryInv ==
    /\ faults["crash"] = 0 /\ faults["disconnect"] = 0
    /\ \A e \in Executions : MessageAlone(e) /\ RowSettled(e)
    /\ \A w \in Workers : StatusKnown(w) /\ StageUndone(w)
    /\ RowsOwned

\* The retries header of a message counts the failed steps of its execution.
RetriesCount ==
    \A e \in Executions :
        /\ api[e] \in {"idle", "created"} => FailedRows(e) = {}
        /\ \A r \in RetryCounts : ready[e][r] > 0 => Cardinality(FailedRows(e)) = r
        /\ \A w \in Workers : Runs(w, e) /\ pc[w] \notin ClosingPcs =>
              Cardinality(FailedRows(e)) = retries[w] + (IF pc[w] \in FailedPcs THEN 1 ELSE 0)

----------------------------------------------------------------------------
(* Liveness, under Fairness.                                                 *)

\* Every accepted execution finishes, unless one of the known causes took its
\* message.
AcceptedSettles ==
    \A e \in Executions : Committed(e) ~> (Settled(e) \/ lost[e] # {})
----------------------------------------------------------------------------
(* The abstract life of an execution, implemented while no message is        *)
(* delivered twice.                                                          *)

Lifecycle == INSTANCE ExecutionLifecycle WITH
    status   <- [e \in Executions |-> exec[e].status],
    done     <- [e \in Executions |-> {k \in Keys : Succeeded(e, k)}],
    failures <- [e \in Executions |-> Cardinality(FailedRows(e))]

\* Statuses, finished stages and failures move as the lifecycle allows.
ImplementsLifecycle == Lifecycle!Spec

----------------------------------------------------------------------------
(* Statements of the repository that the code does not keep.                 *)

\* README: an execution that is queued is picked up by a worker.
QueuedIsPickedUp ==
    \A e \in Executions : exec[e].status = "queued" => InHand(e)

\* bootstrap-github.sh: a task that exhausts its retry budget is marked failed.
ExhaustedIsFailed ==
    \A e \in Executions :
        "budget" \in lost[e] /\ ~InHand(e) => exec[e].status = "failed"
=============================================================================
