------------------------- MODULE ExecutionLifecycle -------------------------
(* What an execution promises to whoever watches it: it is accepted, it      *)
(* starts, its stages are completed one after the other, its failures are    *)
(* bounded, and it ends at most once.  Queues, workers and transactions are  *)
(* out of sight here.                                                        *)
EXTENDS Naturals, Sequences

CONSTANTS Executions, Stages, MaxStageRetries

VARIABLES
    status,    \* "none" until the execution is accepted
    done,      \* the keys of the stages that succeeded
    failures   \* how many stage attempts failed

lifeVars == <<status, done, failures>>

StageKey(i) == Stages[i].key
StageKeys   == {StageKey(i) : i \in DOMAIN Stages}
Active(e)   == status[e] \in {"running", "retrying"}

LifeInit ==
    /\ status = [e \in Executions |-> "none"]
    /\ done = [e \in Executions |-> {}]
    /\ failures = [e \in Executions |-> 0]

Move(e, s) == status' = [status EXCEPT ![e] = s] /\ UNCHANGED <<done, failures>>

Accept(e) == status[e] = "none" /\ Move(e, "queued")

Start(e) == status[e] = "queued" /\ Move(e, "running")

\* The next stage in order succeeds.
CompleteStage(e) ==
    /\ Active(e)
    /\ \E i \in DOMAIN Stages :
          /\ StageKey(i) \notin done[e]
          /\ \A j \in 1..(i - 1) : StageKey(j) \in done[e]
          /\ done' = [done EXCEPT ![e] = @ \cup {StageKey(i)}]
    /\ UNCHANGED <<status, failures>>

\* A stage attempt fails; one failure more than the retries is possible.
FailAttempt(e) ==
    /\ Active(e)
    /\ failures[e] <= MaxStageRetries
    /\ failures' = [failures EXCEPT ![e] = @ + 1]
    /\ UNCHANGED <<status, done>>

\* The execution waits for its next attempt, having failed at least once.
BackOff(e) == Active(e) /\ failures[e] > 0 /\ Move(e, "retrying")

\* The execution is given up, after as many failures as one stage may have.
GiveUp(e) == Active(e) /\ failures[e] >= MaxStageRetries /\ Move(e, "failed")

Succeed(e) == Active(e) /\ done[e] = StageKeys /\ Move(e, "succeeded")

LifeNext == \E e \in Executions :
    \/ Accept(e) \/ Start(e) \/ CompleteStage(e) \/ FailAttempt(e)
    \/ BackOff(e) \/ GiveUp(e) \/ Succeed(e)

Spec == LifeInit /\ [][LifeNext]_lifeVars
=============================================================================
