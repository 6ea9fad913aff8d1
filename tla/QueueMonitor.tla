---------------------------- MODULE QueueMonitor ----------------------------
(* The queue monitor: a page that polls GET /queue/status, and the endpoint, *)
(* which asks the Celery workers three questions, one after the other, while *)
(* deliveries of tasks move between them.  Answers may overtake each other.  *)
EXTENDS Naturals, FiniteSets

CONSTANTS
    Tasks, Workers,
    Polls,           \* polls on their way at once
    MaxDeliveries,   \* bound on the messages that workers receive
    MaxMoves,        \* bound on the steps of tasks
    MaxChanges,      \* bound on the times a worker or its connection is lost or back
    MaxFailures,     \* bound on failed polls
    None

ASSUME QueueMonitorAssumption ==
    /\ None \notin Workers \cup Tasks
    /\ MaxDeliveries \in Nat /\ MaxMoves \in Nat /\ MaxChanges \in Nat /\ MaxFailures \in Nat

VARIABLES
    queue,         \* how many messages of each task wait at the broker
    delivery,      \* where each message that a worker has received is
    up,            \* the workers that answer
    moves, changes, failures,
    poll,          \* the polls on their way
    status, error, \* what the page shows
    cancelled      \* the page was left

queueVars == <<queue, delivery, up, moves, changes>>
pageVars  == <<status, error, cancelled>>
vars      == <<queueVars, failures, poll, pageVars>>

Deliveries == 1..MaxDeliveries

\* A worker's lists; a message that waits for its time is scheduled.
Lists == {"active", "reserved", "scheduled"}

\* `held`: the broker still counts the delivery as not acknowledged.
NotYet == [at |-> "none", task |-> None, worker |-> None, held |-> FALSE, retried |-> FALSE]
Gone   == [NotYet EXCEPT !.at = "done"]

\* queue_status up to its answer, with who has answered each of its questions, and
\* what they said.
Asking == {"reserved", "scheduled"}
Stages == Asking \cup {"idle", "sent", "events", "answered", "failed"}
Nobody == [l \in Lists |-> {}]
Idle   == [stage |-> "idle", keys |-> Nobody, lists |-> Nobody]

NoStatus == [workers |-> {}, tiles |-> [l \in Lists |-> 0], loaded |-> FALSE]

\* Each task was published once; the workers are started with the rest or later.
Init ==
    /\ queue = [t \in Tasks |-> 1]
    /\ delivery = [d \in Deliveries |-> NotYet]
    /\ up \in {{}, Workers}
    /\ moves = 0
    /\ changes = 0
    /\ failures = 0
    /\ poll = [p \in Polls |-> Idle]
    /\ status = NoStatus
    /\ error = FALSE
    /\ cancelled = FALSE

----------------------------------------------------------------------------
(* Celery.  A message is acknowledged late, so the broker delivers it again  *)
(* when the worker or its connection is lost.                                *)

Moves ==
    /\ moves < MaxMoves
    /\ moves' = moves + 1
    /\ UNCHANGED <<up, changes, failures, poll, pageVars>>

\* A message with a countdown waits in the schedule of its worker first.
Receive(t, d, w) ==
    /\ queue[t] > 0 /\ w \in up
    /\ delivery[d] = NotYet /\ \A c \in 1..(d - 1) : delivery[c] # NotYet
    /\ queue' = [queue EXCEPT ![t] = @ - 1]
    /\ \E l \in {"reserved", "scheduled"} :
          delivery' = [delivery EXCEPT ![d] =
             [at |-> l, task |-> t, worker |-> w, held |-> TRUE, retried |-> FALSE]]
    /\ Moves

Pass(d, from, to) ==
    /\ delivery[d].at = from
    /\ delivery' = [delivery EXCEPT ![d].at = to]
    /\ Moves /\ UNCHANGED queue

Due(d)   == Pass(d, "scheduled", "reserved")
Start(d) == Pass(d, "reserved", "active")

\* self.retry publishes a new message; only then does the run end.
Retry(d) ==
    /\ delivery[d].at = "active" /\ ~delivery[d].retried
    /\ queue' = [queue EXCEPT ![delivery[d].task] = @ + 1]
    /\ delivery' = [delivery EXCEPT ![d].retried = TRUE]
    /\ Moves

\* The run has ended and the message is acknowledged.
End(d) ==
    /\ delivery[d].at = "active"
    /\ delivery' = [delivery EXCEPT ![d] = Gone]
    /\ Moves /\ UNCHANGED queue

At(w) == {d \in Deliveries : delivery[d].at \in Lists /\ delivery[d].worker = w}

\* The broker delivers again what `w` has not acknowledged.
Requeue(w) ==
    queue' = [t \in Tasks |->
        queue[t] + Cardinality({d \in At(w) : delivery[d].task = t /\ delivery[d].held})]

Changes ==
    /\ changes < MaxChanges
    /\ changes' = changes + 1
    /\ UNCHANGED <<moves, failures, poll, pageVars>>

WorkerDown(w) ==
    /\ w \in up \/ At(w) # {}
    /\ Requeue(w)
    /\ delivery' = [d \in Deliveries |-> IF d \in At(w) THEN Gone ELSE delivery[d]]
    /\ up' = up \ {w}
    /\ Changes

\* The connection to the broker is lost: the worker drops what it has not started
\* and goes on with what it runs.
Disconnect(w) ==
    /\ w \in up
    /\ Requeue(w)
    /\ delivery' = [d \in Deliveries |->
          IF d \notin At(w) THEN delivery[d]
          ELSE IF delivery[d].at = "active" THEN [delivery[d] EXCEPT !.held = FALSE]
          ELSE Gone]
    /\ up' = up \ {w}
    /\ Changes

WorkerUp(w) ==
    /\ w \notin up
    /\ up' = up \cup {w}
    /\ Changes /\ UNCHANGED <<queue, delivery>>

WorkerStep == \E w \in Workers : WorkerDown(w) \/ Disconnect(w) \/ WorkerUp(w)

CeleryStep ==
    \/ \E d \in Deliveries :
          \/ \E t \in Tasks, w \in Workers : Receive(t, d, w)
          \/ Due(d) \/ Start(d) \/ Retry(d) \/ End(d)
    \/ WorkerStep

----------------------------------------------------------------------------
(* queue_status.  inspect() blocks the one event loop: between the questions *)
(* of one request no other handler runs, but the workers do.                 *)

LoopIsFree == \A p \in Polls : poll[p].stage \notin Asking

\* The list `l` of every worker that answers.
Inspect(l) == {d \in Deliveries : delivery[d].at = l /\ delivery[d].worker \in up}

SetPoll(p, r) ==
    /\ poll' = [poll EXCEPT ![p] = r]
    /\ UNCHANGED queueVars

\* One question about the lists `l`, put down as the one about the lists `as`.
Ask(p, l, as, stage) ==
    /\ SetPoll(p, [poll[p] EXCEPT !.stage = stage, !.keys[as] = up, !.lists[as] = Inspect(l)])
    /\ UNCHANGED <<failures, pageVars>>

\* Bug: the questions of two requests may interleave.
InspectActiveBusy(p) ==
    /\ poll[p].stage = "sent"
    /\ Ask(p, "active", "active", "reserved")

InspectActive(p) ==
    /\ poll[p].stage = "sent" /\ LoopIsFree
    /\ Ask(p, "active", "active", "reserved")

\* Bug: the second question is the first one again.
InspectReservedAsActive(p) ==
    /\ poll[p].stage = "reserved"
    /\ Ask(p, "active", "reserved", "scheduled")

InspectReserved(p) ==
    /\ poll[p].stage = "reserved"
    /\ Ask(p, "reserved", "reserved", "scheduled")

InspectScheduled(p) ==
    /\ poll[p].stage = "scheduled"
    /\ Ask(p, "scheduled", "scheduled", "events")

\* The rows of job_queue_events, which nothing writes; then the answer, of whose
\* lists the page reads only the keys.
SelectEvents(p) ==
    /\ poll[p].stage = "events" /\ LoopIsFree
    /\ SetPoll(p, [poll[p] EXCEPT !.stage = "answered", !.lists = Nobody])
    /\ UNCHANGED <<failures, pageVars>>

\* A question or the query raises, or the connection is lost.
Fail(p) ==
    /\ poll[p].stage \notin {"idle", "failed"} /\ failures < MaxFailures
    /\ failures' = failures + 1
    /\ SetPoll(p, [Idle EXCEPT !.stage = "failed"])
    /\ UNCHANGED pageVars

----------------------------------------------------------------------------
(* The page.                                                                 *)

\* Bug: the interval is cleared by the first error.
PollUntilError(p) ==
    /\ ~cancelled /\ ~error
    /\ poll[p].stage = "idle"
    /\ SetPoll(p, [Idle EXCEPT !.stage = "sent"])
    /\ UNCHANGED <<failures, pageVars>>

\* The effect's first call and every tick of the interval, whether or not the
\* polls before have been answered.
Poll(p) ==
    /\ ~cancelled
    /\ poll[p].stage = "idle"
    /\ SetPoll(p, [Idle EXCEPT !.stage = "sent"])
    /\ UNCHANGED <<failures, pageVars>>

\* "workers" of the answer: who answered the first question or, when nobody did,
\* the second.
WorkersOf(keys) == IF keys["active"] # {} THEN keys["active"] ELSE keys["reserved"]

\* A tile counts the keys of a map of the answer: the workers that answered the
\* question, whatever tasks they named.
Shown(p) ==
    [workers |-> WorkersOf(poll[p].keys),
     tiles   |-> [l \in Lists |-> Cardinality(poll[p].keys[l])],
     loaded  |-> TRUE]

ShowAnswer(p) ==
    /\ status' = Shown(p)
    /\ error' = FALSE

\* Bug: the cleanup does not reach polls that are on their way.
AnswerAnyway(p) ==
    /\ poll[p].stage = "answered"
    /\ SetPoll(p, Idle)
    /\ ShowAnswer(p)
    /\ UNCHANGED <<failures, cancelled>>

Answer(p) ==
    /\ poll[p].stage = "answered"
    /\ SetPoll(p, Idle)
    /\ IF cancelled THEN UNCHANGED <<status, error>> ELSE ShowAnswer(p)
    /\ UNCHANGED <<failures, cancelled>>

\* The last answer stays on the page.
Caught(p) ==
    /\ poll[p].stage = "failed"
    /\ SetPoll(p, Idle)
    /\ error' = (error \/ ~cancelled)
    /\ UNCHANGED <<failures, status, cancelled>>

Leave ==
    /\ ~cancelled
    /\ cancelled' = TRUE
    /\ UNCHANGED <<queueVars, failures, poll, status, error>>

Handle(p) ==
    InspectActive(p) \/ InspectReserved(p) \/ InspectScheduled(p) \/ SelectEvents(p)

Next ==
    \/ CeleryStep
    \/ \E p \in Polls : Handle(p) \/ Fail(p) \/ Poll(p) \/ Answer(p) \/ Caught(p)
    \/ Leave

Spec == Init /\ [][Next]_vars

----------------------------------------------------------------------------
(* Properties.                                                               *)

DeliveryType ==
    {NotYet, Gone} \cup
    [at : Lists, task : Tasks, worker : Workers, held : BOOLEAN, retried : BOOLEAN]

\* Every variable stays in its range; one request at a time holds the loop.
QueueTypeOK ==
    /\ queue \in [Tasks -> Nat] /\ up \subseteq Workers
    /\ delivery \in [Deliveries -> DeliveryType]
    /\ moves \in 0..MaxMoves /\ changes \in 0..MaxChanges
    /\ failures \in 0..MaxFailures
    /\ \A p \in Polls :
          /\ poll[p].stage \in Stages
          /\ \A l \in Lists : /\ poll[p].keys[l] \subseteq Workers
                              /\ poll[p].lists[l] \subseteq Deliveries
    /\ status.workers \subseteq Workers
    /\ error \in BOOLEAN /\ cancelled \in BOOLEAN
    /\ Cardinality({p \in Polls : poll[p].stage \in Asking}) <= 1

\* queue_status asks in the order against which a message moves through a worker, so
\* no message is listed twice in one answer, whatever moved between the questions.  A
\* task is listed twice only when it was delivered twice: its retry is published
\* before its run ends, and a run goes on when the connection of its worker is lost.
DeliveriesListedOnce ==
    \A p \in Polls, k, l \in Lists :
        k # l => poll[p].lists[k] \cap poll[p].lists[l] = {}

\* No poll changes the page after it was left.
CleanupIsFinal == [][cancelled => UNCHANGED <<status, error>>]_vars

\* Answers overtake each other and polls fail, but once the workers rest an open
\* page comes to show who they are, with no error, and keeps doing so.  Each tile,
\* "Active Tasks" and the others, then shows how many workers there are: the page
\* counts the keys of a map whose keys are workers.
CurrentInTheEnd ==
    <>[](cancelled \/
         (~error /\ status = [workers |-> up, loaded |-> TRUE,
                              tiles |-> [l \in Lists |-> Cardinality(up)]]))
=============================================================================
