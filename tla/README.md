# Verification of the AI orchestration platform

TLA+ models of the platform, TLC configurations that check them on small
instances, and TLAPS proofs of what holds for all of them. File names below are
relative to the repository (`src/`).

- [1. The system](#1-the-system)
- [2. Plan](#2-plan)
- [3. Modules and how they follow the code](#3-modules-and-how-they-follow-the-code)
- [4. Runs](#4-runs)
- [5. Proofs](#5-proofs)
- [6. Behaviours worth knowing](#6-behaviours-worth-knowing)
- [7. What is not modelled](#7-what-is-not-modelled)

## 1. The system

A user builds a workflow (a list of stages) in a Next.js front end and triggers
executions of it. A FastAPI backend stores the execution in PostgreSQL and puts
a Celery message on RabbitMQ. A Celery worker runs the stages in order,
recording each attempt, and announces every change on a Redis channel. A
WebSocket endpoint relays the channel to the open page.

| Component | State | Operations | Talks to | Correct when |
|---|---|---|---|---|
| Triggering (`backend/app/services/execution_service.py`, `db/session.py`) | one transaction per request | insert, `send_task`, `mark_queued`, commit / rollback | queue, rows | an accepted execution is run |
| Task queue (`backend/app/worker/celery_app.py`, RabbitMQ) | messages with a retries header, unacknowledged deliveries | publish, deliver, ack late, redeliver | API, workers | no message is lost between two runs |
| Execution task (`backend/app/worker/tasks.py`, `repositories/execution_repo_sync.py`, `worker/stage_simulators.py`) | locals, a SQLAlchemy session | load, skip, create step, finish step, log, write status, raise for retry | rows, queue, Redis | stages in order, a terminal status that the rows bear out, bounded failures |
| Execution rows (`backend/app/db/models`, `alembic`) | execution, step and log rows, unique (execution, stage, attempt) | insert, update | everyone | a verdict is never rewritten, attempts have no gap |
| Progress events (`backend/app/services/progress_broadcaster.py`) | subscribers of a channel | publish, subscribe | task, endpoint | events reach a subscribed page in order |
| WebSocket endpoint (`backend/app/api/routers/ws.py`) | one coroutine per socket | accept, snapshot by three SELECTs, send, subscribe, 4404 | rows, Redis, page | a page that joins late sees the truth |
| `useExecutionSocket` (`frontend/src/lib/ws/useExecutionSocket.ts`) | reducer state, four refs, sockets, timers | effect, cleanup, onopen, onmessage, onclose, timer | endpoint | the page comes to show the outcome, unless it missed the last event, and then stops |
| Workflow form (`frontend/src/components/workflows/CreateWorkflowForm.tsx`) | drafts, uid counter, submit state | add, edit, move, remove, validate, submit | API | uids and stage keys tell steps apart |
| Execution page (`frontend/src/components/execution/ExecutionDetailView.tsx`, `StageTimeline.tsx`, `LogPanel.tsx`) | none of its own | show the hook's state | `useExecutionSocket` | no attempt twice, a verdict with its result or error, a true dot |
| Workflow storage (`backend/app/repositories/workflow_repo.py`) | workflow rows | create, list, read | rows | one workflow per answered request |
| Listings (`backend/app/repositories/execution_repo.py`, list pages) | none | count, then select the newest | rows | a list leaves out nothing newer than what it shows |
| Dashboard (`frontend/src/app/page.tsx`) | none | ask for workflows and executions at once, join them | both lists | the two lists fit each other |
| Trigger button (`frontend/src/components/execution/TriggerExecutionButton.tsx`) | a flag, an error | click, answer, error | API | one execution per answered click |
| Queue monitor (`backend/app/api/routers/queue.py`, `frontend/src/app/queue/page.tsx`) | last answer, error, poll timer | poll, three questions, show | Celery inspect | no delivery listed twice, the workers there are shown in the end |
| Readiness (`backend/app/api/routers/health.py`, `frontend/src/app/system/page.tsx`) | a database session per request | three probes, commit, answer | PostgreSQL, Redis, workers | what is shown of a service was true during the request |
| API client, summary page, login page, layout, seeding, migrations | none of their own | - | - | - |

What makes it hard:

- **Concurrency.** Workers, the API and any number of sockets share the rows
  under READ COMMITTED. `tasks.py` commits after almost every statement, so each
  commit is a point where others look and where a run can die.
- **Delivery.** `task_acks_late` redelivers the message of a dead worker; a lost
  broker connection redelivers it while the first run is still going on.
- **Retries.** Celery counts retries per task, the task counts attempts per stage.
- **Order.** The task message leaves before its row is committed; events are
  published beside the commits; the page reads a snapshot and subscribes after.
- **Stale state.** The ORM writes a status only when it differs from the one the
  session loaded; the attempt number is read before it is inserted; socket
  handlers run against refs that a later effect has reset.

`PROJECT.json` lists these at their lines, as hazards, with the properties that
would catch each going wrong.

## 2. Plan

Done, in this order:

1. `Orchestration`: trigger, queue, task, rows, faults. The heart of the system.
2. `ExecutionLifecycle`: the abstract promise, implemented by `Orchestration`.
3. `OrchestrationProofs`: type correctness and the safety invariants.
4. `LiveProgress`, which extends `Orchestration` with Redis, endpoint and page.
5. `ExecutionSocket` and `ExecutionSocketProofs`: the hook's connection logic
   alone, where refs and timers of several runs of the effect meet.
6. `WorkflowForm` and `WorkflowFormProofs`.
7. `Listings` and `ListingsProofs`: lists read by two statements while
   executions are triggered, and the button that triggers them.
8. `QueueMonitor`: overlapping polls, and questions that deliveries overtake.
9. The execution page: rows of the timeline and of the log by identity, result
   card (`LiveProgress`), connection state (`ExecutionSocket`).
10. `Dashboard` and `DashboardProofs`, which extend `Listings`: workflows that are
    created beside their executions, and a page that joins two lists.
11. `Readiness`, which extends `QueueMonitor`: probes of services that come and go;
    and `MonitoringProofs` about both.
12. `DeliveryProofs`, which extends `OrchestrationProofs`: who carries an execution
    on, and the refinement of `ExecutionLifecycle` when nothing is delivered twice.
13. `LiveProgressProofs`: what the page shows is true, stays and comes once.

Every invariant and every action property of the passing runs is now a theorem.
What is left to TLC is liveness, which the prover cannot state a proof of
(section 5). Further work would be models of more real time, such as the poll that
is slower than its interval, and weaker hypotheses: which of the properties that
assume a single delivery survive a redelivery in a smaller form.

## 3. Modules and how they follow the code

`PROJECT.json` "map" gives the lines of every definition.

### Orchestration

One action is one step that another process can observe: a commit, a message
sent or settled, or a read whose result is used later. `pc[w]` says where in
`run_execution` worker `w` stands; its values are named for the statement to
come.

| Code | Actions |
|---|---|
| `POST /workflows/{id}/executions` | `CreateExecution`, `SendTask`, `CommitTrigger`, `AbortTrigger` |
| Celery delivery | `Deliver`, `Ack`; `AutoRetry` for `autoretry_for=(StageExecutionError,)` |
| `tasks.py:54-80`, load and start | `Load`, `BeginRun`, `Publish`, `CommitStart` |
| `tasks.py:84-110`, a stage begins | `CheckStage`, `NextAttempt`, `CreateStep`, `Publish`, `LogLine` |
| `tasks.py:112-155`, it ends | `RunStage`, `Publish`, `LogLine`, then `MarkRetrying` or `MarkFailed` |
| `tasks.py:166-177`, the end | `MarkSucceeded`, `Publish`, `LogCompleted` |
| faults | `Crash`, `Disconnect`, `LoseChild`, `Exception`, `AbortTrigger` |

Points a reader might miss:

- `RUNNING` is flushed, published and only then committed (`tasks.py:71-80`).
  Until then it is invisible, and `RowLocked` makes a second run wait for it.
- `WriteStatus` writes the status only if it differs from `seen`, as the ORM does.
- A row taken by another run makes `CreateStep` raise IntegrityError, which
  Celery does not retry: the delivery ends.
- `lost` is a history variable: it records each way a delivery can end with
  neither a finished execution nor a new message. No guard reads it.
- A simulated stage fails with probability `failure_rate / attempt`; the model
  keeps which outcomes are possible.
- Backoff delays are left out: a retry may be delivered at once or much later.

Bounds: `MaxAttempts` caps the attempts recorded for a stage (guard of
`NextAttempt`), `FaultBudget` the faults of each kind, the constant sets the rest.

### ExecutionLifecycle

Status, finished stages and failure count of each execution, with no queue and
no worker in sight: accepted, started, stages completed in order, at most
`MaxStageRetries + 1` failures, one end. `Orchestration` implements it while no
message is delivered twice, with the mapping `status <- exec[e].status`,
`done <- ` keys with a succeeded row, `failures <- ` number of failed rows.

### LiveProgress

Extends `Orchestration`. `PublishEvent` is `Publish` plus Redis: the event goes
to the endpoint only if it is subscribed at that moment. The endpoint accepts,
reads execution, steps and logs by three statements, sends, subscribes. Redis,
endpoint and socket each keep order, so one queue (`inbox`) stands for all three.
`Apply` is the reducer `applyMessage`; `Closed` is `onclose`.

The view has what `ExecutionDetailView` shows. Its steps are a sequence, found by
key and attempt (`MergeSteps`) and sorted by stage (`SortSteps`); a snapshot
brings the attempts of a stage in any order, because the relationship is ordered
by `stage_order` alone. Its log lines are a set, since no property depends on
their order, with those that are there a second time in `again`: the reducer
appends without looking. `SortSteps` puts each row where the number of rows that
come before it (`Before`: an earlier stage, or the same stage and an earlier place)
says, which is the stable sort of the code. `None` marks the log lines of the
execution itself and is therefore no key. `TimelineKeys`, `RepeatedLines` and `ResultCard` are what
`StageTimeline`, `LogPanel` and the result card make of it.

### ExecutionSocket

The hook's effect, cleanup, handlers, timers and refs. A *line* is a socket or the
timer that will replace it. The cleanup closes the socket last opened and clears
the timer last set, and nothing else; close events come later. `Rerun` stands for
a new execution id and for the strict mode of React, which `next.config.ts` turns
on. An execution of `Missing` is one the server closes with 4404 after accepting.

At the other end of a line is a coroutine of the endpoint (`server`): `Accept`,
`SendSnapshot`, and only then `Subscribe`. What it sends waits in `inbox` until the
page reads it, so a message may be older than the rows when it is shown, and
`onopen` may come when the endpoint is already further. `Progress` and `Finish` are
the workers: an event reaches the lines that are subscribed at that moment, and the
last one may not be published at all, when the worker or Redis fails in between. The
lines that did not get it are noted in `missed` (history), until their connection
ends. A message is known by the status it brings, "live" or "terminal"; all else
about the endpoint is in `LiveProgress`.

`connectionState` is shared by all lines, as in the hook: each handler overwrites
it. A state updater runs once per event, as in a production build; strict mode
would also call the updater of `onclose` twice.

### WorkflowForm

Drafts with uids, the keys `toStageDefinitions` derives, `validate` and
`handleSubmit` with its await. A label is known by its slug, a sequence of words
and numbers, since a key is a slug with a number behind it. `Slug` is a constant:
how characters become a slug does not matter to any property, only which labels
meet. Steps are patched and removed by uid, as in the code, not by place: two
drafts with one uid would be patched and removed together (`UpdateStep`, `Others`).

### Listings

`GET /executions` is two statements, `CountRows` and `SelectRows`; between them
executions are committed, rolled back and moved on by the workers. An execution
is known by its place in the order of `created_at`, which is the begin of its
transaction (`now()`), so that executions may be committed out of that order. The
pages differ in filter and limit: `AskExecutions`, `AskWorkflow`, `AskRecent`. No
page passes an offset. `query.known` is history: what was
committed, and matched, when the page asked.

The button is `Click` to `Answer`, `Refused` or `NetworkError`. The last is both a
lost request and a lost answer, with the handler going on in the second case.
Sending the task is left to `Orchestration`; `RunExecution` lumps RUNNING with
RETRYING and the terminal statuses together, since a filter only tells equal
from different.

### Dashboard

Extends `Listings` with the transactions that create workflows and with
`GET /workflows`, again two statements. `OpenDashboard` sends both requests at
once, as `Promise.all` does, and their four statements come in any order that
keeps each request's own. The other pages ask for one list; the page of a
workflow, and with it the trigger button, exists only for a committed workflow
(`OpenWorkflow`, `Trigger`). One page is looked at at a time: pages only read, so
they do not disturb each other. A page whose request fails shows the error alone
(`ClosePage`).

### QueueMonitor

`queue_status` is an `async` function that calls the blocking `inspect()` three
times: tasks move between the questions, other requests wait (`LoopIsFree`). Then
it awaits the database, and its answer travels. The page polls again whether or
not it has been answered.

Workers and tasks are external and move as Celery and RabbitMQ move them. What
moves is a *delivery*: a message that a worker has received, through its schedule
if it has a countdown, to its reserved tasks and to its active ones. A task may have
several at once, as in `Orchestration`:

- `Retry` publishes the message of the next try while the run is still active;
  `End` acknowledges later.
- `WorkerDown` loses what is at the worker; the broker delivers it again.
- `Disconnect` makes the broker deliver everything again that was not acknowledged;
  the worker drops what it has not started and goes on with what it runs, whose
  delivery the broker no longer counts (`held`).

An answer is three maps by worker. `keys` has who answered each question, `lists`
what they named. The page takes `workers` from the first map or, when it is empty,
from the second (`WorkersOf`), and its tiles count the keys of each map (`Shown`): the
workers that answered, under the names of tasks.

### Readiness

Extends `QueueMonitor`, whose workers are what the third probe pings. The request
is the chain `AskReady`, `CheckDatabase`, `PingRedis`, `PingWorkers`,
`CommitAndAnswer`; between two of them services go down and come back
(`Meanwhile`). `get_db` makes the session that the first probe connects with and
commits it before the answer is sent, so a database that goes down in between
makes the commit raise and the page gets an error. A probe that finds the database
down may also have lost a connection it had made, hence the two outcomes of
`CheckDatabase`. `up`, `down` and `beside` are history. The System page is opened
in place of the queue monitor, before that has shown anything (`OnSystemPage`).
`inspect()` is not asked which workers answered, only whether any did
(`Answering`); a broker that is down answers like no worker.

## 4. Runs

`tlc -config <run>.cfg MC<Module>`; workers are symmetric where no liveness is
checked.

| Run | Instance | Shows |
|---|---|---|
| `single_delivery` | 1 execution, 2 stages, 2 workers, retries up to 3, every fault that delivers nothing twice | one message at a time, no succeeded stage is redone, settled rows agree, and `ExecutionLifecycle` is implemented, which has that a verdict is final and failures stay within Celery's budget |
| `redelivery` | 1 execution, 2 stages of which the first may fail, 2 workers, retries up to 2, a crash and a lost broker connection | the safety invariants, and `CarryInv` that says who carries an execution on, while two runs of one execution overlap at every point |
| `liveness` | 1 execution, 1 stage, 2 workers, a crash and a lost connection | an accepted execution finishes unless a known cause took its message |
| `live` | 1 execution of 1 stage that may fail and be tried again, 1 worker, 1 page opened at any time, a dropped socket | committed verdicts only and with what belongs to them, no attempt twice, one log line twice at most, never backwards, the outcome is learnt when the page subscribed in time or came after the end |
| `socket` | 2 ids, one unknown to the server, a rerun, 6 drops, an endpoint that may miss the last event | reconnecting stops at a terminal status and on unmount; refusals back off; the dot says "live" only while a socket is open; the outcome is shown unless the page stays on an open socket that missed it |
| `form` | 3 labels whose slugs meet, 3 steps, 4 uids, 2 requests | uids, keys, one workflow per answered request |
| `pages` | 2 users on 2 workflows of which 1 is there from the start, 3 clicks, limits 3, 2 and 2 for executions and 1 for workflows, a rollback or a lost answer | one execution per answered click; a list leaves out only what is older than all it shows, and its total fits it; the dashboard's two lists fit each other |
| `queue` | 1 task delivered up to twice, 2 workers that start with the rest or later, 4 moves, 1 change of a worker, 2 polls at once, 1 failure, 4 outages | no delivery listed twice in one answer, nothing after the cleanup, workers and tiles right in the end; what the System page says was true |
| `early_pickup` | 1 worker, no fault | **violated**: the message is picked up before the commit and the execution stays QUEUED |
| `shared_budget` | 2 stages, no fault | **violated**: the retry budget of the task ends before that of the stage; the execution stays RETRYING |
| `stage_redone` | a lost broker connection | **violated**: a succeeded stage is recorded again |
| `missed_outcome` | 1 stage, no fault | **violated**: the last event falls between snapshot and subscription; the page never ends |

The last four each check one statement of the repository that the code does not
keep; `PROJECT.json` "findings" quotes it.

Why the bounds are enough:

- Two runs of one execution are the most that one redelivery makes; a second
  redelivery would repeat the same overlap. The other faults end a run and can
  only shorten it.
- Two stages tell "this stage" from "an earlier one"; retry limits 2 and 3
  separate first, middle and last attempt, and make Celery's budget smaller than
  the sum of the stages' budgets.
- Six drops take the delay past its limit of 2^5 * 500 ms = 16 s.
- Three executions overflow the limit 2 and fill the limit 3; two workflows
  overflow theirs, so that a row of the dashboard loses its name; a begin out of
  commit order needs two.
- One stage of two attempts is enough for the page: it has two rows to tell apart,
  in either order, and the rows of two stages come in the order of the events.
- Four outages take each of PostgreSQL and Redis down and up again during one
  request, and the workers have their moves besides.
- One task delivered twice is enough for the queue monitor: no property relates two
  tasks, and a retry (receive, start, retry, receive) or a lost connection (receive,
  start, disconnect, receive) puts it at two places within the bounds. Four moves
  also take a delivery through all three lists. One change of a worker, with workers
  that are there or not at first, lets one appear or go between two questions, which
  is what the fallback to the second map is for. Two polls overtake each other.
- One unread event (`MaxUnread`) beside the last one and the snapshot makes messages
  older than the rows; more would say "live" again.
- Labels `Load`, `Load 2` and `***` reach every branch of `StageKey`.

**Fairness.** Weak fairness of a started API handler, of each worker while it has
a task, and of delivery to a free worker: the processes run until they return and
the broker delivers while a consumer is idle. Users owe nothing and faults owe
nothing; a crash or a drop may happen within its budget and need not. For the page,
weak fairness of the endpoint's coroutines, of the browser's events and of its
timers; executions need not finish, and nothing is owed by an open socket.

For the queue monitor, weak fairness of the interval while the page is open, of
each request's handler and of its answer; tasks and workers move finitely often
(`MaxMoves`, `MaxChanges`), which is what "in the end" means.

The deadlock check is on for `Orchestration` and `LiveProgress`: rest is an
explicit action (`Quiescent`, `Rest`), so any other state without a successor
would be reported. It is off where a user may leave the page.

**Mutants.** Beside the definitions stand small variants headed "Bug:", such as
an early acknowledgement or a missing unique key. Each property fails for at least
one of them.

## 5. Proofs

`OrchestrationProofs` proves, for any set of executions and workers, any workflow,
any retry limit and any fault budget, including redelivery:

| Theorem | Property |
|---|---|
| `TypeCorrect` | `TypeOK` |
| `StagesAlwaysInOrder` | `StagesInOrder` |
| `SuccessIsComplete` | `SucceededMeansAllStages` |
| `FailureIsEarned` | `FailedOnlyAfterBudget` |
| `AttemptsNeverSkip` | `AttemptsContiguous` |
| `LogsFollowSteps` | `LogsNeverAhead` (proved only) |
| `VerdictsAreFinal` | `VerdictIsFinal` |

From `OrchestrationAssumption` only: the stages are a sequence of records, the
retry limit is positive and within the attempts bound.

The argument. None of these is inductive alone: a run acts on what it read
earlier. The strengthening `SafetyInv` adds `StepInv`, which says what a run may
rely on at each `pc`:

- `RowHeld`: its current row has the status it believes;
- `StagesPassed`: all stages before its current one have a succeeded row;
- `AttemptIsNext`: the number about to be inserted leaves no gap;
- `OneRunPerRow`: no other run works on the same row, which is what the unique
  key buys.

The lever is `RowsOnlyMature`: every step of every process leaves the rows alone
or moves one row from absent to running or from running to a verdict, and only its
own run does the latter. So another run's facts are stable (`StillRun`), and one's
own are checked action by action (`OwnRun`).

### Delivery

`DeliveryProofs` continues it.

| Theorem | Property | Assumes |
|---|---|---|
| `CarryInvariant` | `CarryInv` | nothing more |
| `StrandedOnlyByCause` | `StrandedOnlyByKnownCause` | nothing more |
| `OneMessageAtATime` | `OneMessage` | `SingleDelivery` |
| `SettledRowsAlwaysAgree` | `SettledRowsAgree` | `SingleDelivery` |
| `SucceededNeverRedone` | `SucceededNotRedone` | `SingleDelivery` |
| `LifecycleImplemented` | `ImplementsLifecycle` | `SingleDelivery` |

`SingleDelivery` says that the budget has no crash of a worker and no lost broker
connection, the two faults that deliver a message again. It is a hypothesis
because the code needs it: with one lost connection the run `stage_redone` refutes
`SucceededNotRedone`. Lost children, exceptions, rollbacks and failures of stages
remain, in any number.

*Who carries an execution on.* `Carried` says that an accepted, unfinished execution
has a message, or a run that did not read a terminal status, or an entry in `lost`.
It is not inductive alone: a run that starts an execution which another run settles
meanwhile puts it back to RUNNING, so it must count as a carrier although the row
is terminal (`StartersBelieve`), and only committed rows are worked on
(`CommittedFirst`). With these two, a run stops being a carrier only where it
settles the execution, sends a message, or ends in a named way.

*Nothing delivered twice.* `DeliveryInv` has five parts: the message is in one place
(`MessageAlone`), so its run is alone with the rows; what that run believes of the
status is so (`StatusKnown`); the stage it is about to record has not succeeded
(`StageUndone`); a finished execution has the fields of its verdict and nobody who
would write it (`RowSettled`); a row that says running is being worked on or
belongs to an unfinished execution (`RowsOwned`). `OneMessage` is stated with
cardinalities; finiteness of the sets counted is part of its proof, not assumed.

*The refinement.* Celery's budget is counted in messages, the lifecycle's in failed
rows. `RetriesCount` joins them: the retries header of a message is the number of
failed rows of its execution, plus one in a run that has just recorded a failure. Then
each action maps to a step of one execution or to a stutter: the commit of the trigger
and of the start (`LifeBegins`), a verdict of a stage (`LifeWorks`, where
`StageUndone` and `StagesPassed` give that it is the next one), the status that
follows from it (`LifeJudges`: back off, give up or succeed, where `SafetyInv` gives
the stages or the exhausted attempts).

### The page

`LiveProgressProofs`, for any number of stages, attempts, workers and drops.

| Theorem | Property | Assumes |
|---|---|---|
| `PageOnlyWatches` | `LiveSpec => Spec` of `Orchestration` | |
| `LiveTypeCorrect` | `LiveTypeOK` | |
| `TimelineKeysDiffer` | `OneRowPerAttempt` | |
| `ShownIsCommitted` | `VerdictsShownAreCommitted` | `SingleDelivery` |
| `ShownIsNotTakenBack` | `ViewNeverRegresses` | `SingleDelivery` |
| `OneLineTwiceAtMost` | `OneLineTwice` | `SingleDelivery` |

Every step of `LiveNext` is a step of `Orchestration` or leaves its variables alone,
so all the theorems above hold beside the page, and its proofs rest on them. Then, each
resting on the one before:

- `LiveInv`: every view, snapshot and message on its way has rows of distinct
  attempts. `SortSteps` keeps that because it only rearranges: two rows cannot have
  the same number of rows before them, so each number below the length is taken once.
- `PublishInv`: what a run is about to publish is committed, and the log line it is
  about to write is nobody else's and not yet in the table.
- `TruthInv`: everything in the view, the snapshot and the queue is a committed
  fact of a kind that stays: a terminal status with its fields, a verdict of a row, a
  log line. The first stays by `RowSettled`, the second by `VerdictsAreFinal`, and
  that is all `VerdictsShownAreCommitted` needs.
- `CoverInv`: no message takes back anything of the view, nor of a message before it in
  the queue; and a snapshot, whose reads come after whatever the page has seen of an
  earlier connection, covers the view. Facts that stay make both inductive: a later
  event about the same attempt is the same verdict.
- `LinesInv`: a line is never both about to be published and on its way, no line is
  in the queue twice, and at most one is about to be published when the endpoint
  reads the logs. So of the lines of a snapshot one at most can come again.

### The hook

`ExecutionSocketProofs`, for any number of ids, reruns and drops.

| Theorem | Property |
|---|---|
| `HookTypeCorrect` | `HookTypeOK` |
| `DotNeverLies` | `LiveDotIsTrue` |
| `GoneStaysClosed` | `NothingOpensAfterUnmount` |
| `EndStopsReconnecting` | `TerminalStopsReconnecting` |
| `BackoffGrows` | `RefusalsBackOff` |

`SocketInv` adds to them what the refs mean. `LifeInv`: a component that is gone is
closed for good, which is what a timer left over from an earlier run meets.
`OneLine`: with one run of the effect there is one line, it does not wait once the
end has been shown, and while it is refused its next delay is longer than its last.
What the endpoint and the workers do changes nothing of the hook but what waits in
`inbox` (`OutsideFrame`).

### Form, lists, dashboard and monitoring

| Module | Theorem | Property |
|---|---|---|
| `WorkflowFormProofs` | `KeysMeetOnlyThroughSuffix` | the same for every list of labels, reached or not |
| | `SentKeysMeetOnlyThroughSuffix` | `KeysCollideOnlyThroughSuffix` |
| | `UidsStayDistinct` | `UidsDistinct` |
| | `AnswersBoundWorkflows` | `OneWorkflowPerAnswer` |
| | `FormTypeCorrect` | `FormTypeOK` |
| `ListingsProofs` | `AnswersBoundExecutions` | `OneExecutionPerAnswer` |
| | `NewestAlwaysShown` | `NewestAreShown` |
| | `TotalNeverExceedsShortPage` | `ShortPageIsWhole` |
| | `ListingsTypeCorrect` | `ListingsTypeOK` |
| `DashboardProofs` | `DashboardFits` | `DashboardIsCoherent` |
| | `BoardAnswersBoundExecutions` | `OneExecutionPerAnswer`, with the dashboard beside |
| `MonitoringProofs` | `CountedOnce` | `DeliveriesListedOnce` |
| | `QueueTypeCorrect` | `QueueTypeOK` |
| | `LeftPageIsLeftAlone` | `CleanupIsFinal` |
| | `ReadinessIsWitnessed` | `ReadinessWitnessed` |
| | `ReadinessDisturbsNothing` | `ReadySpec => Spec` of `QueueMonitor` |

*The form.* `KeysMeetOnlyThroughSuffix` rests on `Count` growing strictly along the
occurrences of a base. `DraftInv` has that every uid is below `nextUid`; removing keeps
the uids apart because `Filter` takes each place that stays once (the place of
each is its number among those that stay). `PostInv` adds to the bound of stored
workflows what is still on its way, and that an idle form owes nothing.

*Lists.* `ButtonInv` counts the executions that are neither awaited nor shown: only
a lost answer adds one. `ListInv` follows a request through its two statements:
committed rows stay, so what matched at the begin matches at the end and the count
is not more than there is later. That a list which leaves something out is full
(`PageIsFull`) would be an induction over sets; instead the proof takes the newest row
left out and the oldest one shown, which exist because the naturals are well-founded
(`WFMin` of `WellFoundedInduction`), and counts what is newer than each.

*Dashboard.* The dashboard's rows are executions that were committed when it asked,
whose workflows were committed before they could be triggered, and committed rows
stay: so the list of workflows, whenever it is read, has the workflow or enough
newer ones, and its count is of a set that includes them all. The invariant says
this of every stage of the two requests.

*Monitoring.* `AskedInv` (with `ListsBehind`) says of every list a poll has noted that its
deliveries are where the questions still to come do not look: a delivery moves only
from the lists asked last to those asked first, and then it is gone. So a list noted
later has none of them. A retry or a redelivery of the same task is another delivery,
and may be in another list of the same answer. The invariant for readiness says of each stage which services
have been probed, that a found service was seen up and a missing one down, and that
an unbroken session means a database that has been up since the first probe;
`beside` then has each service found after it.

### Model-checked only

Liveness: `AcceptedSettles`, `SubscribedLearns`, `LateJoinerLearns`,
`PageLearnsOutcome` and `CurrentInTheEnd`. They rest on weak fairness, hence on
ENABLED, of which the prover's backends know nothing. The four violated runs are
counterexamples and need no proof.

## 6. Behaviours worth knowing

Consequences of the code that the models show, beyond the four violated runs:

- A publication that fails (Redis away) ends the task, since only
  `StageExecutionError` is retried; the execution stays as it is. `Exception`.
- A redelivered message of a FAILED execution is run again: `tasks.py:71` only
  skips the write of RUNNING, so the status can leave FAILED, and an execution that
  then succeeds shows its old error beside its result. That a verdict is final is
  therefore claimed, as part of `ImplementsLifecycle`, without redelivery only.
- A run that dies inside a stage leaves its step row RUNNING for ever;
  `SettledRowsAgree` is claimed without redelivery only.
- The snapshot is read by three statements and can carry a QUEUED status with
  later steps.
- A log line committed before the snapshot's read and published after the
  subscription is shown twice, under one React key (`OneLineTwice`).
- The attempts of a stage may come in any order in a snapshot, so the timeline may
  show attempt 2 above attempt 1.
- The endpoint notices that a page has left only when it sends the next event; after
  the last event of an execution its subscription stays.
- `onopen` resets the backoff, and the server accepts before it looks: the page of
  an unknown execution reconnects every 500 ms.
- A page whose connection missed the last event, and stays open, never learns the
  outcome (`PageLearnsOutcome`; the run `missed_outcome` has the same of the protocol).
- With two lines of one execution, an older snapshot of the second may arrive after
  the first has shown the outcome and put "running" over it. If the hook has given up
  reconnecting by then (`closedForGoodRef`), nothing corrects it once that line is gone.
- RUNNING is published before it is committed; when the commit fails, the page has
  shown a status that never was, until the next event or snapshot. Verdicts are
  published after their commit (`VerdictsShownAreCommitted`).
- When the hook turns to another id, a line left over from the first one can show
  the first one's status and end reconnecting (see `PageLearnsOutcome`).
- Nothing rejects two stages with one key, and the task tells stages apart by key
  alone: the second is skipped as done and the execution succeeds, although the
  form says that the steps run in the order shown.
- The hook's effect resets `closedForGoodRef`, so the close event of the socket
  that the cleanup closed takes it for a lost connection and opens a second one
  beside the first; every event is then applied twice. The dot may then say
  "disconnected" while a socket is open (`LiveDotIsTrue`).
- Labels `Load`, `Load`, `Load 2` give two stages the key `load_2`; of the two the
  task runs the first.
- A lost answer to `POST /workflows` and a second submit store two workflows; a
  lost answer to a trigger and a second click run two executions.
- A list may miss an execution committed between its statements, and its total
  then disagrees with its rows; a list with a status filter may miss an execution
  whose status changes meanwhile.
- `/executions` says "All workflow execution runs." and asks for 100; the
  dashboard's tiles "Running" and "Retrying" count the 10 most recent executions.
- The queue monitor's tiles count the workers that answered, not their tasks
  (`Object.keys` of a map by worker): `CurrentInTheEnd` has all four tiles show the
  same number. A task that moves between the questions may be listed nowhere. A task
  that is retried, or whose worker loses its connection, may be listed twice, since
  its next message is delivered while its run is still active. An older answer may
  replace a newer one until the next poll.
- A database that goes down after its probe makes `/health/ready` an error, not
  "degraded" (`CommitAndAnswer`).
- The badges of the System page are always neutral: `toneFor` knows the words
  "ok", "up" and "down", while the backend answers true and false.
- An inactive workflow is executed like any other: nothing reads `is_active`.

## 7. What is not modelled

- Real time: backoff delays, poll intervals, the second that `inspect()` blocks.
- Payloads, durations, timestamps, the wording of log lines.
- Offsets, which no page passes. `GET /executions/{id}` and `GET /health`, which
  no page asks for.
- The summary page and the panel "Active Workflow", which show fixed data; avatars,
  navigation, layout and the formatting of dates; the login form, which validates
  and does nothing. None has state over which steps could be ordered wrongly.
- URLs, bodies and error texts of the API client.
- Seeding, migrations, deployment: one-shot scripts and configuration.
- `job_queue_events`: nothing in the code writes it.
