---------------------------- MODULE LiveProgress ----------------------------
(* Live progress of one execution in one browser: the events the workers     *)
(* publish on the execution's Redis channel, the WebSocket endpoint that     *)
(* sends a snapshot and then subscribes, and the reducer and reconnection of *)
(* useExecutionSocket.                                                       *)
(*                                                                           *)
(* A Redis channel keeps nothing: an event reaches the browser only when the *)
(* endpoint is subscribed while it is published.  Redis, the endpoint and    *)
(* the WebSocket each keep the order, so one queue stands for all three.     *)
EXTENDS Orchestration, SequencesExt

CONSTANTS
    Watched,    \* the execution on the page
    MaxDrops    \* bound on lost connections

ASSUME LiveProgressAssumption ==
    Watched \in Executions /\ MaxDrops \in Nat /\ None \notin Keys

VARIABLES
    endpoint,   \* how far execution_progress has come
    snapshot,   \* what its three SELECTs have read so far
    inbox,      \* messages on their way to the browser
    socket,     \* the browser's socket
    view,       \* what useExecutionSocket shows
    drops       \* lost connections left

liveVars == <<endpoint, snapshot, inbox, socket, view, drops>>
allVars  == <<vars, liveVars>>

StepRows == [key : Keys, attempt : Attempts, status : StepStatuses \ {"absent"}]

\* The step rows committed for the watched execution.
CommittedSteps == {r \in StepRows : steps[Watched][r.key][r.attempt] = r.status}

\* The stages before the first with this key.
StageOrder(k) == Cardinality({i \in DOMAIN Stages : \A j \in 1..i : Key(j) # k})

\* Array.sort by stage_order, which keeps the order of equals.
Before(rows, i) ==
    {j \in DOMAIN rows : \/ StageOrder(rows[j].key) < StageOrder(rows[i].key)
                        \/ (StageOrder(rows[j].key) = StageOrder(rows[i].key) /\ j < i)}

SortSteps(rows) ==
    [n \in DOMAIN rows |-> rows[CHOOSE i \in DOMAIN rows : Cardinality(Before(rows, i)) = n - 1]]

\* Bug: findIndex finds nothing, so every update is a new row.
MergeAppends(rows, row) == SortSteps(Append(rows, row))

\* mergeSteps
MergeSteps(rows, row) ==
    LET same == {i \in DOMAIN rows : rows[i].key = row.key /\ rows[i].attempt = row.attempt}
    IN  SortSteps(IF same = {} THEN Append(rows, row)
                               ELSE [rows EXCEPT ![CHOOSE i \in same : \A j \in same : i <= j] = row])

\* Log rows by identity; those of the execution itself have no step.
StepLogs == [key : Keys, attempt : Attempts, line : StepLines]
ExecLogs == [key : {None}, attempt : {0}, line : ExecLines]
LogRows  == StepLogs \cup ExecLogs

\* The log rows committed for the watched execution.
CommittedLogs ==
    {l \in LogRows : IF l.key = None
                     THEN l.line \in execLog[Watched]
                     ELSE l.line \in logs[Watched][l.key][l.attempt]}

\* `again` has the log lines that are there a second time.
Blank == [status |-> "none", result |-> FALSE, error |-> FALSE,
          steps |-> <<>>, logs |-> {}, again |-> {}]

LiveInit ==
    /\ Init
    /\ endpoint = "none"
    /\ snapshot = Blank
    /\ inbox = <<>>
    /\ socket = "connecting"
    /\ view = Blank
    /\ drops = MaxDrops

----------------------------------------------------------------------------
(* Redis: what a run publishes, and who hears it.                            *)

\* The row as the session has refreshed it; result and error are written by no
\* other run meanwhile, as long as no message is delivered twice.
StatusEvent(w) ==
    [type |-> "execution_update", status |-> seen[w],
     result |-> exec[job[w]].result, error |-> exec[job[w]].error]

StepEvent(w, s) ==
    [type |-> "step_update",
     step |-> [key |-> Key(stage[w]), attempt |-> attempt[w], status |-> s]]

StepLogEvent(w, line) ==
    [type |-> "log", log |-> [key |-> Key(stage[w]), attempt |-> attempt[w], line |-> line]]

ExecLogEvent(line) ==
    [type |-> "log", log |-> [key |-> None, attempt |-> 0, line |-> line]]

\* The event a run publishes where it stands.
EventOf(w) ==
    CASE pc[w] \in {"pubRunning", "pubRetrying", "pubGaveUp", "pubDone"} -> StatusEvent(w)
      [] pc[w] = "pubStarted"      -> ExecLogEvent("started")
      [] pc[w] = "pubLogDone"      -> ExecLogEvent("completed")
      [] pc[w] = "pubStep"         -> StepEvent(w, "running")
      [] pc[w] = "pubFailed"       -> StepEvent(w, "failed")
      [] pc[w] = "pubSucceeded"    -> StepEvent(w, "succeeded")
      [] pc[w] = "pubLogStarted"   -> StepLogEvent(w, "started")
      [] pc[w] = "pubLogFailed"    -> StepLogEvent(w, "failed")
      [] pc[w] = "pubLogCompleted" -> StepLogEvent(w, "completed")

\* Bug: the endpoint forwards events as soon as it is accepted, while it still
\* reads the snapshot.
ForwardsEarly == endpoint # "none"

Forwards == endpoint = "subscribed"

\* publish_event: fire and forget to whoever is subscribed now.
PublishEvent(w) ==
    /\ Publish(w)
    /\ inbox' = IF Forwards /\ job[w] = Watched THEN Append(inbox, EventOf(w)) ELSE inbox
    /\ UNCHANGED <<endpoint, snapshot, socket, view, drops>>

\* Every other step of the orchestration is silent.
WorksSilently(w) ==
    \/ Load(w) \/ BeginRun(w) \/ CommitStart(w)
    \/ CheckStage(w) \/ NextAttempt(w) \/ CreateStep(w) \/ LogLine(w) \/ RunStage(w)
    \/ MarkRetrying(w) \/ MarkFailed(w) \/ MarkSucceeded(w) \/ LogCompleted(w)
    \/ AutoRetry(w) \/ Ack(w)

SilentStep ==
    /\ \/ \E e \in Executions : CreateExecution(e) \/ ApiStep(e) \/ AbortTrigger(e)
       \/ \E w \in Workers, e \in Executions : Deliver(w, e)
       \/ \E w \in Workers : WorksSilently(w) \/ Fault(w)
    /\ UNCHANGED liveVars

----------------------------------------------------------------------------
(* The endpoint execution_progress.                                          *)

\* The page is opened, or the reconnect timer fires: websocket.accept.
Connect ==
    /\ socket = "connecting" /\ endpoint = "none"
    /\ socket' = "open"
    /\ endpoint' = "accepted"
    /\ UNCHANGED <<vars, snapshot, inbox, view, drops>>

\* Bug: the hook reconnects only when it has a status to bring up to date.
ClosedGivesUp ==
    /\ endpoint' = "none"
    /\ snapshot' = Blank
    /\ inbox' = <<>>
    /\ socket' = IF view.status \in Terminal \cup {"none"} THEN "done" ELSE "connecting"

\* Bug: messages of the old connection are still handled.
ClosedKeepsInbox ==
    /\ endpoint' = "none"
    /\ snapshot' = Blank
    /\ inbox' = inbox
    /\ socket' = IF view.status \in Terminal THEN "done" ELSE "connecting"

\* onclose of the hook: reconnect unless the status shown is terminal.
Closed ==
    /\ endpoint' = "none"
    /\ snapshot' = Blank
    /\ inbox' = <<>>
    /\ socket' = IF view.status \in Terminal THEN "done" ELSE "connecting"

\* get_execution_detail reads the execution row, then the steps, then the logs,
\* in three statements that each see what is committed at their time.
ReadExecution ==
    /\ endpoint = "accepted"
    /\ IF Committed(Watched)
       THEN /\ endpoint' = "readSteps"
            /\ snapshot' = [snapshot EXCEPT !.status = exec[Watched].status,
                                           !.result = exec[Watched].result,
                                           !.error  = exec[Watched].error]
            /\ UNCHANGED <<inbox, socket>>
       ELSE Closed                                     \* close code 4404
    /\ UNCHANGED <<vars, view, drops>>

\* The relationship is ordered by stage_order alone: the attempts of a stage come
\* in any order.
ReadSteps ==
    /\ endpoint = "readSteps"
    /\ endpoint' = "readLogs"
    /\ \E rows \in SetToSeqs(CommittedSteps) :
          /\ rows = SortSteps(rows)
          /\ snapshot' = [snapshot EXCEPT !.steps = rows]
    /\ UNCHANGED <<vars, inbox, socket, view, drops>>

\* The last SELECT, and the snapshot is sent.
SendSnapshot ==
    /\ endpoint = "readLogs"
    /\ endpoint' = "sent"
    /\ inbox' = Append(inbox, [type |-> "snapshot",
                               execution |-> [snapshot EXCEPT !.logs = CommittedLogs]])
    /\ snapshot' = Blank
    /\ UNCHANGED <<vars, socket, view, drops>>

\* subscribe: from here on events are forwarded.
Subscribe ==
    /\ endpoint = "sent"
    /\ endpoint' = "subscribed"
    /\ UNCHANGED <<vars, snapshot, inbox, socket, view, drops>>

\* The connection is lost, with everything on its way.
Drop ==
    /\ socket = "open" /\ drops > 0
    /\ drops' = drops - 1
    /\ Closed
    /\ UNCHANGED <<vars, view>>

----------------------------------------------------------------------------
(* The reducer applyMessage.                                                 *)

\* A new line goes behind the others, whether or not it is there already.
AddLine(v, line) == [v EXCEPT !.logs = @ \cup {line}, !.again = @ \cup (v.logs \cap {line})]

\* Bug: the status is taken from snapshots only.
ApplyKeepsStatus(v, m) ==
    CASE m.type = "snapshot"         -> [m.execution EXCEPT !.steps = SortSteps(@)]
      [] m.type = "execution_update" -> v
      [] m.type = "step_update"      -> [v EXCEPT !.steps = MergeSteps(@, m.step)]
      [] m.type = "log"              -> AddLine(v, m.log)

\* Bug: the log lines of a snapshot are added to those there are.
ApplyKeepsLogs(v, m) ==
    CASE m.type = "snapshot"         ->
            [m.execution EXCEPT !.logs = @ \cup v.logs, !.again = v.logs \cap m.execution.logs]
      [] m.type = "execution_update" ->
            [v EXCEPT !.status = m.status, !.result = m.result, !.error = m.error]
      [] m.type = "step_update"      -> [v EXCEPT !.steps = MergeSteps(@, m.step)]
      [] m.type = "log"              -> AddLine(v, m.log)

Apply(v, m) ==
    CASE m.type = "snapshot"         -> [m.execution EXCEPT !.steps = SortSteps(@)]
      [] m.type = "execution_update" ->
            [v EXCEPT !.status = m.status, !.result = m.result, !.error = m.error]
      [] m.type = "step_update"      -> [v EXCEPT !.steps = MergeSteps(@, m.step)]
      [] m.type = "log"              -> AddLine(v, m.log)

Receive ==
    /\ socket = "open" /\ inbox # <<>>
    /\ view' = Apply(view, Head(inbox))
    /\ inbox' = Tail(inbox)
    /\ UNCHANGED <<vars, endpoint, snapshot, socket, drops>>

----------------------------------------------------------------------------
(* What ExecutionDetailView makes of the state of the hook.                  *)

\* The keys React tells the rows of StageTimeline by.
TimelineKeys == [i \in DOMAIN view.steps |-> <<view.steps[i].key, view.steps[i].attempt>>]

\* LogPanel tells its lines by log.id: the lines that share one.
RepeatedLines == view.again

\* The card "Result"; {} stands for "No result payload."
ResultCard ==
    IF view.status \in Terminal
    THEN {part \in {"error", "result"} : view[part]}
    ELSE {"hidden"}

----------------------------------------------------------------------------
EndpointStep == ReadExecution \/ ReadSteps \/ SendSnapshot \/ Subscribe

\* Everything has ended: the workers and the API rest and the browser has
\* nothing left to show.
Rest ==
    /\ Quiescent
    /\ inbox = <<>>
    /\ endpoint \in {"none", "subscribed"}
    /\ UNCHANGED liveVars

LiveNext ==
    \/ SilentStep
    \/ \E w \in Workers : PublishEvent(w)
    \/ Connect \/ EndpointStep \/ Drop \/ Receive
    \/ Rest

LiveSpec == LiveInit /\ [][LiveNext]_allVars

\* As in the orchestration; the endpoint and the browser keep running.
LiveFairness ==
    /\ \A e \in Executions : WF_allVars(ApiStep(e) /\ UNCHANGED liveVars)
    /\ \A e \in Executions :
          WF_allVars((\E w \in Workers : Deliver(w, e)) /\ UNCHANGED liveVars)
    /\ \A w \in Workers :
          WF_allVars(PublishEvent(w) \/ (WorksSilently(w) /\ UNCHANGED liveVars))
    /\ WF_allVars(Connect \/ EndpointStep) /\ WF_allVars(Receive)

FairLiveSpec == LiveSpec /\ LiveFairness

----------------------------------------------------------------------------
(* Properties, as long as no message is delivered twice.                     *)

\* Every variable stays in its range, and nothing is on its way to a browser
\* whose connection the endpoint no longer serves.
LiveTypeOK ==
    /\ endpoint \in {"none", "accepted", "readSteps", "readLogs", "sent", "subscribed"}
    /\ socket \in {"connecting", "open", "done"}
    /\ view.status \in ExecStatuses /\ view.result \in BOOLEAN /\ view.error \in BOOLEAN
    /\ view.steps \in Seq(StepRows)
    /\ view.logs \subseteq LogRows /\ view.again \subseteq view.logs
    /\ drops \in 0..MaxDrops
    /\ \A i \in DOMAIN inbox :
          inbox[i].type \in {"snapshot", "execution_update", "step_update", "log"}
    /\ socket # "open" => endpoint = "none" /\ inbox = <<>>

\* The page never shows a verdict, or a log line about a step, that is not
\* committed: the worker publishes after its commit, and no message overtakes
\* another.  With the verdict of an execution comes what belongs to it: the
\* result of one that succeeded, the error of one that failed, never both and
\* never "No result payload."
VerdictsShownAreCommitted ==
    /\ view.status \in Terminal => exec[Watched].status = view.status
    /\ view.status = "succeeded" => ResultCard = {"result"}
    /\ view.status = "failed" => ResultCard = {"error"}
    /\ \A i \in DOMAIN view.steps :
          view.steps[i].status \in {"succeeded", "failed"} => view.steps[i] \in CommittedSteps
    /\ view.logs \cap StepLogs \subseteq CommittedLogs

\* The timeline never has two rows for one attempt, although a step may come with
\* the snapshot and again as an older event.
OneRowPerAttempt == IsInjective(TimelineKeys)

\* A page shows one log line twice at most, the one that was committed before the
\* snapshot and published after the subscription, however often it reconnects.
OneLineTwice == Cardinality(RepeatedLines) <= 1

\* What the page shows never goes back: not by an event that is older than the
\* snapshot, nor by the snapshot of a new connection that is older than the
\* events seen before.
ViewNeverRegresses ==
    [][/\ view.status \in Terminal => view'.status = view.status
       /\ \A i \in DOMAIN view.steps : \E j \in DOMAIN view'.steps :
             /\ TimelineKeys'[j] = TimelineKeys[i]
             /\ view.steps[i].status \in {"succeeded", "failed"} =>
                   view'.steps[j] = view.steps[i]]_allVars

\* A page that is subscribed before the execution finishes shows the outcome,
\* unless it loses the connection or the execution is lost.
SubscribedLearns ==
    endpoint = "subscribed" /\ Committed(Watched) /\ ~Settled(Watched)
        ~> (view.status \in Terminal \/ endpoint # "subscribed" \/ lost[Watched] # {})

\* A page that connects after the execution has finished shows the outcome,
\* however often the connection is lost before it does.
LateJoinerLearns ==
    Settled(Watched) /\ socket = "connecting" ~> view.status \in Terminal

----------------------------------------------------------------------------
(* A statement of the repository that the code does not keep.                *)

\* README: a joining client gets a correct snapshot and deltas from then on, so
\* an open page comes to show that the execution has finished.
OutcomeReachesPage ==
    Settled(Watched) /\ socket = "open" ~> view.status \in Terminal
=============================================================================
