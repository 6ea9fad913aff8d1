-------------------------- MODULE ExecutionSocket --------------------------
(* The connection logic of the hook useExecutionSocket: its effect, the      *)
(* cleanup of the effect, the handlers of the sockets it made, and the       *)
(* reconnect timers.  The refs of the hook outlive one run of the effect, so *)
(* handlers and timers of an earlier run meet the refs of a later one.       *)
(*                                                                           *)
(* A line is a socket or the timer that will replace it: onclose of a socket *)
(* sets at most one timer, and that timer opens one socket.  At the other end *)
(* is a coroutine of the endpoint, which reads and sends the snapshot, and    *)
(* only then subscribes.                                                     *)
EXTENDS Naturals, Sequences

CONSTANTS
    Ids,         \* executions the hook can be asked for
    Missing,     \* those the server closes with 4404 once it has accepted
    MaxReruns,   \* bound on further runs of the effect of one component
    MaxDrops,    \* bound on connections lost or refused
    MaxUnread    \* bound on the messages a page has not yet read when one more
                 \* is published, but for the last one of an execution

ASSUME ExecutionSocketAssumption ==
    /\ Missing \subseteq Ids
    /\ MaxReruns \in Nat /\ MaxDrops \in Nat /\ MaxUnread \in Nat

VARIABLES
    life,             \* new, mounted, gone
    executionId,      \* the id of the last run of the effect
    closedForGood, reconnectAttempt,   \* refs of the hook
    socketRef, reconnectTimer,         \* refs: the line last opened, last timed
    state, target, delay,              \* of each line
    server, inbox,    \* of each line: how far its endpoint is, what it has sent
    missed,           \* history: the lines that missed the last event
    shown,            \* the status shown, and of which execution
    connectionState,  \* the dot beside it
    ended,            \* the executions that have finished
    reruns, drops

refs     == <<closedForGood, reconnectAttempt, socketRef, reconnectTimer>>
lines    == <<state, target, delay>>
world    == <<ended, reruns, drops>>
endpoint == <<server, inbox, missed>>
screen   == <<shown, connectionState>>
hookVars == <<life, executionId, refs, lines, endpoint, screen, world>>

Lines == 1..(MaxReruns + 1)

\* 500 ms * 2^n reaches MAX_RECONNECT_DELAY_MS at n = 5.
DelayCap == 5

\* Bug: off by one in the limit of the delay.
CappedLate(n) == IF n <= DelayCap + 1 THEN n ELSE DelayCap

Capped(n) == IF n < DelayCap THEN n ELSE DelayCap

Init ==
    /\ life = "new"
    /\ executionId \in Ids
    /\ closedForGood = FALSE
    /\ reconnectAttempt = 0
    /\ socketRef = 0
    /\ reconnectTimer = 0
    /\ state = [l \in Lines |-> "free"]
    /\ target = [l \in Lines |-> executionId]
    /\ delay = [l \in Lines |-> 0]
    /\ server = [l \in Lines |-> "none"]
    /\ inbox = [l \in Lines |-> <<>>]
    /\ missed = {}
    /\ shown = [id |-> executionId, status |-> "none"]
    /\ connectionState = "connecting"
    /\ ended = {}
    /\ reruns = 0
    /\ drops = 0

----------------------------------------------------------------------------
\* The cleanup: close() of a socket that is already closed does nothing, and the
\* close event of the others comes later.
CleanedUp(l) ==
    IF l = reconnectTimer /\ state[l] = "waiting" THEN "free"
    ELSE IF l = socketRef /\ state[l] \in {"connecting", "open"} THEN "closing"
    ELSE state[l]

\* The connection of these lines ends: nothing of what is on its way is dispatched
\* any more.
HangUp(ls) ==
    /\ server' = [l \in Lines |-> IF l \in ls THEN "none" ELSE server[l]]
    /\ inbox' = [l \in Lines |-> IF l \in ls THEN <<>> ELSE inbox[l]]
    /\ missed' = missed \ ls

HangUpCleaned == HangUp({l \in Lines : CleanedUp(l) # state[l]})

\* A run of the effect, after the cleanup of the run before it.
RunEffect(id, l) ==
    /\ closedForGood' = FALSE
    /\ reconnectAttempt' = 0
    /\ executionId' = id
    /\ state[l] = "free"
    /\ state' = [m \in Lines |-> IF m = l THEN "connecting" ELSE CleanedUp(m)]
    /\ target' = [target EXCEPT ![l] = id]
    /\ socketRef' = l
    /\ connectionState' = "connecting"
    /\ HangUpCleaned

Mount ==
    /\ life = "new"
    /\ life' = "mounted"
    /\ RunEffect(executionId, 1)
    /\ UNCHANGED <<reconnectTimer, delay, shown, ended, reruns, drops>>

\* The id changes, or React's strict mode runs the effect again.
Rerun ==
    /\ life = "mounted" /\ reruns < MaxReruns
    /\ reruns' = reruns + 1
    /\ \E id \in Ids, l \in Lines : RunEffect(id, l)
    /\ UNCHANGED <<life, reconnectTimer, delay, shown, ended, drops>>

Unmount ==
    /\ life = "mounted"
    /\ life' = "gone"
    /\ closedForGood' = TRUE
    /\ state' = [l \in Lines |-> CleanedUp(l)]
    /\ HangUpCleaned
    /\ UNCHANGED <<executionId, reconnectAttempt, socketRef, reconnectTimer,
                   target, delay, screen, world>>

\* An unmounted component ignores setState.
SetConnectionState(s) == connectionState' = IF life = "mounted" THEN s ELSE connectionState

\* onopen.  By then the endpoint may be further than its accept.
Open(l) ==
    /\ state[l] = "connecting" /\ server[l] # "none"
    /\ state' = [state EXCEPT ![l] = "open"]
    /\ reconnectAttempt' = 0
    /\ SetConnectionState("open")
    /\ UNCHANGED <<life, executionId, closedForGood, socketRef, reconnectTimer,
                   target, delay, endpoint, shown, world>>

\* onmessage: what a message says may have changed since it was sent.
Receive(l) ==
    /\ state[l] = "open" /\ inbox[l] # <<>>
    /\ life = "mounted"
    /\ inbox' = [inbox EXCEPT ![l] = Tail(@)]
    /\ shown' = [id |-> target[l], status |-> Head(inbox[l])]
    /\ UNCHANGED <<life, executionId, refs, lines, server, missed, connectionState, world>>

----------------------------------------------------------------------------
(* The endpoint of a line, and the workers that publish.  A message is known *)
(* by the status it brings to the page: "live" or "terminal".                *)

\* The lines of an execution whose endpoint is at a stage.
At(id, stage) == {l \in Lines : target[l] = id /\ server[l] = stage}

Accept(l) ==
    /\ state[l] = "connecting" /\ server[l] = "none"
    /\ server' = [server EXCEPT ![l] = "accepted"]
    /\ UNCHANGED <<life, executionId, refs, lines, inbox, missed, screen, world>>

SendSnapshot(l) ==
    /\ target[l] \notin Missing /\ l \in At(target[l], "accepted")
    /\ server' = [server EXCEPT ![l] = "sent"]
    /\ inbox' = [inbox EXCEPT ![l] =
                    Append(@, IF target[l] \in ended THEN "terminal" ELSE "live")]
    /\ UNCHANGED <<life, executionId, refs, lines, missed, screen, world>>

Subscribe(l) ==
    /\ l \in At(target[l], "sent")
    /\ server' = [server EXCEPT ![l] = "subscribed"]
    /\ UNCHANGED <<life, executionId, refs, lines, inbox, missed, screen, world>>

Sent(id, status) ==
    inbox' = [l \in Lines |-> IF l \in At(id, "subscribed") THEN Append(inbox[l], status)
                                                           ELSE inbox[l]]

\* The workers publish something about an execution that goes on.
Progress(id) ==
    /\ id \notin ended
    /\ At(id, "subscribed") # {}
    /\ \A l \in At(id, "subscribed") : Len(inbox[l]) < MaxUnread
    /\ Sent(id, "live")
    /\ UNCHANGED <<life, executionId, refs, lines, server, missed, screen, world>>

\* The workers finish an execution, and publish it unless the worker or Redis fails
\* in between.  Who has read the snapshot and not yet subscribed is not told.
Finish(id) ==
    /\ id \notin ended
    /\ ended' = ended \cup {id}
    /\ \/ /\ Sent(id, "terminal")
          /\ missed' = missed \cup At(id, "sent")
       \/ /\ missed' = missed \cup At(id, "sent") \cup At(id, "subscribed")
          /\ UNCHANGED inbox
    /\ UNCHANGED <<life, executionId, refs, lines, server, screen, reruns, drops>>

----------------------------------------------------------------------------
\* Why a socket closes: close() was called, the server closed it, or it is lost.
Closing(l) ==
    \/ state[l] = "closing" /\ UNCHANGED drops
    \/ state[l] = "open" /\ target[l] \in Missing /\ UNCHANGED drops
    \/ /\ state[l] \in {"connecting", "open"}
       /\ drops < MaxDrops
       /\ drops' = drops + 1

Stops == life = "gone" \/ closedForGood \/ shown.status = "terminal"

\* Bug: the dot is left as it is when there is no reconnecting.
CloseForGoodUnseen(l) ==
    /\ Closing(l) /\ Stops
    /\ HangUp({l})
    /\ closedForGood' = TRUE
    /\ state' = [state EXCEPT ![l] = "free"]
    /\ UNCHANGED <<life, executionId, reconnectAttempt, socketRef, reconnectTimer,
                   target, delay, screen, ended, reruns>>

\* onclose, and onerror before it.
CloseForGood(l) ==
    /\ Closing(l) /\ Stops
    /\ HangUp({l})
    /\ closedForGood' = TRUE
    /\ state' = [state EXCEPT ![l] = "free"]
    /\ SetConnectionState("closed")
    /\ UNCHANGED <<life, executionId, reconnectAttempt, socketRef, reconnectTimer,
                   target, delay, shown, ended, reruns>>

\* Bug: the status shown does not matter.
CloseAndRetryAlways(l) ==
    /\ Closing(l) /\ ~closedForGood /\ life # "gone"
    /\ HangUp({l})
    /\ state' = [state EXCEPT ![l] = "waiting"]
    /\ delay' = [delay EXCEPT ![l] = Capped(reconnectAttempt)]
    /\ reconnectAttempt' = Capped(reconnectAttempt + 1)
    /\ reconnectTimer' = l
    /\ SetConnectionState("closed")
    /\ UNCHANGED <<life, executionId, closedForGood, socketRef, target, shown,
                   ended, reruns>>

\* Bug: the hook gives up when a reconnection is refused.
CloseAndRetryOnce(l) ==
    /\ Closing(l) /\ ~Stops
    /\ HangUp({l})
    /\ state' = [state EXCEPT ![l] = IF reconnectAttempt = 0 THEN "waiting" ELSE "free"]
    /\ delay' = [delay EXCEPT ![l] = Capped(reconnectAttempt)]
    /\ reconnectAttempt' = Capped(reconnectAttempt + 1)
    /\ reconnectTimer' = l
    /\ SetConnectionState("closed")
    /\ UNCHANGED <<life, executionId, closedForGood, socketRef, target, shown,
                   ended, reruns>>

\* Bug: a connection that is refused resets the backoff.
CloseAndRetryAfresh(l) ==
    /\ Closing(l) /\ ~Stops
    /\ HangUp({l})
    /\ state' = [state EXCEPT ![l] = "waiting"]
    /\ delay' = [delay EXCEPT ![l] = Capped(reconnectAttempt)]
    /\ reconnectAttempt' = 0
    /\ reconnectTimer' = l
    /\ SetConnectionState("closed")
    /\ UNCHANGED <<life, executionId, closedForGood, socketRef, target, shown,
                   ended, reruns>>

CloseAndRetry(l) ==
    /\ Closing(l) /\ ~Stops
    /\ HangUp({l})
    /\ state' = [state EXCEPT ![l] = "waiting"]
    /\ delay' = [delay EXCEPT ![l] = Capped(reconnectAttempt)]
    /\ reconnectAttempt' = Capped(reconnectAttempt + 1)
    /\ reconnectTimer' = l
    /\ SetConnectionState("closed")
    /\ UNCHANGED <<life, executionId, closedForGood, socketRef, target, shown,
                   ended, reruns>>

\* Bug: connect does not look at closedForGoodRef.
TimerFiresAnyway(l) ==
    /\ state[l] = "waiting"
    /\ state' = [state EXCEPT ![l] = "connecting"]
    /\ socketRef' = l
    /\ SetConnectionState("connecting")
    /\ UNCHANGED <<life, executionId, closedForGood, reconnectAttempt,
                   reconnectTimer, target, delay, endpoint, shown, world>>

\* The timer calls connect, for the id of the run that set it.
TimerFires(l) ==
    /\ state[l] = "waiting"
    /\ IF closedForGood
       THEN /\ state' = [state EXCEPT ![l] = "free"]
            /\ UNCHANGED <<socketRef, connectionState>>
       ELSE /\ state' = [state EXCEPT ![l] = "connecting"]
            /\ socketRef' = l
            /\ SetConnectionState("connecting")
    /\ UNCHANGED <<life, executionId, closedForGood, reconnectAttempt,
                   reconnectTimer, target, delay, endpoint, shown, world>>

Handler(l) ==
    Open(l) \/ Receive(l) \/ CloseForGood(l) \/ CloseAndRetry(l) \/ TimerFires(l)

Outside ==
    \/ \E l \in Lines : Accept(l) \/ SendSnapshot(l) \/ Subscribe(l)
    \/ \E id \in Ids \ Missing : Progress(id) \/ Finish(id)

Next == Mount \/ Rerun \/ Unmount \/ Outside \/ \E l \in Lines : Handler(l)

Spec == Init /\ [][Next]_hookVars

\* The browser runs timers and delivers the events of its sockets, and the server
\* runs the coroutine of each; executions need not finish.
FairSpec ==
    /\ Spec
    /\ \A l \in Lines :
          /\ WF_hookVars(Open(l)) /\ WF_hookVars(Receive(l)) /\ WF_hookVars(TimerFires(l))
          /\ WF_hookVars(state[l] = "closing" /\ (CloseForGood(l) \/ CloseAndRetry(l)))
          /\ WF_hookVars(Accept(l)) /\ WF_hookVars(SendSnapshot(l)) /\ WF_hookVars(Subscribe(l))

----------------------------------------------------------------------------
(* Properties.                                                               *)

\* Every variable stays in its range; the delay stays within its limit.
HookTypeOK ==
    /\ life \in {"new", "mounted", "gone"}
    /\ executionId \in Ids
    /\ closedForGood \in BOOLEAN
    /\ reconnectAttempt \in 0..DelayCap
    /\ socketRef \in 0..(MaxReruns + 1) /\ reconnectTimer \in 0..(MaxReruns + 1)
    /\ state \in [Lines -> {"free", "connecting", "open", "closing", "waiting"}]
    /\ target \in [Lines -> Ids]
    /\ delay \in [Lines -> 0..DelayCap]
    /\ server \in [Lines -> {"none", "accepted", "sent", "subscribed"}]
    /\ inbox \in [Lines -> Seq({"live", "terminal"})]
    /\ missed \subseteq Lines
    /\ shown \in [id : Ids, status : {"none", "live", "terminal"}]
    /\ connectionState \in {"connecting", "open", "closed"}
    /\ ended \subseteq Ids

\* Once the component is gone no timer opens a socket again, not even one that an
\* earlier run of the effect left behind and the cleanup did not clear.
NothingOpensAfterUnmount ==
    [][life = "gone" => \A l \in Lines :
          state'[l] = "connecting" => state[l] = "connecting"]_hookVars

\* A component whose effect ran once does not connect again after it has shown
\* that the execution is finished.
TerminalStopsReconnecting ==
    [][reruns' = 0 /\ shown.status = "terminal" => \A l \in Lines :
          state'[l] = "connecting" => state[l] = "connecting"]_hookVars

\* Each refusal in a row makes the hook wait longer than the one before, up to the
\* limit.  Only a connection that opens starts the delays afresh, even one that
\* brings nothing, and so does a run of the effect.
RefusalsBackOff ==
    [][\A l \in Lines :
          (reruns = 0 /\ reconnectTimer = l
           /\ state[l] = "connecting" /\ state'[l] = "waiting")
          => (delay'[l] > delay[l] \/ delay'[l] = DelayCap)]_hookVars

\* The dot of a page says "live" only while a socket is open.  With one run of
\* the effect it says so whenever one is; after another run the close event of
\* the socket before it may say "disconnected" beside an open one.
LiveDotIsTrue ==
    life = "mounted" =>
        /\ connectionState = "open" => \E l \in Lines : state[l] = "open"
        /\ reruns = 0 /\ (\E l \in Lines : state[l] = "open") => connectionState = "open"

\* While the hook has not given up reconnecting, the page of a finished execution
\* comes to show that it is finished, across lost connections and the second run
\* of the effect in strict mode, unless it stays for ever on an open socket that
\* missed the last event: it came between snapshot and subscription, or was never
\* published.  This is about a page that has turned to one execution only: a line of
\* another one would go on to show that one's status, and the status it has left on
\* the page would end the reconnecting of this one.  A hook that has given up has
\* shown the outcome, but a second line can still put an older status over it.
PageLearnsOutcome ==
    \A id \in Ids \ Missing :
        (/\ life = "mounted" /\ executionId = id /\ id \in ended
         /\ shown.id = id /\ \A l \in Lines : target[l] = id
         /\ ~closedForGood)
            ~> \/ life = "gone"
               \/ executionId # id
               \/ shown = [id |-> id, status |-> "terminal"]
               \/ [](\E l \in missed : state[l] = "open")
=============================================================================
