----------------------- MODULE ExecutionSocketProofs -----------------------
(* Theorems about ExecutionSocket, for any number of runs of the effect, of  *)
(* lost connections and of executions.                                       *)
EXTENDS ExecutionSocket, TLAPS

LEMMA LinesType ==
    /\ MaxReruns \in Nat
    /\ Lines = 1..(MaxReruns + 1)
    /\ 1 \in Lines
  BY ExecutionSocketAssumption DEF ExecutionSocketAssumption, Lines

LEMMA CappedType ==
  ASSUME NEW n \in Nat
  PROVE  Capped(n) \in 0..DelayCap
  BY DEF Capped, DelayCap

\* The next delay is longer than this one, unless that is the limit.
LEMMA CappedGrows ==
  ASSUME NEW n \in 0..DelayCap
  PROVE  Capped(n) = n /\ (Capped(n + 1) > Capped(n) \/ Capped(n) = DelayCap)
  BY DEF Capped, DelayCap

----------------------------------------------------------------------------
(* What makes the properties inductive.                                      *)

LineStates == {"free", "connecting", "open", "closing", "waiting"}

\* A component that is gone has closed for good, one that is new has no line
\* and no timer.
LifeInv ==
    /\ reruns \in Nat
    /\ life = "gone" => closedForGood
    /\ life = "new" =>
          /\ shown.status = "none" /\ reconnectTimer = 0
          /\ \A l \in Lines : state[l] = "free"

\* One run of the effect has one line; it does not wait once the end is shown,
\* and while it is refused the next delay is longer.
OneLine ==
    reruns = 0 =>
        /\ \A l \in Lines : l # 1 => state[l] = "free"
        /\ shown.status = "terminal" => state[1] # "waiting"
        /\ reconnectTimer = 1 /\ state[1] \in {"connecting", "waiting"} =>
              reconnectAttempt > delay[1] \/ reconnectAttempt = DelayCap

SocketInv == HookTypeOK /\ LifeInv /\ OneLine /\ LiveDotIsTrue

----------------------------------------------------------------------------
(* The steps, as what they do to the lines.                                  *)

\* A handler moves its own line.
LEMMA HandlerFrame ==
  ASSUME HookTypeOK, NEW l \in Lines, Handler(l)
  PROVE  /\ \A m \in Lines : m # l => state'[m] = state[m] /\ delay'[m] = delay[m]
         /\ state' \in [Lines -> LineStates]
         /\ delay' \in [Lines -> 0..DelayCap]
         /\ UNCHANGED <<life, executionId, target, reruns>>
  <1> USE DEF HookTypeOK, LineStates
  <1>1. CASE Open(l) \/ Receive(l) \/ CloseForGood(l) \/ TimerFires(l)
    BY <1>1 DEF Open, Receive, CloseForGood, TimerFires, lines, world, refs
  <1>2. CASE CloseAndRetry(l)
    <2>1. Capped(reconnectAttempt) \in 0..DelayCap
      BY CappedType
    <2> QED
      BY <1>2, <2>1 DEF CloseAndRetry
  <1> QED
    BY <1>1, <1>2 DEF Handler

\* The endpoints and the workers leave the hook alone.
LEMMA OutsideFrame ==
  ASSUME Outside
  PROVE  UNCHANGED <<life, executionId, refs, lines, screen, reruns, drops>>
  BY DEF Outside, Accept, SendSnapshot, Subscribe, Progress, Finish, world

EndpointOK ==
    /\ server \in [Lines -> {"none", "accepted", "sent", "subscribed"}]
    /\ inbox \in [Lines -> Seq({"live", "terminal"})]
    /\ missed \subseteq Lines
    /\ ended \subseteq Ids

\* What comes into an inbox, and what goes out of it, are messages.
LEMMA EndpointStep == HookTypeOK /\ [Next]_hookVars => EndpointOK'
  <1> SUFFICES ASSUME HookTypeOK, [Next]_hookVars PROVE EndpointOK'
    OBVIOUS
  <1> DEFINE Messages == {"live", "terminal"}
  <1> USE DEF EndpointOK, HookTypeOK
  <1>1. ASSUME NEW ls \in SUBSET Lines, HangUp(ls), UNCHANGED ended PROVE EndpointOK'
    <2>1. <<>> \in Seq(Messages)
      OBVIOUS
    <2> QED
      BY <1>1, <2>1 DEF HangUp
  <1>2. ASSUME UNCHANGED <<endpoint, ended>> PROVE EndpointOK'
    BY <1>2 DEF endpoint
  <1>3. ASSUME NEW l \in Lines, Handler(l) PROVE EndpointOK'
    <2>1. CASE Receive(l)
      <3>1. Tail(inbox[l]) \in Seq(Messages)
        BY <2>1 DEF Receive
      <3> QED
        BY <2>1, <3>1 DEF Receive, world
    <2>2. CASE Open(l) \/ TimerFires(l)
      BY <1>2, <2>2 DEF Open, TimerFires, world
    <2>3. CASE CloseForGood(l) \/ CloseAndRetry(l)
      <3>1. HangUp({l}) /\ UNCHANGED ended /\ {l} \in SUBSET Lines
        BY <2>3 DEF CloseForGood, CloseAndRetry
      <3> QED
        BY <1>1, <3>1
    <2> QED
      BY <1>3, <2>1, <2>2, <2>3 DEF Handler
  <1>4. ASSUME NEW l \in Lines, NEW m \in Messages PROVE Append(inbox[l], m) \in Seq(Messages)
    OBVIOUS
  <1>5. ASSUME NEW id \in Ids, NEW m \in Messages, Sent(id, m)
        PROVE  inbox' \in [Lines -> Seq(Messages)]
    BY <1>4, <1>5 DEF Sent
  <1>6. CASE Outside
    <2>1. CASE \E l \in Lines : Accept(l) \/ Subscribe(l)
      BY <2>1 DEF Accept, Subscribe, world
    <2>2. ASSUME NEW l \in Lines, SendSnapshot(l) PROVE EndpointOK'
      <3>1. inbox' \in [Lines -> Seq(Messages)]
        BY <1>4, <2>2 DEF SendSnapshot
      <3> QED
        BY <2>2, <3>1 DEF SendSnapshot, world
    <2>3. ASSUME NEW id \in Ids, Progress(id) PROVE EndpointOK'
      BY <1>5, <2>3 DEF Progress, world
    <2>4. ASSUME NEW id \in Ids, Finish(id) PROVE EndpointOK'
      BY <1>5, <2>4 DEF Finish, At
    <2> QED
      BY <1>6, <2>1, <2>2, <2>3, <2>4 DEF Outside
  <1>7. CASE Mount \/ Rerun \/ Unmount
    <2>1. HangUpCleaned /\ UNCHANGED ended
      BY <1>7 DEF Mount, Rerun, Unmount, RunEffect, world
    <2>2. {l \in Lines : CleanedUp(l) # state[l]} \in SUBSET Lines
      OBVIOUS
    <2> QED
      BY <1>1, <2>1, <2>2 DEF HangUpCleaned
  <1> QED
    BY <1>2, <1>3, <1>6, <1>7 DEF Next, hookVars, world

LEMMA CleanedUpType ==
  ASSUME HookTypeOK, NEW l \in Lines
  PROVE  /\ CleanedUp(l) \in LineStates
         /\ CleanedUp(l) \in {"connecting", "waiting", "open"} => CleanedUp(l) = state[l]
         /\ state[l] = "free" => CleanedUp(l) = "free"
  BY DEF CleanedUp, HookTypeOK, LineStates

LEMMA HookTypeStep == HookTypeOK /\ [Next]_hookVars => HookTypeOK'
  <1> SUFFICES ASSUME HookTypeOK, [Next]_hookVars PROVE HookTypeOK'
    OBVIOUS
  <1>0. EndpointOK'
    BY EndpointStep
  <1> USE <1>0, LinesType DEF HookTypeOK, EndpointOK
  <1>1. ASSUME NEW id \in Ids, NEW l \in Lines, RunEffect(id, l),
               life' \in {"new", "mounted", "gone"},
               UNCHANGED <<reconnectTimer, delay, shown, ended>>
        PROVE  HookTypeOK'
    <2>1. state' \in [Lines -> LineStates]
      BY <1>1, CleanedUpType DEF RunEffect, LineStates
    <2>2. closedForGood' \in BOOLEAN
      BY <1>1 DEF RunEffect
    <2>3. socketRef' \in 0..(MaxReruns + 1) /\ reconnectAttempt' \in 0..DelayCap
      BY <1>1 DEF RunEffect, DelayCap
    <2>4. executionId' \in Ids /\ target' \in [Lines -> Ids] /\ connectionState' = "connecting"
      BY <1>1 DEF RunEffect
    <2> QED
      BY <1>1, <2>1, <2>2, <2>3, <2>4 DEF LineStates
  <1>2. CASE Unmount
    <2>1. state' \in [Lines -> LineStates]
      BY <1>2, CleanedUpType DEF Unmount
    <2> QED
      BY <1>2, <2>1 DEF Unmount, screen, world, LineStates
  <1>3. ASSUME NEW l \in Lines, Handler(l) PROVE HookTypeOK'
    <2>1. /\ state' \in [Lines -> LineStates] /\ delay' \in [Lines -> 0..DelayCap]
          /\ UNCHANGED <<life, executionId, target>>
      BY <1>3, HandlerFrame
    <2>2. reconnectAttempt' \in 0..DelayCap
      <3>1. Capped(reconnectAttempt + 1) \in 0..DelayCap
        BY CappedType DEF DelayCap
      <3> QED
        <4>1. reconnectAttempt' \in {reconnectAttempt, 0, Capped(reconnectAttempt + 1)}
          BY <1>3
             DEF Handler, Open, Receive, CloseForGood, CloseAndRetry, TimerFires, refs
        <4> QED
          BY <3>1, <4>1 DEF DelayCap
    <2>3. shown' \in [id : Ids, status : {"none", "live", "terminal"}]
      BY <1>3 DEF Handler, Open, Receive, CloseForGood, CloseAndRetry, TimerFires
    <2>4. socketRef' \in {socketRef, l} /\ reconnectTimer' \in {reconnectTimer, l}
      BY <1>3 DEF Handler, Open, Receive, CloseForGood, CloseAndRetry, TimerFires, refs
    <2>6. closedForGood' = closedForGood \/ closedForGood' = TRUE
      BY <1>3 DEF Handler, Open, Receive, CloseForGood, CloseAndRetry, TimerFires, refs
    <2>7. closedForGood' \in BOOLEAN
      BY <2>6
    <2>8. socketRef' \in 0..(MaxReruns + 1) /\ reconnectTimer' \in 0..(MaxReruns + 1)
      BY <2>4
    <2>5. connectionState' \in {"connecting", "open", "closed"}
      BY <1>3 DEF Handler, Open, Receive, CloseForGood, CloseAndRetry, TimerFires,
                  SetConnectionState, world
    <2> QED
      BY <2>1, <2>2, <2>3, <2>5, <2>7, <2>8 DEF LineStates
  <1>4. CASE Mount \/ Rerun
    BY <1>1, <1>4 DEF Mount, Rerun
  <1>5. CASE Outside
    BY <1>5, OutsideFrame DEF refs, lines, screen
  <1>6. CASE UNCHANGED hookVars
    BY <1>6 DEF hookVars, refs, lines, screen, world
  <1> QED
    BY <1>2, <1>3, <1>4, <1>5, <1>6 DEF Next

LEMMA HookTypeInit == Init => HookTypeOK
  <1> SUFFICES ASSUME Init PROVE HookTypeOK
    OBVIOUS
  <1>1. closedForGood \in BOOLEAN
    BY DEF Init
  <1>2. reconnectAttempt \in 0..DelayCap /\ socketRef \in 0..(MaxReruns + 1)
        /\ reconnectTimer \in 0..(MaxReruns + 1)
    BY LinesType DEF Init, DelayCap
  <1>3. state \in [Lines -> LineStates] /\ delay \in [Lines -> 0..DelayCap]
    BY DEF Init, DelayCap, LineStates
  <1>5. EndpointOK
    <2>1. <<>> \in Seq({"live", "terminal"})
      OBVIOUS
    <2> QED
      BY <2>1 DEF Init, EndpointOK
  <1>4. /\ target \in [Lines -> Ids] /\ executionId \in Ids /\ ended \subseteq Ids
        /\ shown \in [id : Ids, status : {"none", "live", "terminal"}]
    BY DEF Init
  <1> QED
    BY <1>1, <1>2, <1>3, <1>4, <1>5 DEF Init, HookTypeOK, EndpointOK, LineStates

\* No variable leaves its range.
THEOREM HookTypeCorrect == Spec => []HookTypeOK
  BY HookTypeInit, HookTypeStep, PTL DEF Spec

----------------------------------------------------------------------------
LEMMA LifeStep ==
  ASSUME SocketInv, [Next]_hookVars
  PROVE  LifeInv'
  <1> USE DEF SocketInv, LifeInv
  <1>1. ASSUME NEW l \in Lines, Handler(l) PROVE LifeInv'
    <2>1. UNCHANGED <<life, reruns>>
      BY <1>1, HandlerFrame
    <2>2. closedForGood => closedForGood'
      BY <1>1 DEF Handler, Open, Receive, CloseForGood, CloseAndRetry, TimerFires, refs
    <2>3. state[l] # "free"
      BY <1>1 DEF Handler, Open, Receive, CloseForGood, CloseAndRetry, TimerFires, Closing
    <2> QED
      BY <2>1, <2>2, <2>3
  <1>2. CASE Mount \/ Rerun
    BY <1>2 DEF Mount, Rerun, RunEffect
  <1>3. CASE Unmount
    BY <1>3 DEF Unmount, world
  <1>4. CASE Outside \/ UNCHANGED hookVars
    BY <1>4, OutsideFrame DEF hookVars, refs, lines, screen, world
  <1> QED
    BY <1>1, <1>2, <1>3, <1>4 DEF Next

LEMMA OneLineStep ==
  ASSUME SocketInv, [Next]_hookVars
  PROVE  OneLine'
  <1> SUFFICES ASSUME reruns' = 0 PROVE OneLine'
    BY DEF OneLine
  <1> USE LinesType DEF SocketInv
  <1>1. ASSUME NEW l \in Lines, Handler(l) PROVE OneLine'
    <2>1. /\ \A m \in Lines : m # l => state'[m] = state[m] /\ delay'[m] = delay[m]
          /\ reruns = 0
      BY <1>1, HandlerFrame
    <2>2. state[l] # "free"
      BY <1>1 DEF Handler, Open, Receive, CloseForGood, CloseAndRetry, TimerFires, Closing
    <2>3. l = 1
      BY <2>1, <2>2 DEF OneLine
    <2>4. CASE Open(l) \/ Receive(l) \/ CloseForGood(l)
      BY <2>1, <2>3, <2>4 DEF OneLine, HookTypeOK, Open, Receive, CloseForGood, lines, refs
    <2>5. CASE CloseAndRetry(l)
      <3>1. reconnectAttempt' > delay'[1] \/ reconnectAttempt' = DelayCap
        BY <2>3, <2>5, CappedGrows DEF CloseAndRetry, HookTypeOK, Capped, DelayCap
      <3>2. shown'.status # "terminal"
        BY <2>5 DEF CloseAndRetry, Stops
      <3> QED
        BY <2>1, <2>3, <3>1, <3>2 DEF OneLine
    <2>6. CASE TimerFires(l)
      BY <2>1, <2>3, <2>6 DEF OneLine, HookTypeOK, TimerFires
    <2> QED
      BY <1>1, <2>4, <2>5, <2>6 DEF Handler
  <1>2. CASE Mount
    <2>1. \A m \in Lines : state'[m] = IF m = 1 THEN "connecting" ELSE "free"
      BY <1>2, CleanedUpType DEF Mount, RunEffect, LifeInv
    <2>2. reconnectTimer' = reconnectTimer /\ shown' = shown
      BY <1>2 DEF Mount
    <2>3. reconnectTimer # 1
      BY <1>2 DEF Mount, LifeInv
    <2> QED
      BY <1>2, <2>1, <2>2, <2>3 DEF OneLine
  <1>3. ~Rerun
    BY DEF Rerun, LifeInv
  <1>4. CASE Unmount
    <2>1. \A m \in Lines : state'[m] = CleanedUp(m)
      BY <1>4 DEF Unmount
    <2>2. /\ UNCHANGED <<reruns, shown, reconnectTimer, reconnectAttempt, delay>>
      BY <1>4 DEF Unmount, world, screen
    <2> QED
      BY <2>1, <2>2, CleanedUpType DEF OneLine
  <1>5. CASE Outside \/ UNCHANGED hookVars
    BY <1>5, OutsideFrame DEF OneLine, hookVars, refs, lines, screen, world
  <1> QED
    BY <1>1, <1>2, <1>3, <1>4, <1>5 DEF Next

LEMMA DotStep ==
  ASSUME SocketInv, [Next]_hookVars
  PROVE  LiveDotIsTrue'
  <1> USE LinesType DEF SocketInv
  <1>1. ASSUME NEW l \in Lines, Handler(l), life = "mounted" PROVE LiveDotIsTrue'
    <2>1. /\ \A m \in Lines : m # l => state'[m] = state[m]
          /\ UNCHANGED <<reruns, life>>
      BY <1>1, HandlerFrame
    <2>2. state[l] # "free"
      BY <1>1 DEF Handler, Open, Receive, CloseForGood, CloseAndRetry, TimerFires, Closing
    <2>3. reruns = 0 => \A m \in Lines : m # l => state'[m] = "free"
      BY <2>1, <2>2 DEF OneLine
    <2>4. CASE Receive(l)
      BY <1>1, <2>4 DEF LiveDotIsTrue, Receive, lines, world
    <2>5. CASE Open(l)
      BY <1>1, <2>5 DEF LiveDotIsTrue, Open, SetConnectionState, HookTypeOK
    <2>6. CASE CloseForGood(l) \/ CloseAndRetry(l)
      <3>1. connectionState' = "closed" /\ state'[l] # "open"
        BY <1>1, <2>6 DEF CloseForGood, CloseAndRetry, SetConnectionState, HookTypeOK
      <3> QED
        BY <2>1, <2>3, <3>1 DEF LiveDotIsTrue
    <2>7. CASE TimerFires(l)
      <3>1. /\ connectionState' \in {connectionState, "connecting"}
            /\ state[l] # "open" /\ state'[l] # "open"
        BY <1>1, <2>7 DEF TimerFires, SetConnectionState, HookTypeOK
      <3> QED
        BY <1>1, <2>1, <2>3, <3>1 DEF LiveDotIsTrue
    <2> QED
      BY <1>1, <2>4, <2>5, <2>6, <2>7 DEF Handler
  <1>2. ASSUME NEW l \in Lines, Handler(l), life # "mounted" PROVE LiveDotIsTrue'
    BY <1>2, HandlerFrame DEF LiveDotIsTrue
  <1>3. CASE Mount
    <2>1. \A m \in Lines : state'[m] # "open" /\ connectionState' = "connecting"
      BY <1>3, CleanedUpType DEF Mount, RunEffect, LifeInv
    <2> QED
      BY <2>1 DEF LiveDotIsTrue
  <1>4. CASE Rerun
    <2>1. connectionState' = "connecting" /\ reruns' # 0
      BY <1>4 DEF Rerun, RunEffect, LifeInv
    <2> QED
      BY <2>1 DEF LiveDotIsTrue
  <1>5. CASE Unmount
    BY <1>5 DEF Unmount, LiveDotIsTrue
  <1>6. CASE Outside \/ UNCHANGED hookVars
    BY <1>6, OutsideFrame DEF LiveDotIsTrue, hookVars, refs, lines, screen, world
  <1> QED
    BY <1>1, <1>2, <1>3, <1>4, <1>5, <1>6 DEF Next

\* How the lines, the refs and the dot of the hook hang together.
LEMMA SocketInvariant == Spec => []SocketInv
  <1>1. Init => LifeInv /\ OneLine /\ LiveDotIsTrue
    BY LinesType DEF Init, LifeInv, OneLine, LiveDotIsTrue
  <1>2. SocketInv /\ [Next]_hookVars => SocketInv'
    BY HookTypeStep, LifeStep, OneLineStep, DotStep DEF SocketInv
  <1>3. HookTypeOK /\ LifeInv /\ OneLine /\ LiveDotIsTrue => SocketInv
    BY DEF SocketInv
  <1> QED
    BY <1>1, <1>2, <1>3, HookTypeInit, PTL DEF Spec

\* The dot says "live" only beside an open socket, and always beside the only one.
THEOREM DotNeverLies == Spec => []LiveDotIsTrue
  BY SocketInvariant, PTL DEF SocketInv

\* A step that opens a line is a run of the effect or a timer.
LEMMA OpeningSteps ==
  ASSUME SocketInv, [Next]_hookVars, NEW l \in Lines,
         state'[l] = "connecting", state[l] # "connecting"
  PROVE  \/ Mount \/ Rerun
         \/ TimerFires(l) /\ state[l] = "waiting" /\ ~closedForGood
  <1> USE DEF SocketInv
  <1>1. ASSUME NEW m \in Lines, Handler(m) PROVE TimerFires(l) /\ ~closedForGood
    <2>1. m = l
      BY <1>1, HandlerFrame
    <2> QED
      BY <1>1, <2>1
         DEF HookTypeOK, Handler, Open, Receive, CloseForGood, CloseAndRetry, TimerFires, lines
  <1>2. ~Unmount
    BY CleanedUpType DEF Unmount
  <1>3. ~Outside /\ ~UNCHANGED hookVars
    BY OutsideFrame DEF hookVars, lines
  <1> QED
    BY <1>1, <1>2, <1>3 DEF Next, TimerFires

\* After the unmount no timer of any run opens a socket.
THEOREM GoneStaysClosed == Spec => NothingOpensAfterUnmount
  <1>1. SocketInv /\ [Next]_hookVars =>
          [life = "gone" => \A l \in Lines :
             state'[l] = "connecting" => state[l] = "connecting"]_hookVars
    <2> SUFFICES ASSUME SocketInv, [Next]_hookVars, life = "gone", NEW l \in Lines,
                        state'[l] = "connecting", state[l] # "connecting"
                 PROVE  FALSE
      OBVIOUS
    <2> QED
      BY OpeningSteps DEF SocketInv, LifeInv, Mount, Rerun
  <1> QED
    BY SocketInvariant, <1>1, PTL DEF Spec, NothingOpensAfterUnmount

\* A page that has shown the end of its execution does not connect again.
THEOREM EndStopsReconnecting == Spec => TerminalStopsReconnecting
  <1>1. SocketInv /\ [Next]_hookVars =>
          [reruns' = 0 /\ shown.status = "terminal" => \A l \in Lines :
             state'[l] = "connecting" => state[l] = "connecting"]_hookVars
    <2> SUFFICES ASSUME SocketInv, [Next]_hookVars, reruns' = 0, shown.status = "terminal",
                        NEW l \in Lines, state'[l] = "connecting", state[l] # "connecting"
                 PROVE  FALSE
      OBVIOUS
    <2>1. ~Mount /\ ~Rerun
      BY DEF SocketInv, LifeInv, Mount, Rerun
    <2>2. TimerFires(l) /\ state[l] = "waiting"
      BY <2>1, OpeningSteps
    <2>3. reruns = 0
      BY <2>2 DEF TimerFires, world
    <2> QED
      BY <2>2, <2>3 DEF SocketInv, OneLine
  <1> QED
    BY SocketInvariant, <1>1, PTL DEF Spec, TerminalStopsReconnecting

\* Refusals in a row back off up to the limit.
THEOREM BackoffGrows == Spec => RefusalsBackOff
  <1>1. SocketInv /\ [Next]_hookVars =>
          [\A l \in Lines :
             (reruns = 0 /\ reconnectTimer = l
              /\ state[l] = "connecting" /\ state'[l] = "waiting")
             => (delay'[l] > delay[l] \/ delay'[l] = DelayCap)]_hookVars
    <2> SUFFICES ASSUME SocketInv, [Next]_hookVars, NEW l \in Lines, reruns = 0,
                        reconnectTimer = l, state[l] = "connecting", state'[l] = "waiting"
                 PROVE  delay'[l] > delay[l] \/ delay'[l] = DelayCap
      OBVIOUS
    <2> USE DEF SocketInv
    <2>1. l = 1
      BY DEF OneLine
    <2>2. CloseAndRetry(l)
      <3>1. ASSUME NEW m \in Lines, Handler(m) PROVE CloseAndRetry(l)
        <4>1. m = l
          BY <3>1, HandlerFrame
        <4> QED
          BY <3>1, <4>1
             DEF HookTypeOK, Handler, Open, Receive, CloseForGood, TimerFires, lines
      <3>2. ~Mount /\ ~Rerun
        BY CleanedUpType DEF Mount, Rerun, RunEffect
      <3>3. ~Unmount
        BY CleanedUpType DEF Unmount
      <3>4. ~Outside /\ ~UNCHANGED hookVars
        BY OutsideFrame DEF hookVars, lines
      <3> QED
        BY <3>1, <3>2, <3>3, <3>4 DEF Next
    <2>3. delay'[l] = Capped(reconnectAttempt)
      BY <2>2 DEF CloseAndRetry, HookTypeOK
    <2>4. reconnectAttempt > delay[l] \/ reconnectAttempt = DelayCap
      BY <2>1 DEF OneLine
    <2>5. Capped(reconnectAttempt) = reconnectAttempt
      BY CappedGrows DEF HookTypeOK
    <2> QED
      BY <2>3, <2>4, <2>5
  <1> QED
    BY SocketInvariant, <1>1, PTL DEF Spec, RefusalsBackOff

=============================================================================
