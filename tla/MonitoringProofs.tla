-------------------------- MODULE MonitoringProofs --------------------------
(* For any number of tasks, deliveries, workers, outages and polls: the order *)
(* of the questions keeps a delivery from being listed twice, a page that was *)
(* left takes no answer, what the System page says was so, and the readiness *)
(* request leaves the queue monitor alone.                                   *)
EXTENDS Readiness, FiniteSetTheorems, TLAPS

PollType ==
    [stage : Stages, keys : [Lists -> SUBSET Workers], lists : [Lists -> SUBSET Deliveries]]

QueueTypes ==
    /\ queue \in [Tasks -> Nat]
    /\ delivery \in [Deliveries -> DeliveryType]
    /\ up \subseteq Workers
    /\ poll \in [Polls -> PollType]

\* The lists that a request has asked for when it has come to a stage.
Asked(s) ==
    CASE s = "reserved"  -> {"active"}
      [] s = "scheduled" -> {"active", "reserved"}
      [] s = "events"    -> Lists
      [] OTHER           -> {}

\* Where a delivery can be once it was in a list: it moves towards `active` and is
\* gone.
Since(l) ==
    CASE l = "active"   -> {"active", "done"}
      [] l = "reserved" -> {"reserved", "active", "done"}
      [] OTHER          -> {"scheduled", "reserved", "active", "done"}

\* What a poll has listed has not gone back behind its questions, so the lists it
\* has still to ask for hold other deliveries.
ListsBehind(p) ==
    /\ \A l \in Lists \ Asked(poll[p].stage) : poll[p].lists[l] = {}
    /\ \A l \in Lists : \A d \in poll[p].lists[l] : delivery[d].at \in Since(l)
    /\ \A k, l \in Lists : k # l => poll[p].lists[k] \cap poll[p].lists[l] = {}

AskedInv == \A p \in Polls : ListsBehind(p)

QueueInv == QueueTypes /\ AskedInv

----------------------------------------------------------------------------
(* The steps, as what they do to deliveries and polls.                       *)

LEMMA MovesFrame == Moves \/ Changes => UNCHANGED <<failures, poll, pageVars>>
  BY DEF Moves, Changes

\* A delivery at a worker is one of a task.
LEMMA AtWorker ==
    ASSUME QueueTypes, NEW d \in Deliveries, delivery[d].at \in Lists
    PROVE  delivery[d] \in [at : Lists, task : Tasks, worker : Workers,
                            held : BOOLEAN, retried : BOOLEAN]
<1>1. delivery[d] \in DeliveryType
  BY DEF QueueTypes
<1>2. NotYet.at \notin Lists /\ Gone.at \notin Lists
  BY DEF NotYet, Gone, Lists
<1> QED
  BY <1>1, <1>2 DEF DeliveryType

LEMMA RequeueType ==
    ASSUME QueueTypes, NEW w \in Workers, Requeue(w)
    PROVE  queue' \in [Tasks -> Nat]
<1>1. ASSUME NEW t \in Tasks
      PROVE  Cardinality({d \in At(w) : delivery[d].task = t /\ delivery[d].held}) \in Nat
  <2> DEFINE Those == {d \in At(w) : delivery[d].task = t /\ delivery[d].held}
  <2>1. Those \subseteq 1..MaxDeliveries
    BY DEF At, Deliveries
  <2>2. IsFiniteSet(1..MaxDeliveries)
    BY FS_Interval, QueueMonitorAssumption DEF QueueMonitorAssumption
  <2>3. IsFiniteSet(Those)
    BY <2>1, <2>2, FS_Subset
  <2> QED
    BY <2>3, FS_CardinalityType
<1> DEFINE n == [t \in Tasks |->
             Cardinality({d \in At(w) : delivery[d].task = t /\ delivery[d].held})]
<1>2. queue' = [t \in Tasks |-> queue[t] + n[t]]
  BY DEF Requeue
<1>3. \A t \in Tasks : n[t] \in Nat
  BY <1>1
<1> HIDE DEF n
<1> QED
  BY <1>2, <1>3 DEF QueueTypes

\* What Celery does keeps the ranges, and no delivery moves away from `active`.
Forward ==
    /\ queue' \in [Tasks -> Nat]
    /\ delivery' \in [Deliveries -> DeliveryType]
    /\ up' \subseteq Workers
    /\ \A d \in Deliveries, l \in Lists :
          delivery[d].at \in Since(l) => delivery'[d].at \in Since(l)

LEMMA OneMovesForward ==
    ASSUME QueueTypes, NEW d \in Deliveries, NEW m \in DeliveryType,
           delivery' = [delivery EXCEPT ![d] = m],
           \A l \in Lists : delivery[d].at \in Since(l) => m.at \in Since(l),
           queue' \in [Tasks -> Nat], up' = up
    PROVE  Forward
BY DEF Forward, QueueTypes

LEMMA GoneIsDone == Gone \in DeliveryType /\ Gone.at = "done" /\ NotYet.at = "none"
  BY DEF DeliveryType, Gone, NotYet

LEMMA DoneIsForward == \A l \in Lists : "done" \in Since(l)
  BY DEF Since, Lists

LEMMA TaskForward ==
    ASSUME QueueTypes, NEW d \in Deliveries,
           \/ \E t \in Tasks, w \in Workers : Receive(t, d, w)
           \/ Due(d) \/ Start(d) \/ Retry(d) \/ End(d)
    PROVE  Forward
<1> DEFINE Held == [at : Lists, task : Tasks, worker : Workers,
                    held : BOOLEAN, retried : BOOLEAN]
<1> USE DEF QueueTypes
<1>1. Held \subseteq DeliveryType
  BY DEF DeliveryType
<1>2. delivery[d].at \in Lists => delivery[d] \in Held
  BY AtWorker
<1>3. ASSUME NEW t \in Tasks, NEW w \in Workers, Receive(t, d, w) PROVE Forward
  <2>1. PICK l \in {"reserved", "scheduled"} :
            delivery' = [delivery EXCEPT ![d] =
               [at |-> l, task |-> t, worker |-> w, held |-> TRUE, retried |-> FALSE]]
    BY <1>3 DEF Receive
  <2>2. [at |-> l, task |-> t, worker |-> w, held |-> TRUE, retried |-> FALSE] \in DeliveryType
    BY <1>1 DEF Lists
  <2>3. \A m \in Lists : delivery[d].at \notin Since(m)
    BY <1>3, GoneIsDone DEF Receive, Since
  <2>4. queue' \in [Tasks -> Nat] /\ up' = up
    BY <1>3 DEF Receive, Moves
  <2> QED
    BY <2>1, <2>2, <2>3, <2>4, OneMovesForward
<1>4. ASSUME NEW from \in Lists, NEW to \in Lists, Pass(d, from, to),
             \A l \in Lists : from \in Since(l) => to \in Since(l)
      PROVE  Forward
  <2>1. delivery' = [delivery EXCEPT ![d] = [delivery[d] EXCEPT !.at = to]]
    BY <1>4 DEF Pass
  <2>2. [delivery[d] EXCEPT !.at = to] \in Held /\ [delivery[d] EXCEPT !.at = to].at = to
    BY <1>2, <1>4 DEF Pass
  <2>3. queue' = queue /\ up' = up /\ delivery[d].at = from
    BY <1>4 DEF Pass, Moves
  <2> QED
    BY <1>1, <1>4, <2>1, <2>2, <2>3, OneMovesForward
<1>5. CASE Due(d) \/ Start(d)
  BY <1>4, <1>5 DEF Due, Start, Since, Lists
<1>6. CASE Retry(d)
  <2>1. delivery[d] \in Held
    BY <1>2, <1>6 DEF Retry, Lists
  <2>2. delivery' = [delivery EXCEPT ![d] = [delivery[d] EXCEPT !.retried = TRUE]]
    BY <1>6 DEF Retry
  <2>3. /\ [delivery[d] EXCEPT !.retried = TRUE] \in Held
        /\ [delivery[d] EXCEPT !.retried = TRUE].at = delivery[d].at
    BY <2>1
  <2>4. queue' \in [Tasks -> Nat] /\ up' = up
    BY <1>6, <2>1 DEF Retry, Moves
  <2> QED
    BY <1>1, <2>2, <2>3, <2>4, OneMovesForward
<1>7. CASE End(d)
  <2>1. delivery' = [delivery EXCEPT ![d] = Gone] /\ queue' = queue /\ up' = up
    BY <1>7 DEF End, Moves
  <2>2. \A l \in Lists : Gone.at \in Since(l)
    BY GoneIsDone, DoneIsForward
  <2>3. Gone \in DeliveryType
    BY GoneIsDone
  <2>4. queue' \in [Tasks -> Nat]
    BY <2>1
  <2> QED
    BY <2>1, <2>2, <2>3, <2>4, OneMovesForward
<1> QED
  BY <1>3, <1>5, <1>6, <1>7

LEMMA WorkerForward ==
    ASSUME QueueTypes, NEW w \in Workers, WorkerDown(w) \/ Disconnect(w) \/ WorkerUp(w)
    PROVE  Forward
<1> USE DEF QueueTypes
<1>1. CASE WorkerDown(w)
  <2>1. queue' \in [Tasks -> Nat]
    BY <1>1, RequeueType DEF WorkerDown
  <2>2. /\ \A d \in Deliveries : delivery'[d] \in {Gone, delivery[d]}
        /\ delivery' = [d \in Deliveries |-> delivery'[d]]
    BY <1>1 DEF WorkerDown
  <2> QED
    BY <1>1, <2>1, <2>2, GoneIsDone, DoneIsForward DEF Forward, WorkerDown
<1>2. CASE Disconnect(w)
  <2>1. queue' \in [Tasks -> Nat]
    BY <1>2, RequeueType DEF Disconnect
  <2>2. ASSUME NEW d \in Deliveries
        PROVE  \/ delivery'[d] \in {Gone, delivery[d]}
               \/ delivery'[d] \in DeliveryType /\ delivery'[d].at = delivery[d].at
    <3>1. CASE d \notin At(w) \/ delivery[d].at # "active"
      BY <1>2, <3>1 DEF Disconnect
    <3>2. CASE d \in At(w) /\ delivery[d].at = "active"
      <4>1. delivery'[d] = [delivery[d] EXCEPT !.held = FALSE]
        BY <1>2, <3>2 DEF Disconnect
      <4>2. delivery[d] \in [at : Lists, task : Tasks, worker : Workers,
                             held : BOOLEAN, retried : BOOLEAN]
        BY <3>2, AtWorker DEF At
      <4> QED
        BY <4>1, <4>2 DEF DeliveryType
    <3> QED
      BY <3>1, <3>2
  <2>3. delivery' = [d \in Deliveries |-> delivery'[d]]
    BY <1>2 DEF Disconnect
  <2>4. ASSUME NEW d \in Deliveries
        PROVE  /\ delivery'[d] \in DeliveryType
               /\ \A l \in Lists : delivery[d].at \in Since(l) => delivery'[d].at \in Since(l)
    BY <2>2, GoneIsDone, DoneIsForward
  <2>5. delivery' \in [Deliveries -> DeliveryType]
    BY <2>3, <2>4
  <2>6. up' \subseteq Workers
    BY <1>2 DEF Disconnect
  <2> QED
    BY <2>1, <2>4, <2>5, <2>6 DEF Forward
<1>3. CASE WorkerUp(w)
  BY <1>3 DEF WorkerUp, Forward
<1> QED
  BY <1>1, <1>2, <1>3

LEMMA CeleryForward == QueueTypes /\ CeleryStep => Forward
  BY TaskForward, WorkerForward DEF CeleryStep, WorkerStep

LEMMA CeleryFrame == CeleryStep => UNCHANGED <<failures, poll, pageVars>>
  BY MovesFrame
  DEF CeleryStep, WorkerStep, Receive, Due, Start, Pass, Retry, End,
      WorkerDown, Disconnect, WorkerUp

\* Every other step leaves the queue and replaces at most one poll.
LEMMA PollReplaced ==
    ASSUME NEW p \in Polls, Handle(p) \/ Fail(p) \/ Poll(p) \/ Answer(p) \/ Caught(p)
    PROVE  \E r : SetPoll(p, r)
BY DEF Handle, InspectActive, InspectReserved, InspectScheduled, Ask, SelectEvents, Fail, Poll,
       Answer, Caught

----------------------------------------------------------------------------
(* What the questions do to the lists of a poll.                             *)

\* A question about lists that have not been asked for.
LEMMA QuestionKeeps ==
    ASSUME QueueInv, NEW p \in Polls, NEW l \in Lists, NEW s \in Stages, Ask(p, l, l, s),
           Asked(s) = Asked(poll[p].stage) \cup {l},
           l \notin Asked(poll[p].stage),
           \A k \in Asked(poll[p].stage) : l \notin Since(k)
    PROVE  poll'[p] \in PollType /\ ListsBehind(p)'
<1> DEFINE r == poll'[p]
<1>1. /\ r = [poll[p] EXCEPT !.stage = s, !.keys[l] = up, !.lists[l] = Inspect(l)]
      /\ UNCHANGED queueVars
  BY DEF Ask, SetPoll, QueueInv, QueueTypes
<1>2. poll[p] \in PollType /\ Inspect(l) \subseteq Deliveries /\ up \subseteq Workers
  BY DEF QueueInv, QueueTypes, Inspect
<1>3. /\ r.stage = s
      /\ r.keys = [poll[p].keys EXCEPT ![l] = up]
      /\ r.lists = [poll[p].lists EXCEPT ![l] = Inspect(l)]
  BY <1>1, <1>2 DEF PollType
<1>4. r = [stage |-> r.stage, keys |-> r.keys, lists |-> r.lists]
  BY <1>1, <1>2 DEF PollType
<1>5. delivery' = delivery
  BY <1>1 DEF queueVars
<1> HIDE DEF r
<1>6. r \in PollType
  BY <1>2, <1>3, <1>4 DEF PollType
<1>7. /\ r.lists[l] = Inspect(l)
      /\ \A k \in Lists : k # l => r.lists[k] = poll[p].lists[k]
  BY <1>2, <1>3 DEF PollType
<1>8. ListsBehind(p)
  BY DEF QueueInv, AskedInv
<1>9. l \in Since(l) /\ \A d \in Inspect(l) : delivery[d].at = l
  BY DEF Since, Lists, Inspect
<1>10. \A k \in Lists : k # l => Inspect(l) \cap poll[p].lists[k] = {}
  BY <1>8, <1>9 DEF ListsBehind
<1>11. /\ \A k \in Lists \ Asked(s) : r.lists[k] = {}
       /\ \A k \in Lists : \A d \in r.lists[k] : delivery[d].at \in Since(k)
       /\ \A k, m \in Lists : k # m => r.lists[k] \cap r.lists[m] = {}
  BY <1>7, <1>8, <1>9, <1>10 DEF ListsBehind
<1> QED
  BY <1>3, <1>5, <1>6, <1>11 DEF ListsBehind, r

\* A poll without lists.
LEMMA EmptyListsBehind ==
    ASSUME NEW p \in Polls, poll'[p].lists = Nobody
    PROVE  ListsBehind(p)'
BY DEF ListsBehind, Nobody

LEMMA IdlePoll ==
    ASSUME NEW s \in Stages
    PROVE  /\ [Idle EXCEPT !.stage = s] \in PollType
           /\ [Idle EXCEPT !.stage = s].lists = Nobody
           /\ [Idle EXCEPT !.stage = s].stage = s
           /\ Idle \in PollType /\ Idle.lists = Nobody /\ Idle.stage = "idle"
BY DEF Idle, Nobody, PollType, Stages

\* What the handler and the page make of a poll.
LEMMA PollBehind ==
    ASSUME QueueInv, NEW p \in Polls,
           Handle(p) \/ Fail(p) \/ Poll(p) \/ Answer(p) \/ Caught(p)
    PROVE  poll'[p] \in PollType /\ ListsBehind(p)'
<1> USE DEF QueueInv, QueueTypes
<1>1. ASSUME NEW r \in PollType, SetPoll(p, r), r.lists = Nobody
      PROVE  poll'[p] \in PollType /\ ListsBehind(p)'
  BY <1>1, EmptyListsBehind DEF SetPoll
<1>2. CASE InspectActive(p)
  BY <1>2, QuestionKeeps DEF InspectActive, Asked, Lists, Stages, Asking
<1>3. CASE InspectReserved(p)
  BY <1>3, QuestionKeeps DEF InspectReserved, Asked, Since, Lists, Stages, Asking
<1>4. CASE InspectScheduled(p)
  BY <1>4, QuestionKeeps DEF InspectScheduled, Asked, Since, Lists, Stages, Asking
<1>5. CASE SelectEvents(p)
  <2>1. SetPoll(p, [poll[p] EXCEPT !.stage = "answered", !.lists = Nobody])
    BY <1>5 DEF SelectEvents
  <2>2. /\ [poll[p] EXCEPT !.stage = "answered", !.lists = Nobody] \in PollType
        /\ [poll[p] EXCEPT !.stage = "answered", !.lists = Nobody].lists = Nobody
    BY DEF PollType, Stages, Nobody
  <2> QED
    BY <1>1, <2>1, <2>2
<1>6. CASE Fail(p) \/ Poll(p)
  <2>1. SetPoll(p, [Idle EXCEPT !.stage = "failed"]) \/ SetPoll(p, [Idle EXCEPT !.stage = "sent"])
    BY <1>6 DEF Fail, Poll
  <2> QED
    BY <1>1, <2>1, IdlePoll DEF Stages
<1>7. CASE Answer(p) \/ Caught(p)
  <2>1. SetPoll(p, Idle)
    BY <1>7 DEF Answer, Caught
  <2> QED
    BY <1>1, <2>1, IdlePoll DEF Stages
<1> QED
  BY <1>2, <1>3, <1>4, <1>5, <1>6, <1>7 DEF Handle

LEMMA QueueInvKept == QueueInv /\ [Next]_vars => QueueInv'
<1> SUFFICES ASSUME QueueInv, [Next]_vars PROVE QueueInv'
  OBVIOUS
<1> USE DEF QueueInv, QueueTypes
<1>1. CASE CeleryStep
  <2>1. Forward /\ poll' = poll
    BY <1>1, CeleryForward, CeleryFrame
  <2>2. ASSUME NEW p \in Polls PROVE ListsBehind(p)'
    <3>1. ListsBehind(p) /\ \A l \in Lists : poll[p].lists[l] \subseteq Deliveries
      BY DEF AskedInv, PollType
    <3> QED
      BY <2>1, <3>1 DEF ListsBehind, Forward
  <2> QED
    BY <2>1, <2>2 DEF Forward, AskedInv
<1>2. ASSUME NEW p \in Polls, Handle(p) \/ Fail(p) \/ Poll(p) \/ Answer(p) \/ Caught(p)
      PROVE  QueueInv'
  <2>1. poll'[p] \in PollType /\ ListsBehind(p)'
    BY <1>2, PollBehind
  <2>2. PICK r : SetPoll(p, r)
    BY <1>2, PollReplaced
  <2>3. poll' \in [Polls -> PollType] /\ \A q \in Polls : q # p => poll'[q] = poll[q]
    BY <2>1, <2>2 DEF SetPoll
  <2>4. UNCHANGED <<queue, delivery, up>>
    BY <2>2 DEF SetPoll, queueVars
  <2>5. \A q \in Polls : q # p => ListsBehind(q)'
    BY <2>3, <2>4 DEF AskedInv, ListsBehind
  <2> QED
    BY <2>1, <2>3, <2>4, <2>5 DEF AskedInv
<1>3. CASE Leave \/ UNCHANGED vars
  <2>1. UNCHANGED <<queue, delivery, up, poll>>
    BY <1>3 DEF Leave, vars, queueVars
  <2>2. \A p \in Polls : ListsBehind(p)'
    BY <2>1 DEF AskedInv, ListsBehind
  <2> QED
    BY <2>1, <2>2 DEF AskedInv
<1> QED
  BY <1>1, <1>2, <1>3 DEF Next

LEMMA QueueInvHolds == Spec => []QueueInv
<1>1. Init => QueueInv
  <2> SUFFICES ASSUME Init PROVE QueueInv
    OBVIOUS
  <2>1. poll \in [Polls -> PollType] /\ \A p \in Polls : poll[p] = Idle
    BY IdlePoll DEF Init, Stages
  <2>2. \A p \in Polls : ListsBehind(p)
    BY <2>1 DEF ListsBehind, Idle, Nobody
  <2>3. queue \in [Tasks -> Nat] /\ delivery \in [Deliveries -> DeliveryType] /\ up \subseteq Workers
    BY DEF Init, DeliveryType
  <2> QED
    BY <2>1, <2>2, <2>3 DEF QueueInv, QueueTypes, AskedInv
<1> QED
  BY <1>1, QueueInvKept, PTL DEF Spec

\* No answer of queue_status lists one delivery twice, for any number of tasks,
\* deliveries, workers and polls, whatever is received, started, retried or lost
\* between its questions.
THEOREM CountedOnce == Spec => []DeliveriesListedOnce
<1>1. QueueInv => DeliveriesListedOnce
  BY DEF QueueInv, AskedInv, ListsBehind, DeliveriesListedOnce
<1> QED
  BY <1>1, QueueInvHolds, PTL

----------------------------------------------------------------------------
(* The page, the budgets and the event loop.                                 *)

PageTypes ==
    /\ moves \in 0..MaxMoves /\ changes \in 0..MaxChanges /\ failures \in 0..MaxFailures
    /\ error \in BOOLEAN /\ cancelled \in BOOLEAN
    /\ status.workers \subseteq Workers

\* inspect() blocks the loop: one request at a time is between its questions.
OneAsks == \A p, q \in Polls : poll[p].stage \in Asking /\ poll[q].stage \in Asking => p = q

\* A step begins the questions of a request only while no other asks.
LEMMA WhoAsks ==
    ASSUME QueueTypes, [Next]_vars, NEW p \in Polls,
           poll'[p].stage \in Asking, poll[p].stage \notin Asking
    PROVE  LoopIsFree /\ \A q \in Polls : q # p => poll'[q] = poll[q]
<1> USE DEF QueueTypes
<1>1. ASSUME poll' = poll PROVE FALSE
  BY <1>1
<1>2. ~CeleryStep /\ ~Leave /\ ~UNCHANGED vars
  BY <1>1, CeleryFrame DEF Leave, vars
<1>3. PICK q \in Polls : Handle(q) \/ Fail(q) \/ Poll(q) \/ Answer(q) \/ Caught(q)
  BY <1>2 DEF Next
<1>4. PICK r : SetPoll(q, r)
  BY <1>3, PollReplaced
<1>5. q = p /\ \A o \in Polls : o # p => poll'[o] = poll[o]
  BY <1>4 DEF SetPoll
<1>6. ASSUME NEW s \in Stages \ Asking, SetPoll(p, [Idle EXCEPT !.stage = s]) PROVE FALSE
  BY <1>6, IdlePoll DEF SetPoll
<1>7. ~Fail(p) /\ ~Poll(p)
  BY <1>6 DEF Fail, Poll, Stages, Asking
<1>8. ~Answer(p) /\ ~Caught(p)
  <2>1. SetPoll(p, Idle) => FALSE
    BY IdlePoll DEF SetPoll, Stages, Asking
  <2> QED
    BY <2>1 DEF Answer, Caught
<1>9. ~InspectReserved(p) /\ ~InspectScheduled(p)
  BY DEF InspectReserved, InspectScheduled, Asking
<1>10. ~SelectEvents(p)
  <2>1. [poll[p] EXCEPT !.stage = "answered", !.lists = Nobody].stage = "answered"
    BY DEF PollType
  <2> QED
    BY <2>1 DEF SelectEvents, SetPoll, Asking
<1>11. InspectActive(p)
  BY <1>3, <1>5, <1>7, <1>8, <1>9, <1>10 DEF Handle
<1> QED
  BY <1>5, <1>11 DEF InspectActive

LEMMA OneAsksKept == QueueTypes /\ OneAsks /\ [Next]_vars => OneAsks'
<1> SUFFICES ASSUME QueueTypes, OneAsks, [Next]_vars,
                    NEW p \in Polls, NEW q \in Polls, p # q,
                    poll'[p].stage \in Asking, poll'[q].stage \in Asking
             PROVE  FALSE
  BY DEF OneAsks
<1>1. poll[p].stage \notin Asking \/ poll[q].stage \notin Asking
  BY DEF OneAsks
<1>2. CASE poll[p].stage \notin Asking
  BY <1>2, WhoAsks DEF LoopIsFree
<1>3. CASE poll[q].stage \notin Asking
  BY <1>3, WhoAsks DEF LoopIsFree
<1> QED
  BY <1>1, <1>2, <1>3

LEMMA Budgets ==
    ASSUME PageTypes, CeleryStep
    PROVE  moves' \in 0..MaxMoves /\ changes' \in 0..MaxChanges
<1> USE QueueMonitorAssumption DEF QueueMonitorAssumption, PageTypes
<1>1. CASE Moves
  BY <1>1 DEF Moves
<1>2. CASE Changes
  BY <1>2 DEF Changes
<1>3. Moves \/ Changes
  BY DEF CeleryStep, WorkerStep, Receive, Due, Start, Pass, Retry, End,
         WorkerDown, Disconnect, WorkerUp
<1> QED
  BY <1>1, <1>2, <1>3

LEMMA PageTypesKept == QueueTypes /\ PageTypes /\ [Next]_vars => PageTypes'
<1> SUFFICES ASSUME QueueTypes, PageTypes, [Next]_vars PROVE PageTypes'
  OBVIOUS
<1>1. MaxFailures \in Nat
  BY QueueMonitorAssumption DEF QueueMonitorAssumption
<1>2. CASE CeleryStep
  BY <1>2, Budgets, CeleryFrame DEF PageTypes, pageVars
<1>3. ASSUME NEW p \in Polls, Handle(p) \/ Poll(p) PROVE PageTypes'
  <2>1. UNCHANGED <<moves, changes, failures, status, error, cancelled>>
    BY <1>3 DEF Handle, InspectActive, InspectReserved, InspectScheduled, Ask, SelectEvents,
                Poll, SetPoll, queueVars, pageVars
  <2> QED
    BY <2>1 DEF PageTypes
<1>4. ASSUME NEW p \in Polls, Fail(p) PROVE PageTypes'
  <2>1. failures' \in 0..MaxFailures /\ UNCHANGED <<moves, changes, status, error, cancelled>>
    BY <1>1, <1>4 DEF PageTypes, Fail, SetPoll, queueVars, pageVars
  <2> QED
    BY <2>1 DEF PageTypes
<1>5. ASSUME NEW p \in Polls, Answer(p) PROVE PageTypes'
  <2>1. UNCHANGED <<moves, changes, failures, cancelled>> /\ (error' = error \/ error' = FALSE)
    BY <1>5 DEF Answer, ShowAnswer, SetPoll, queueVars
  <2>2. status' = status \/ status'.workers = WorkersOf(poll[p].keys)
    BY <1>5 DEF Answer, ShowAnswer, Shown
  <2>3. status'.workers \subseteq Workers
    BY <2>2 DEF PageTypes, QueueTypes, PollType, WorkersOf, Lists
  <2>4. error' \in BOOLEAN
    BY <2>1 DEF PageTypes
  <2> QED
    BY <2>1, <2>3, <2>4 DEF PageTypes
<1>6. ASSUME NEW p \in Polls, Caught(p) PROVE PageTypes'
  <2>1. error' \in BOOLEAN
    BY <1>6, Zenon DEF Caught
  <2>2. UNCHANGED <<moves, changes, failures, status, cancelled>>
    BY <1>6 DEF Caught, SetPoll, queueVars
  <2> QED
    BY <2>1, <2>2 DEF PageTypes
<1>7. CASE Leave
  <2>1. cancelled' \in BOOLEAN
    BY <1>7, Zenon DEF Leave
  <2>2. UNCHANGED <<moves, changes, failures, status, error>>
    BY <1>7 DEF Leave, queueVars
  <2> QED
    BY <2>1, <2>2 DEF PageTypes
<1>8. CASE UNCHANGED vars
  <2>1. UNCHANGED <<moves, changes, failures, status, error, cancelled>>
    BY <1>8 DEF vars, queueVars, pageVars
  <2> QED
    BY <2>1 DEF PageTypes
<1> QED
  BY <1>2, <1>3, <1>4, <1>5, <1>6, <1>7, <1>8 DEF Next

\* No variable leaves its range, and one request at a time holds the event loop.
THEOREM QueueTypeCorrect == Spec => []QueueTypeOK
<1>1. Init => PageTypes /\ OneAsks
  <2> SUFFICES ASSUME Init PROVE PageTypes /\ OneAsks
    OBVIOUS
  <2>1. error \in BOOLEAN /\ cancelled \in BOOLEAN
    BY Zenon DEF Init
  <2>2. moves \in 0..MaxMoves /\ changes \in 0..MaxChanges /\ failures \in 0..MaxFailures
    BY QueueMonitorAssumption DEF QueueMonitorAssumption, Init
  <2>3. status.workers \subseteq Workers
    BY DEF Init, NoStatus
  <2>4. OneAsks
    BY DEF Init, OneAsks, Idle, Asking
  <2> QED
    BY <2>1, <2>2, <2>3, <2>4 DEF PageTypes
<1>2. QueueInv /\ PageTypes /\ OneAsks /\ [Next]_vars => (PageTypes /\ OneAsks)'
  BY PageTypesKept, OneAsksKept DEF QueueInv
<1>3. QueueInv /\ PageTypes /\ OneAsks => QueueTypeOK
  <2> SUFFICES ASSUME QueueTypes, PageTypes, OneAsks PROVE QueueTypeOK
    BY DEF QueueInv
  <2> DEFINE Those == {p \in Polls : poll[p].stage \in Asking}
  <2>1. Those = {} \/ \E p : Those = {p}
    BY DEF OneAsks
  <2> HIDE DEF Those
  <2>2. Cardinality(Those) \in {0, 1}
    BY <2>1, FS_EmptySet, FS_Singleton, Zenon
  <2>3. Cardinality(Those) <= 1
    BY <2>2
  <2>4. \A p \in Polls :
          /\ poll[p].stage \in Stages
          /\ \A l \in Lists : /\ poll[p].keys[l] \subseteq Workers
                              /\ poll[p].lists[l] \subseteq Deliveries
    BY DEF QueueTypes, PollType
  <2> QED
    BY <2>3, <2>4 DEF QueueTypeOK, QueueTypes, PageTypes, Those
<1> QED
  BY <1>1, <1>2, <1>3, QueueInvHolds, PTL DEF Spec

\* A poll that ends after the page was left changes nothing on it.
THEOREM LeftPageIsLeftAlone == Spec => CleanupIsFinal
<1>1. QueueTypeOK /\ [Next]_vars => [cancelled => UNCHANGED <<status, error>>]_vars
  <2> SUFFICES ASSUME QueueTypeOK, [Next]_vars, cancelled PROVE UNCHANGED <<status, error>>
    OBVIOUS
  <2>1. CASE CeleryStep
    BY <2>1, CeleryFrame DEF pageVars
  <2>2. ASSUME NEW p \in Polls, Handle(p) \/ Fail(p) \/ Poll(p)
        PROVE  UNCHANGED <<status, error>>
    BY <2>2 DEF Handle, InspectActive, InspectReserved, InspectScheduled, Ask, SelectEvents,
                Fail, Poll, pageVars
  <2>3. ASSUME NEW p \in Polls, Answer(p) PROVE UNCHANGED <<status, error>>
    BY <2>3 DEF Answer
  <2>4. ASSUME NEW p \in Polls, Caught(p) PROVE UNCHANGED <<status, error>>
    <3>1. error \in BOOLEAN
      BY DEF QueueTypeOK
    <3>2. error' = error
      BY <2>4, <3>1, Zenon DEF Caught
    <3> QED
      BY <2>4, <3>2 DEF Caught
  <2>5. CASE Leave \/ UNCHANGED vars
    BY <2>5 DEF Leave, vars, pageVars
  <2> QED
    BY <2>1, <2>2, <2>3, <2>4, <2>5 DEF Next
<1> QED
  BY <1>1, QueueTypeCorrect, PTL DEF Spec, CleanupIsFinal

----------------------------------------------------------------------------
(* The readiness request.                                                    *)

InProgress == {"database", "redis", "broker", "commit"}

RequestType ==
    [stage : InProgress \cup {"idle", "answered", "failed"},
     session : {"none", "open", "broken"}, checks : SUBSET Services,
     up : SUBSET Services, down : SUBSET Services, beside : SUBSET Services]

\* The probes made when a request has come to a stage.
Probed(s) ==
    CASE s \in {"idle", "database"} -> {}
      [] s = "redis"                -> {"database"}
      [] s = "broker"               -> {"database", "redis"}
      [] OTHER                      -> Services

\* What a probe has found was so while the request lasted.
Borne(r) ==
    /\ r.checks \subseteq r.up
    /\ Probed(r.stage) \ r.checks \subseteq r.down

\* The history is up to the moment, and an open session has seen everything found
\* together with its database.
UpToDate(r, now) ==
    /\ now \subseteq r.up /\ Services \ now \subseteq r.down
    /\ "database" \in now => now \subseteq r.beside
    /\ r.checks \subseteq Probed(r.stage)
    /\ "database" \in r.checks => r.session # "none"
    /\ r.session = "open" => "database" \in now /\ r.checks \subseteq r.beside

RequestInv ==
    /\ alive \subseteq Services
    /\ request \in RequestType
    /\ request.stage \notin {"idle", "failed"} => Borne(request)
    /\ request.stage \in InProgress => UpToDate(request, Answering)
    /\ Badge = "ok" => request.beside = Services

----------------------------------------------------------------------------
LEMMA AnsweringServices == alive \subseteq Services => Answering \subseteq Services
  BY DEF Answering, Services

\* To take note of what runs now keeps the history up to date, whether or not a
\* session has lost its database.
LEMMA SeenKeeps ==
    ASSUME NEW r \in RequestType, NEW now \in SUBSET Services, NEW s \in {"none", "open", "broken"},
           Borne(r), r.checks \subseteq Probed(r.stage),
           "database" \in r.checks => r.session # "none",
           r.session = "open" => r.checks \subseteq r.beside,
           s = IF r.session = "open" /\ "database" \notin now THEN "broken" ELSE r.session
    PROVE  LET q == Seen([r EXCEPT !.session = s], now)
           IN  q \in RequestType /\ q.stage = r.stage /\ Borne(q) /\ UpToDate(q, now)
<1> DEFINE q == Seen([r EXCEPT !.session = s], now)
<1>1. q = [r EXCEPT !.session = s, !.up = @ \cup now, !.down = @ \cup (Services \ now),
                    !.beside = IF "database" \in now THEN @ \cup now ELSE @]
  BY DEF Seen, RequestType
<1>2. /\ q.stage = r.stage /\ q.session = s /\ q.checks = r.checks
      /\ q.up = r.up \cup now /\ q.down = r.down \cup (Services \ now)
      /\ q.beside = IF "database" \in now THEN r.beside \cup now ELSE r.beside
  BY <1>1 DEF RequestType
<1>3. q \in RequestType
  <2>1. q.up \in SUBSET Services /\ q.down \in SUBSET Services /\ q.beside \in SUBSET Services
    BY <1>2 DEF RequestType
  <2>2. q = [stage |-> r.stage, session |-> s, checks |-> r.checks,
             up |-> q.up, down |-> q.down, beside |-> q.beside]
    BY <1>1 DEF RequestType
  <2> HIDE DEF q
  <2> QED
    BY <2>1, <2>2 DEF RequestType
<1>4. Borne(q)
  BY <1>2 DEF Borne
<1>5. UpToDate(q, now)
  BY <1>2 DEF UpToDate
<1> QED
  BY <1>2, <1>3, <1>4, <1>5

\* A step that is not of the request keeps it up to date.
LEMMA NoticedKeeps ==
    ASSUME RequestInv, Noticed, alive' \subseteq Services
    PROVE  RequestInv'
<1>1. CASE request.stage \in {"idle", "answered", "failed"}
  <2>1. request' = request
    BY <1>1 DEF Noticed
  <2> QED
    BY <1>1, <2>1 DEF RequestInv, InProgress, Badge
<1>2. CASE request.stage \notin {"idle", "answered", "failed"}
  <2>1. request.stage \in InProgress /\ request \in RequestType
    BY <1>2 DEF RequestInv, RequestType
  <2>s. PICK s : s = IF request.session = "open" /\ "database" \notin Answering' THEN "broken"
                     ELSE request.session
    OBVIOUS
  <2>2. "database" \in Answering' <=> "database" \in alive'
    BY DEF Answering
  <2>3. request' = Seen([request EXCEPT !.session = s], Answering')
    BY <1>2, <2>2, <2>s DEF Noticed
  <2>4. s \in {"none", "open", "broken"} /\ Answering' \in SUBSET Services
    BY <2>1, <2>s DEF RequestType, Answering, Services
  <2>5. /\ Borne(request) /\ UpToDate(request, Answering)
    BY <2>1 DEF RequestInv, InProgress
  <2>6. /\ request.checks \subseteq Probed(request.stage)
        /\ "database" \in request.checks => request.session # "none"
        /\ request.session = "open" => request.checks \subseteq request.beside
    BY <2>5 DEF UpToDate
  <2>7. /\ request' \in RequestType /\ request'.stage = request.stage
        /\ Borne(request') /\ UpToDate(request', Answering')
    BY <2>1, <2>3, <2>4, <2>5, <2>6, <2>s, SeenKeeps
  <2>8. Badge' = "none"
    BY <2>1, <2>7 DEF Badge, InProgress
  <2> QED
    BY <2>7, <2>8 DEF RequestInv
<1> QED
  BY <1>1, <1>2

----------------------------------------------------------------------------
LEMMA RequestStep ==
    ASSUME RequestInv,
           AskReady \/ CheckDatabase \/ PingRedis \/ PingWorkers \/ CommitAndAnswer \/ LeaveSystem
    PROVE  RequestInv'
<1> USE DEF RequestInv, Step, InProgress
<1>1. Answering' = Answering /\ Answering \subseteq Services /\ alive' = alive
  BY AnsweringServices DEF AskReady, CheckDatabase, PingRedis, PingWorkers, CommitAndAnswer,
                           LeaveSystem, Answering, vars, queueVars
<1>2. CASE AskReady
  <2>1. request' = [stage |-> "database", session |-> "none", checks |-> {}, up |-> Answering,
                    down |-> Services \ Answering,
                    beside |-> IF "database" \in Answering THEN Answering ELSE {}]
    BY <1>2 DEF AskReady, Seen, NoRequest
  <2> QED
    BY <1>1, <2>1 DEF RequestType, Borne, UpToDate, Probed, Badge
<1>3. CASE CheckDatabase
  <2>1. PICK s \in IF "database" \in alive THEN {"open"} ELSE {"none", "broken"} :
            Step("database", [request EXCEPT !.stage = "redis", !.session = s,
                                             !.checks = Found("database")])
    BY <1>3 DEF CheckDatabase
  <2>2. request'.stage = "redis" /\ request'.session = s
        /\ request'.checks = request.checks \cup ({"database"} \cap Answering)
        /\ request'.up = request.up /\ request'.down = request.down
        /\ request'.beside = request.beside
    BY <2>1 DEF Found, RequestType
  <2>3. request' \in RequestType
    BY <1>1, <2>1 DEF Found, RequestType
  <2>4. request.checks = {}
    BY <2>1 DEF UpToDate, Probed
  <2>5. "database" \in Answering <=> "database" \in alive
    BY DEF Answering
  <2>6. Borne(request')
    BY <1>1, <2>1, <2>2, <2>4 DEF Borne, UpToDate, Probed, Services
  <2>7. UpToDate(request', Answering')
    BY <1>1, <2>1, <2>2, <2>4, <2>5 DEF UpToDate, Probed, Services
  <2> QED
    BY <1>1, <2>2, <2>3, <2>6, <2>7 DEF Badge
<1>4. CASE PingRedis
  <2>1. request'.stage = "broker" /\ request'.session = request.session
        /\ request'.checks = request.checks \cup ({"redis"} \cap Answering)
        /\ request'.up = request.up /\ request'.down = request.down
        /\ request'.beside = request.beside /\ request.stage = "redis"
    BY <1>4 DEF PingRedis, Found, RequestType
  <2>2. request' \in RequestType
    BY <1>1, <1>4 DEF PingRedis, Found, RequestType
  <2>3. Borne(request')
    BY <1>1, <2>1 DEF Borne, UpToDate, Probed, Services
  <2>4. UpToDate(request', Answering')
    BY <1>1, <2>1 DEF UpToDate, Probed, Services
  <2> QED
    BY <1>1, <2>1, <2>2, <2>3, <2>4 DEF Badge
<1>5. CASE PingWorkers
  <2>1. request'.stage = "commit" /\ request'.session = request.session
        /\ request'.checks = request.checks \cup ({"broker"} \cap Answering)
        /\ request'.up = request.up /\ request'.down = request.down
        /\ request'.beside = request.beside /\ request.stage = "broker"
    BY <1>5 DEF PingWorkers, Found, RequestType
  <2>2. request' \in RequestType
    BY <1>1, <1>5 DEF PingWorkers, Found, RequestType
  <2>3. Borne(request')
    BY <1>1, <2>1 DEF Borne, UpToDate, Probed, Services
  <2>4. UpToDate(request', Answering')
    BY <1>1, <2>1 DEF UpToDate, Probed, Services
  <2> QED
    BY <1>1, <2>1, <2>2, <2>3, <2>4 DEF Badge
<1>6. CASE CommitAndAnswer
  <2>1. request.stage = "commit"
        /\ request'.stage = IF request.session = "broken" THEN "failed" ELSE "answered"
    BY <1>6 DEF CommitAndAnswer, RequestType
  <2>2. /\ request'.session = request.session /\ request'.checks = request.checks
        /\ request'.up = request.up /\ request'.down = request.down
        /\ request'.beside = request.beside
    BY <1>6 DEF CommitAndAnswer, RequestType
  <2>3. request' \in RequestType
    BY <1>6 DEF CommitAndAnswer, RequestType
  <2>4. Borne(request')
    BY <2>1, <2>2 DEF Borne, Probed
  <2>5. Badge' = "ok" => request'.beside = Services
    <3>1. SUFFICES ASSUME request'.stage = "answered", request.checks = Services
                   PROVE  request.beside = Services
      BY <2>1, <2>2 DEF Badge
    <3>2. request.session = "open"
      BY <2>1, <3>1 DEF UpToDate, Services, RequestType
    <3> QED
      BY <2>1, <3>1, <3>2 DEF UpToDate, RequestType
  <2> QED
    BY <1>1, <2>1, <2>3, <2>4, <2>5
<1>7. CASE LeaveSystem
  <2>1. request' = NoRequest
    BY <1>7 DEF LeaveSystem
  <2> QED
    BY <1>1, <2>1 DEF NoRequest, RequestType, Badge
<1> QED
  BY <1>2, <1>3, <1>4, <1>5, <1>6, <1>7

LEMMA RequestInvKept == RequestInv /\ [ReadyNext]_readyAll => RequestInv'
<1> SUFFICES ASSUME RequestInv, [ReadyNext]_readyAll PROVE RequestInv'
  OBVIOUS
<1>1. CASE UNCHANGED readyVars
  <2>1. request' = request /\ alive' = alive
    BY <1>1 DEF readyVars
  <2>2. request.stage = "idle" \/ UNCHANGED up \/ Meanwhile
    BY DEF ReadyNext, readyAll, vars, queueVars, AskReady, CheckDatabase, PingRedis,
           PingWorkers, CommitAndAnswer, LeaveSystem, Step
  <2>3. request.stage = "idle" \/ UNCHANGED up => RequestInv'
    BY <2>1 DEF RequestInv, Badge, Answering, InProgress
  <2>4. Meanwhile => RequestInv'
    BY <2>1, NoticedKeeps DEF Meanwhile, RequestInv
  <2> QED
    BY <2>2, <2>3, <2>4
<1>2. CASE Meanwhile
  <2>1. alive' \subseteq Services
    BY <1>2 DEF Meanwhile, Outage, RequestInv
  <2> QED
    BY <1>2, <2>1, NoticedKeeps DEF Meanwhile
<1>3. CASE UNCHANGED readyAll
  BY <1>1, <1>3 DEF readyAll
<1> QED
  BY <1>1, <1>2, <1>3, RequestStep DEF ReadyNext

\* What the System page says of a service was so at some moment of its request,
\* and "ok" says that the database ran together with each of the others.
THEOREM ReadinessIsWitnessed == ReadySpec => []ReadinessWitnessed
<1>1. ReadyInit => RequestInv
  BY DEF ReadyInit, RequestInv, NoRequest, RequestType, Services, InProgress, Badge
<1>2. RequestInv => ReadinessWitnessed
  BY DEF RequestInv, ReadinessWitnessed, Borne, Probed, Badge, InProgress
<1> QED
  BY <1>1, <1>2, RequestInvKept, PTL DEF ReadySpec

\* Readiness asks the workers and disturbs nothing: beside it the queue monitor
\* behaves as it does alone.
THEOREM ReadinessDisturbsNothing == ReadySpec => Spec
<1>1. ReadyInit => Init
  BY DEF ReadyInit
<1>2. [ReadyNext]_readyAll => [Next]_vars
  BY DEF ReadyNext, readyAll, Meanwhile, Outage, Next, CeleryStep, AskReady, CheckDatabase,
         PingRedis, PingWorkers, CommitAndAnswer, LeaveSystem, Step
<1> QED
  BY <1>1, <1>2, PTL DEF ReadySpec, Spec
=============================================================================
