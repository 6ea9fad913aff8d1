------------------------- MODULE LiveProgressProofs -------------------------
(* Theorems about LiveProgress, for any number of executions, workers,       *)
(* stages and lost connections.                                              *)
EXTENDS LiveProgress, DeliveryProofs

----------------------------------------------------------------------------
(* Whoever watches takes no part: the orchestration beside the page is the   *)
(* orchestration alone, and what is proved of it holds here.                 *)

LEMMA WatchingIsPassive == LiveNext => Next \/ UNCHANGED vars
  <1> SUFFICES ASSUME LiveNext PROVE Next \/ UNCHANGED vars
    OBVIOUS
  <1>1. CASE SilentStep
    BY <1>1 DEF SilentStep, WorksSilently, Next, WorkerStep
  <1>2. CASE \E w \in Workers : PublishEvent(w)
    BY <1>2 DEF PublishEvent, Next, WorkerStep
  <1>3. CASE Connect \/ EndpointStep \/ Drop \/ Receive
    BY <1>3 DEF Connect, EndpointStep, ReadExecution, ReadSteps, SendSnapshot, Subscribe, Drop,
                Receive
  <1>4. CASE Rest
    BY <1>4 DEF Rest, Next
  <1> QED
    BY <1>1, <1>2, <1>3, <1>4 DEF LiveNext

\* The page and the endpoint change nothing about an execution (they read rows
\* and subscribe): what they run beside is the orchestration.
THEOREM PageOnlyWatches == LiveSpec => Spec
  <1>1. LiveInit => Init
    BY DEF LiveInit
  <1>2. [LiveNext]_allVars => [Next]_vars
    BY WatchingIsPassive DEF allVars
  <1> QED
    BY <1>1, <1>2, PTL DEF LiveSpec, Spec

----------------------------------------------------------------------------
(* Array.sort: the rows in another order, each once.                         *)

LEMMA StageOrderType ==
  ASSUME NEW k
  PROVE  StageOrder(k) \in Nat
  <1> DEFINE ahead == {i \in DOMAIN Stages : \A j \in 1..i : Key(j) # k}
  <1>1. Len(Stages) \in Nat /\ DOMAIN Stages = 1..Len(Stages)
    BY StagesType
  <1>2. IsFiniteSet(1..Len(Stages))
    BY <1>1, FS_Interval
  <1>3. ahead \subseteq 1..Len(Stages)
    BY <1>1
  <1> HIDE DEF ahead
  <1>4. IsFiniteSet(ahead)
    BY <1>2, <1>3, FS_Subset
  <1>5. Cardinality(ahead) \in Nat
    BY <1>4, FS_CardinalityType
  <1> QED
    BY <1>5 DEF ahead, StageOrder

Rank(rows, i) == Cardinality(Before(rows, i))

Rearranged(new, rows) ==
    /\ DOMAIN new = DOMAIN rows
    /\ \E at \in [DOMAIN rows -> DOMAIN rows] :
          /\ \A n \in DOMAIN rows : new[n] = rows[at[n]]
          /\ \A m, n \in DOMAIN rows : at[m] = at[n] => m = n
          /\ \A i \in DOMAIN rows : \E n \in DOMAIN rows : at[n] = i

LEMMA BeforeOrders ==
  ASSUME NEW rows \in Seq(StepRows), NEW i \in DOMAIN rows, NEW j \in DOMAIN rows
  PROVE  /\ Before(rows, i) \subseteq DOMAIN rows /\ i \notin Before(rows, i)
         /\ i # j => i \in Before(rows, j) \/ j \in Before(rows, i)
         /\ i \in Before(rows, j) => Before(rows, i) \subseteq Before(rows, j)
  <1> DEFINE o == [k \in DOMAIN rows |-> StageOrder(rows[k].key)]
  <1>1. DOMAIN rows \subseteq Nat
    OBVIOUS
  <1>2. o \in [DOMAIN rows -> Nat]
    BY StageOrderType
  <1>3. \A k \in DOMAIN rows :
           Before(rows, k) = {l \in DOMAIN rows : o[l] < o[k] \/ (o[l] = o[k] /\ l < k)}
    BY DEF Before
  <1> HIDE DEF o
  <1> QED
    BY <1>1, <1>2, <1>3

LEMMA RankType ==
  ASSUME NEW rows \in Seq(StepRows), NEW i \in DOMAIN rows
  PROVE  /\ IsFiniteSet(Before(rows, i))
         /\ Rank(rows, i) \in 0..(Len(rows) - 1)
  <1>1. Len(rows) \in Nat /\ DOMAIN rows = 1..Len(rows)
    OBVIOUS
  <1>2. IsFiniteSet(DOMAIN rows) /\ Cardinality(DOMAIN rows) = Len(rows)
    <2> DEFINE n == Len(rows)
    <2>1. n \in Nat
      BY <1>1
    <2> HIDE DEF n
    <2>2. IsFiniteSet(1..n) /\ Cardinality(1..n) = n
      BY <2>1, FS_Interval
    <2> QED
      BY <1>1, <2>2 DEF n
  <1>3. Before(rows, i) \subseteq DOMAIN rows /\ i \notin Before(rows, i)
    BY BeforeOrders
  <1>4. IsFiniteSet(Before(rows, i)) /\ Rank(rows, i) <= Len(rows) /\ Rank(rows, i) # Len(rows)
    BY <1>2, <1>3, FS_Subset DEF Rank
  <1>5. Rank(rows, i) \in Nat
    BY <1>4, FS_CardinalityType DEF Rank
  <1> QED
    BY <1>1, <1>4, <1>5

LEMMA RanksDiffer ==
  ASSUME NEW rows \in Seq(StepRows), NEW i \in DOMAIN rows, NEW j \in DOMAIN rows,
         i \in Before(rows, j)
  PROVE  Rank(rows, i) # Rank(rows, j)
  <1>1. Before(rows, i) \subseteq Before(rows, j) /\ Before(rows, i) # Before(rows, j)
    BY BeforeOrders
  <1>2. IsFiniteSet(Before(rows, j))
    BY RankType
  <1> QED
    BY <1>1, <1>2, FS_Subset DEF Rank

LEMMA EveryRankTaken ==
  ASSUME NEW rows \in Seq(StepRows), NEW n \in DOMAIN rows
  PROVE  \E i \in DOMAIN rows : Rank(rows, i) = n - 1
  <1> DEFINE d == DOMAIN rows
             f == [i \in d |-> Rank(rows, i) + 1]
  <1>1. Len(rows) \in Nat /\ d = 1..Len(rows)
    OBVIOUS
  <1>2. f \in [d -> d]
    BY <1>1, RankType
  <1>3. \A i, j \in d : i # j => f[i] # f[j]
    <2> SUFFICES ASSUME NEW i \in d, NEW j \in d, i # j PROVE f[i] # f[j]
      OBVIOUS
    <2>1. i \in Before(rows, j) \/ j \in Before(rows, i)
      BY BeforeOrders
    <2>2. Rank(rows, i) # Rank(rows, j) /\ Rank(rows, i) \in Nat /\ Rank(rows, j) \in Nat
      BY <1>1, <2>1, RanksDiffer, RankType
    <2> QED
      BY <2>2
  <1>4. IsFiniteSet(d)
    BY <1>1, FS_Interval
  <1>5. n \in d /\ \A i \in d : f[i] = Rank(rows, i) + 1 /\ Rank(rows, i) \in Nat
    BY <1>1, RankType
  <1> HIDE DEF f, d
  <1>6. f \in Injection(d, d)
    BY <1>2, <1>3, Zenon DEF Injection, IsInjective
  <1>7. f \in Surjection(d, d)
    BY <1>4, <1>6, FS_Injection
  <1>8. \E i \in d : f[i] = n
    BY <1>5, <1>7 DEF Surjection
  <1> QED
    BY <1>5, <1>8 DEF d

LEMMA SortKeeps ==
  ASSUME NEW rows \in Seq(StepRows)
  PROVE  SortSteps(rows) \in Seq(StepRows) /\ Rearranged(SortSteps(rows), rows)
  <1> DEFINE d == DOMAIN rows
             at == [n \in d |-> CHOOSE i \in d : Rank(rows, i) = n - 1]
  <1>1. Len(rows) \in Nat /\ d = 1..Len(rows) /\ \A n \in d : rows[n] \in StepRows
    OBVIOUS
  <1>2. \A n \in d : at[n] \in d /\ Rank(rows, at[n]) = n - 1
    BY EveryRankTaken
  <1>3. SortSteps(rows) = [n \in d |-> rows[at[n]]]
    BY DEF SortSteps, Rank
  <1>4. at \in [d -> d]
    BY <1>2
  <1>5. \A i \in d : Rank(rows, i) \in 0..(Len(rows) - 1)
    BY RankType
  <1>6. \A i, j \in d : Rank(rows, i) = Rank(rows, j) => i = j
    BY BeforeOrders, RanksDiffer
  <1> HIDE DEF at, d
  <1>7. SortSteps(rows) \in Seq(StepRows)
    BY <1>1, <1>3, <1>4
  <1>8. \A m, n \in d : at[m] = at[n] => m = n
    BY <1>1, <1>2
  <1>9. \A i \in d : \E n \in d : at[n] = i
    <2> SUFFICES ASSUME NEW i \in d PROVE \E n \in d : at[n] = i
      OBVIOUS
    <2>1. Rank(rows, i) + 1 \in d /\ Rank(rows, i) \in Nat
      BY <1>1, <1>5
    <2>2. Rank(rows, at[Rank(rows, i) + 1]) = Rank(rows, i)
      BY <1>2, <2>1
    <2> QED
      BY <1>2, <1>6, <2>1, <2>2
  <1>10. DOMAIN SortSteps(rows) = d /\ \A n \in d : SortSteps(rows)[n] = rows[at[n]]
    BY <1>3
  <1> QED
    BY <1>4, <1>7, <1>8, <1>9, <1>10 DEF Rearranged, d

----------------------------------------------------------------------------
(* What is shown and sent.                                                   *)

Shown ==
    [status : ExecStatuses, result : BOOLEAN, error : BOOLEAN, steps : Seq(StepRows),
     logs : SUBSET LogRows, again : SUBSET LogRows]

Updates == [type : {"execution_update"}, status : ExecStatuses, result : BOOLEAN, error : BOOLEAN]

Messages ==
    [type : {"snapshot"}, execution : Shown] \cup Updates
        \cup [type : {"step_update"}, step : StepRows] \cup [type : {"log"}, log : LogRows]

\* Key and attempt tell the rows apart.
OncePerAttempt(rows) ==
    \A i, j \in DOMAIN rows :
        rows[i].key = rows[j].key /\ rows[i].attempt = rows[j].attempt => i = j

Sound(v) == v \in Shown /\ OncePerAttempt(v.steps) /\ v.again \subseteq v.logs

LiveInv ==
    /\ endpoint \in {"none", "accepted", "readSteps", "readLogs", "sent", "subscribed"}
    /\ socket \in {"connecting", "open", "done"}
    /\ drops \in 0..MaxDrops
    /\ Sound(view)
    /\ Sound(snapshot) /\ snapshot.again = {}
    /\ inbox \in Seq(Messages)
    /\ \A i \in DOMAIN inbox : inbox[i].type = "snapshot" => Sound(inbox[i].execution)
    /\ socket # "open" => endpoint = "none" /\ inbox = <<>>

LEMMA RowsType ==
  /\ StepLines \subseteq {"started", "failed", "completed"}
  /\ \A k \in Keys, a \in Attempts, s \in {"running", "succeeded", "failed"} :
        [key |-> k, attempt |-> a, status |-> s] \in StepRows
  /\ \A k \in Keys, a \in Attempts, l \in StepLines :
        [key |-> k, attempt |-> a, line |-> l] \in LogRows
  /\ \A l \in ExecLines : [key |-> None, attempt |-> 0, line |-> l] \in LogRows
  BY DEF StepRows, StepStatuses, LogRows, StepLogs, ExecLogs, StepLines

LEMMA EventType ==
  ASSUME TypeInv, NEW w \in Workers, pc[w] \in PublishPcs
  PROVE  EventOf(w) \in Messages
  <1> USE DEF PublishPcs
  <1>1. job[w] \in Executions
    BY BusyHasJob DEF TypeInv, TypeOK
  <1>2. CASE pc[w] \in {"pubRunning", "pubRetrying", "pubGaveUp", "pubDone"}
    <2>1. EventOf(w) = StatusEvent(w)
      BY <1>2 DEF EventOf
    <2>2. StatusEvent(w) \in Updates
      BY <1>1 DEF StatusEvent, Updates, TypeInv, TypeOK
    <2> QED
      BY <2>1, <2>2 DEF Messages
  <1>3. CASE pc[w] \in {"pubStarted", "pubLogDone"}
    <2>1. \E l \in ExecLines : EventOf(w) = ExecLogEvent(l)
      BY <1>3 DEF EventOf, ExecLines
    <2>2. PICK row \in LogRows : EventOf(w) = [type |-> "log", log |-> row]
      BY <2>1, RowsType DEF ExecLogEvent
    <2> QED
      BY <2>2 DEF Messages
  <1>4. CASE pc[w] \in {"pubStep", "pubFailed", "pubSucceeded", "pubLogStarted", "pubLogFailed",
                        "pubLogCompleted"}
    <2>1. Key(stage[w]) \in Keys /\ attempt[w] \in Attempts
      BY <1>4, RowType DEF StagePcs, OpenPcs, FailedPcs, DonePcs
    <2>2. CASE pc[w] \in {"pubStep", "pubFailed", "pubSucceeded"}
      <3>1. \E s \in {"running", "succeeded", "failed"} : EventOf(w) = StepEvent(w, s)
        BY <2>2 DEF EventOf
      <3>2. PICK row \in StepRows : EventOf(w) = [type |-> "step_update", step |-> row]
        BY <2>1, <3>1, RowsType DEF StepEvent
      <3> QED
        BY <3>2 DEF Messages
    <2>3. CASE pc[w] \in {"pubLogStarted", "pubLogFailed", "pubLogCompleted"}
      <3>1. \E l \in StepLines : EventOf(w) = StepLogEvent(w, l)
        BY <2>3 DEF EventOf, StepLines
      <3>2. PICK row \in LogRows : EventOf(w) = [type |-> "log", log |-> row]
        BY <2>1, <3>1, RowsType DEF StepLogEvent
      <3> QED
        BY <3>2 DEF Messages
    <2> QED
      BY <1>4, <2>2, <2>3
  <1> QED
    BY <1>2, <1>3, <1>4

LEMMA EventIsDelta ==
  ASSUME NEW w \in Workers, pc[w] \in PublishPcs
  PROVE  EventOf(w).type \in {"execution_update", "step_update", "log"}
  BY DEF PublishPcs, EventOf, StatusEvent, StepEvent, StepLogEvent, ExecLogEvent

LEMMA RowIs ==
  ASSUME NEW r \in StepRows, NEW q \in StepRows,
         r.key = q.key, r.attempt = q.attempt, r.status = q.status
  PROVE  r = q
  <1>1. ASSUME NEW p \in StepRows
        PROVE  p = [key |-> p.key, attempt |-> p.attempt, status |-> p.status]
    BY DEF StepRows
  <1> QED
    BY <1>1

\* Only finitely many rows are committed, whatever the keys: the rows are those of
\* the workflow's stages.
LEMMA CommittedStepsFinite ==
  ASSUME TypeInv, StagesInOrder
  PROVE  IsFiniteSet(CommittedSteps) /\ Cardinality(CommittedSteps) \in Nat
  <1> DEFINE places == StageKeySet \X Attempts
             place == [r \in CommittedSteps |-> <<r.key, r.attempt>>]
  <1>1. IsFiniteSet(places)
    BY StageRowsFinite
  <1>2. ASSUME NEW r \in CommittedSteps
        PROVE  /\ r \in StepRows /\ r.status = steps[Watched][r.key][r.attempt]
               /\ <<r.key, r.attempt>> \in places
    <2>1. /\ r.key \in Keys /\ r.attempt \in Attempts /\ r.status # "absent"
          /\ r.status = steps[Watched][r.key][r.attempt]
      BY <1>2 DEF CommittedSteps, StepRows
    <2>2. r.key \in StageKeySet
      BY <2>1, LiveProgressAssumption DEF LiveProgressAssumption, StagesInOrder, StageKeySet
    <2> QED
      BY <1>2, <2>1, <2>2 DEF CommittedSteps
  <1>3. place \in [CommittedSteps -> places]
    BY <1>2
  <1>4. \A r, q \in CommittedSteps : r # q => place[r] # place[q]
    <2> SUFFICES ASSUME NEW r \in CommittedSteps, NEW q \in CommittedSteps,
                        r.key = q.key, r.attempt = q.attempt
                 PROVE  r = q
      OBVIOUS
    <2>1. r.status = q.status
      BY <1>2
    <2> QED
      BY <1>2, <2>1, RowIs
  <1> HIDE DEF place, places
  <1>5. place \in Injection(CommittedSteps, places)
    BY <1>3, <1>4, Zenon DEF Injection, IsInjective
  <1> QED
    BY <1>1, <1>5, FS_Injection, FS_CardinalityType

LEMMA SortOnce ==
  ASSUME NEW rows \in Seq(StepRows), OncePerAttempt(rows)
  PROVE  SortSteps(rows) \in Seq(StepRows) /\ OncePerAttempt(SortSteps(rows))
  <1> DEFINE new == SortSteps(rows)
  <1>1. new \in Seq(StepRows) /\ Rearranged(new, rows)
    BY SortKeeps
  <1> HIDE DEF new
  <1>2. PICK at \in [DOMAIN rows -> DOMAIN rows] :
           /\ \A n \in DOMAIN rows : new[n] = rows[at[n]]
           /\ \A m, n \in DOMAIN rows : at[m] = at[n] => m = n
    BY <1>1 DEF Rearranged
  <1>3. DOMAIN new = DOMAIN rows
    BY <1>1 DEF Rearranged
  <1>4. OncePerAttempt(new)
    BY <1>2, <1>3 DEF OncePerAttempt
  <1> QED
    BY <1>1, <1>4 DEF new

LEMMA MergeOnce ==
  ASSUME NEW rows \in Seq(StepRows), OncePerAttempt(rows), NEW row \in StepRows
  PROVE  MergeSteps(rows, row) \in Seq(StepRows) /\ OncePerAttempt(MergeSteps(rows, row))
  <1> DEFINE same == {i \in DOMAIN rows : rows[i].key = row.key /\ rows[i].attempt = row.attempt}
  <1>1. CASE same = {}
    <2> DEFINE new == Append(rows, row)
    <2>1. MergeSteps(rows, row) = SortSteps(new)
      BY <1>1 DEF MergeSteps
    <2>2. new \in Seq(StepRows) /\ OncePerAttempt(new)
      BY <1>1 DEF OncePerAttempt
    <2> HIDE DEF new
    <2> QED
      BY <2>1, <2>2, SortOnce
  <1>2. CASE same # {}
    <2> DEFINE at == CHOOSE i \in same : \A j \in same : i <= j
               new == [rows EXCEPT ![at] = row]
    <2>1. MergeSteps(rows, row) = SortSteps(new)
      BY <1>2 DEF MergeSteps
    <2>2. PICK i \in same : \A j \in same : i = j
      BY <1>2 DEF OncePerAttempt
    <2>3. at \in same
      BY <2>2
    <2> HIDE DEF at
    <2>4. new \in Seq(StepRows) /\ DOMAIN new = DOMAIN rows
      BY <2>3
    <2>5. OncePerAttempt(new)
      BY <2>3, <2>4 DEF OncePerAttempt
    <2> HIDE DEF new
    <2> QED
      BY <2>1, <2>4, <2>5, SortOnce
  <1> QED
    BY <1>1, <1>2

----------------------------------------------------------------------------
(* Every step keeps what is shown and sent sound.                            *)

LEMMA BlankSound == Sound(Blank) /\ Blank.again = {}
  <1>1. Blank \in Shown
    BY DEF Blank, Shown, ExecStatuses
  <1>2. OncePerAttempt(<<>>)
    BY DEF OncePerAttempt
  <1> QED
    BY <1>1, <1>2 DEF Sound, Blank

LEMMA AppliedSound ==
  ASSUME NEW v, Sound(v), NEW m \in Messages, m.type = "snapshot" => Sound(m.execution)
  PROVE  Sound(Apply(v, m))
  <1>1. CASE m.type = "snapshot"
    <2>1. Apply(v, m) = [m.execution EXCEPT !.steps = SortSteps(m.execution.steps)]
      BY <1>1 DEF Apply
    <2>2. m.execution \in Shown /\ m.execution.steps \in Seq(StepRows)
      BY <1>1 DEF Sound, Shown
    <2>3. /\ SortSteps(m.execution.steps) \in Seq(StepRows)
          /\ OncePerAttempt(SortSteps(m.execution.steps))
      BY <1>1, <2>2, SortOnce DEF Sound
    <2> QED
      BY <1>1, <2>1, <2>2, <2>3 DEF Sound, Shown
  <1>2. CASE m.type = "execution_update"
    <2>1. Apply(v, m) = [v EXCEPT !.status = m.status, !.result = m.result, !.error = m.error]
      BY <1>2 DEF Apply
    <2>2. m.status \in ExecStatuses /\ m.result \in BOOLEAN /\ m.error \in BOOLEAN
      BY <1>2 DEF Messages, Updates
    <2> QED
      BY <2>1, <2>2 DEF Sound, Shown
  <1>3. CASE m.type = "step_update"
    <2>1. Apply(v, m) = [v EXCEPT !.steps = MergeSteps(v.steps, m.step)]
      BY <1>3 DEF Apply
    <2>2. m.step \in StepRows
      BY <1>3 DEF Messages, Updates
    <2>3. /\ MergeSteps(v.steps, m.step) \in Seq(StepRows)
          /\ OncePerAttempt(MergeSteps(v.steps, m.step))
      BY <2>2, MergeOnce DEF Sound, Shown
    <2> QED
      BY <2>1, <2>3 DEF Sound, Shown
  <1>4. CASE m.type = "log"
    <2> DEFINE logs2  == v.logs \cup {m.log}
               again2 == v.again \cup (v.logs \cap {m.log})
    <2>1. Apply(v, m) = [v EXCEPT !.logs = logs2, !.again = again2]
      BY <1>4 DEF Apply, AddLine
    <2>2. m.log \in LogRows
      BY <1>4 DEF Messages, Updates
    <2>3. logs2 \in SUBSET LogRows /\ again2 \in SUBSET LogRows /\ again2 \subseteq logs2
      BY <2>2 DEF Sound, Shown
    <2> HIDE DEF logs2, again2
    <2> QED
      BY <2>1, <2>3 DEF Sound, Shown
  <1> QED
    BY <1>1, <1>2, <1>3, <1>4 DEF Messages, Updates

LEMMA ClosedKeeps ==
  ASSUME LiveInv, Closed, UNCHANGED view, drops' \in 0..MaxDrops
  PROVE  LiveInv'
  BY BlankSound DEF LiveInv, Closed

\* What the second SELECT can return.
LEMMA SelectedRows ==
  ASSUME TypeInv, StagesInOrder, NEW rows \in SetToSeqs(CommittedSteps)
  PROVE  /\ rows \in Seq(StepRows) /\ OncePerAttempt(rows)
         /\ \A i \in DOMAIN rows : rows[i] \in CommittedSteps
  <1> DEFINE n == Cardinality(CommittedSteps)
  <1>1. n \in Nat
    BY CommittedStepsFinite
  <1>2. rows \in [1..n -> CommittedSteps] /\ \A i, j \in 1..n : i # j => rows[i] # rows[j]
    BY DEF SetToSeqs
  <1>3. CommittedSteps \subseteq StepRows
    BY DEF CommittedSteps
  <1> HIDE DEF n
  <1>4. rows \in Seq(StepRows) /\ DOMAIN rows = 1..n
    BY <1>1, <1>2, <1>3
  <1>5. OncePerAttempt(rows)
    <2> SUFFICES ASSUME NEW i \in 1..n, NEW j \in 1..n,
                        rows[i].key = rows[j].key, rows[i].attempt = rows[j].attempt
                 PROVE  i = j
      BY <1>4 DEF OncePerAttempt
    <2>1. rows[i] \in CommittedSteps /\ rows[j] \in CommittedSteps
      BY <1>2
    <2>2. rows[i].status = rows[j].status
      BY <2>1 DEF CommittedSteps
    <2>3. rows[i] = rows[j]
      BY <1>3, <2>1, <2>2, RowIs
    <2> QED
      BY <1>2, <2>3
  <1> QED
    BY <1>2, <1>4, <1>5

LEMMA LiveStep ==
  ASSUME TypeInv, StagesInOrder, LiveInv, [LiveNext]_allVars
  PROVE  LiveInv'
  <1>1. CASE UNCHANGED liveVars
    BY <1>1 DEF LiveInv, liveVars
  <1>2. ASSUME NEW w \in Workers, PublishEvent(w) PROVE LiveInv'
    <2>1. EventOf(w) \in Messages /\ (EventOf(w).type = "snapshot" => FALSE)
      BY <1>2, EventType, EventIsDelta DEF PublishEvent, Publish
    <2>2. CASE inbox' = inbox
      BY <1>2, <2>2 DEF PublishEvent, LiveInv
    <2>3. CASE inbox' = Append(inbox, EventOf(w)) /\ endpoint = "subscribed"
      BY <1>2, <2>1, <2>3 DEF PublishEvent, LiveInv
    <2> QED
      BY <1>2, <2>2, <2>3 DEF PublishEvent, Forwards
  <1>3. CASE Connect
    BY <1>3 DEF Connect, LiveInv
  <1>4. CASE ReadExecution
    <2>1. CASE Committed(Watched)
      <3>1. exec[Watched].status \in ExecStatuses /\ exec[Watched].result \in BOOLEAN
            /\ exec[Watched].error \in BOOLEAN
        BY LiveProgressAssumption DEF LiveProgressAssumption, TypeInv, TypeOK
      <3>2. Sound(snapshot') /\ snapshot'.again = {}
        BY <1>4, <2>1, <3>1 DEF ReadExecution, LiveInv, Sound, Shown
      <3> QED
        BY <1>4, <2>1, <3>2 DEF ReadExecution, LiveInv
    <2>2. CASE ~Committed(Watched)
      BY <1>4, <2>2, ClosedKeeps DEF ReadExecution, LiveInv
    <2> QED
      BY <2>1, <2>2
  <1>5. CASE ReadSteps
    <2>1. PICK rows \in SetToSeqs(CommittedSteps) : snapshot' = [snapshot EXCEPT !.steps = rows]
      BY <1>5 DEF ReadSteps
    <2>2. rows \in Seq(StepRows) /\ OncePerAttempt(rows)
      BY SelectedRows
    <2>3. Sound(snapshot') /\ snapshot'.again = {}
      BY <2>1, <2>2 DEF LiveInv, Sound, Shown
    <2> QED
      BY <1>5, <2>3 DEF ReadSteps, LiveInv
  <1>6. CASE SendSnapshot
    <2> DEFINE x == [snapshot EXCEPT !.logs = CommittedLogs]
               m == [type |-> "snapshot", execution |-> x]
    <2>1. Sound(x) /\ x \in Shown
      BY DEF LiveInv, Sound, Shown, CommittedLogs
    <2>2. inbox' = Append(inbox, m)
      BY <1>6 DEF SendSnapshot
    <2> HIDE DEF x
    <2>3. m \in Messages /\ m.execution = x
      BY <2>1 DEF Messages
    <2> HIDE DEF m
    <2> QED
      BY <1>6, <2>1, <2>2, <2>3, BlankSound DEF SendSnapshot, LiveInv
  <1>7. CASE Subscribe
    BY <1>7 DEF Subscribe, LiveInv
  <1>8. CASE Drop
    <2>1. drops' \in 0..MaxDrops
      BY <1>8, LiveProgressAssumption DEF LiveProgressAssumption, Drop, LiveInv
    <2> QED
      BY <1>8, <2>1, ClosedKeeps DEF Drop
  <1>9. CASE Receive
    <2>1. Head(inbox) \in Messages /\ Head(inbox) = inbox[1] /\ 1 \in DOMAIN inbox
      BY <1>9 DEF Receive, LiveInv
    <2>2. Sound(view')
      BY <1>9, <2>1, AppliedSound DEF Receive, LiveInv
    <2>3. /\ inbox' \in Seq(Messages)
          /\ \A i \in DOMAIN inbox' : i + 1 \in DOMAIN inbox /\ inbox'[i] = inbox[i + 1]
      BY <1>9 DEF Receive, LiveInv
    <2> QED
      BY <1>9, <2>2, <2>3 DEF Receive, LiveInv
  <1> QED
    BY <1>1, <1>2, <1>3, <1>4, <1>5, <1>6, <1>7, <1>8, <1>9
       DEF LiveNext, SilentStep, EndpointStep, Rest, allVars

LEMMA LiveInvariant == LiveSpec => []LiveInv
  <1>1. LiveInit => LiveInv
    BY BlankSound, LiveProgressAssumption DEF LiveProgressAssumption, LiveInit, LiveInv
  <1>2. TypeInv /\ StagesInOrder /\ LiveInv /\ [LiveNext]_allVars => LiveInv'
    BY LiveStep
  <1> QED
    BY <1>1, <1>2, PageOnlyWatches, TypeInvariant, StagesAlwaysInOrder, PTL DEF LiveSpec

\* Every variable of endpoint, socket and page stays in its range, and nothing is
\* on its way to a browser whose connection is closed.
THEOREM LiveTypeCorrect == LiveSpec => []LiveTypeOK
  <1>1. LiveInv => LiveTypeOK
    BY DEF LiveInv, LiveTypeOK, Sound, Shown, Messages, Updates
  <1> QED
    BY <1>1, LiveInvariant, PTL

\* The timeline tells its rows apart: mergeSteps finds the row of an attempt in
\* whatever order a snapshot has brought the rows.
THEOREM TimelineKeysDiffer == LiveSpec => []OneRowPerAttempt
  <1>1. LiveInv => OneRowPerAttempt
    BY DEF LiveInv, Sound, OncePerAttempt, OneRowPerAttempt, TimelineKeys, IsInjective
  <1> QED
    BY <1>1, LiveInvariant, PTL

----------------------------------------------------------------------------
(* What is told is so, while nothing is delivered twice.  First, about the   *)
(* runs: what one is about to publish is committed, and a line is written by *)
(* nobody else.                                                              *)

RowLines(w) == logs[job[w]][Key(stage[w])][attempt[w]]

Publishable(w) ==
    /\ pc[w] \in ClosingPcs => seen[w] \in Terminal /\ exec[job[w]].status = seen[w]
    /\ pc[w] = "pubLogStarted"   => "started" \in RowLines(w)
    /\ pc[w] = "pubLogFailed"    => "failed" \in RowLines(w)
    /\ pc[w] = "pubLogCompleted" => "completed" \in RowLines(w)
    /\ pc[w] = "pubLogDone"      => "completed" \in execLog[job[w]]

Unwritten(w) ==
    /\ pc[w] \in {"pubStep", "logStarted"}        => "started" \notin RowLines(w)
    /\ pc[w] \in {"pubFailed", "logFailed"}       => "failed" \notin RowLines(w)
    /\ pc[w] \in {"pubSucceeded", "logCompleted"} => "completed" \notin RowLines(w)

ExecLinesAt(e) ==
    /\ "started" \in execLog[e] => exec[e].status \notin {"none", "queued"}
    /\ "completed" \in execLog[e] =>
          Settled(e) /\ \A w \in Workers : Runs(w, e) => pc[w] = "pubLogDone"

PublishInv ==
    /\ \A w \in Workers : Publishable(w) /\ Unwritten(w)
    /\ \A e \in Executions : ExecLinesAt(e)

LEMMA NextMoves ==
  ASSUME TypeInv, [Next]_vars, NEW w \in Workers, ~Moves(w)
  PROVE  Still(w) /\ seen'[w] = seen[w]
  <1>1. CASE \E v \in Workers : Moves(v)
    BY <1>1, OthersStill, OthersSeen
  <1>2. CASE UNCHANGED workerVars
    BY <1>2 DEF workerVars, Still
  <1> QED
    BY <1>1, <1>2, NextCases

\* How a run comes to where it publishes or writes a line.
LEMMA ComesFrom ==
  ASSUME TypeInv, NoneLeft, NEW w \in Workers, Moves(w)
  PROVE  /\ pc'[w] = "pubStep"         => CreateStep(w)
         /\ pc'[w] = "logStarted"      => Publish(w) /\ pc[w] = "pubStep"
         /\ pc'[w] = "pubLogStarted"   => LogLine(w) /\ pc[w] = "logStarted"
         /\ pc'[w] = "pubFailed"       => RunStage(w)
         /\ pc'[w] = "logFailed"       => Publish(w) /\ pc[w] = "pubFailed"
         /\ pc'[w] = "pubLogFailed"    => LogLine(w) /\ pc[w] = "logFailed"
         /\ pc'[w] = "pubSucceeded"    => RunStage(w)
         /\ pc'[w] = "logCompleted"    => Publish(w) /\ pc[w] = "pubSucceeded"
         /\ pc'[w] = "pubLogCompleted" => LogLine(w) /\ pc[w] = "logCompleted"
         /\ pc'[w] = "pubLogDone"      => LogCompleted(w)
         /\ pc'[w] = "pubStarted"      => Publish(w) /\ pc[w] = "pubRunning"
         /\ pc'[w] \in ClosingPcs      => MarkFailed(w) \/ MarkSucceeded(w) \/ pc[w] \in ClosingPcs
  <1> USE DEF TypeInv, TypeOK, Goto, ClosingPcs
  <1>1. CASE Fault(w)
    BY <1>1, NoRedelivery DEF Fault, LoseChild, Exception
  <1>2. CASE \E e \in Executions : Deliver(w, e)
    BY <1>2, DeliverFrame
  <1>3. CASE Publish(w)
    BY <1>3 DEF Publish, AfterPublish, PublishPcs
  <1>4. CASE LogLine(w)
    BY <1>4 DEF LogLine, AfterLog, LogPcs
  <1>5. CASE CreateStep(w) \/ RunStage(w)
    BY <1>5 DEF CreateStep, RunStage
  <1>6. CASE MarkRetrying(w) \/ MarkFailed(w) \/ MarkSucceeded(w) \/ LogCompleted(w)
    BY <1>6 DEF MarkRetrying, MarkFailed, MarkSucceeded, LogCompleted
  <1>7. CASE Load(w) \/ BeginRun(w) \/ CommitStart(w)
    BY <1>7 DEF Load, BeginRun, CommitStart
  <1>8. CASE CheckStage(w) \/ NextAttempt(w) \/ AutoRetry(w) \/ Ack(w)
    BY <1>8 DEF CheckStage, NextAttempt, AutoRetry, Ack
  <1> QED
    BY <1>1, <1>2, <1>3, <1>4, <1>5, <1>6, <1>7, <1>8 DEF Moves, WorkerStep

\* Which statements write a log line.
LEMMA LogWriters ==
  ASSUME [Next]_vars
  PROVE  \/ execLog' = execLog /\ logs' = logs
         \/ \E w \in Workers : CommitStart(w) \/ LogCompleted(w)
         \/ execLog' = execLog /\ \E w \in Workers : LogLine(w)
  <1>1. ASSUME NEW w \in Workers, WorkerStep(w)
        PROVE  \/ execLog' = execLog /\ logs' = logs
               \/ CommitStart(w) \/ LogCompleted(w)
               \/ execLog' = execLog /\ LogLine(w)
    <2>1. CASE Load(w) \/ BeginRun(w) \/ Publish(w) \/ CheckStage(w) \/ NextAttempt(w)
      BY <2>1 DEF Load, BeginRun, Publish, CheckStage, NextAttempt, dbVars
    <2>2. CASE CreateStep(w) \/ RunStage(w) \/ AutoRetry(w) \/ Ack(w)
      BY <2>2 DEF CreateStep, RunStage, AutoRetry, Ack, dbVars
    <2>3. CASE MarkRetrying(w) \/ MarkFailed(w) \/ MarkSucceeded(w)
      BY <2>3 DEF MarkRetrying, MarkFailed, MarkSucceeded, WriteStatus
    <2>4. CASE LogLine(w)
      BY <2>4 DEF LogLine
    <2> QED
      BY <1>1, <2>1, <2>2, <2>3, <2>4 DEF WorkerStep
  <1>2. ASSUME NEW w \in Workers, Fault(w) PROVE execLog' = execLog /\ logs' = logs
    BY <1>2 DEF Fault, dbVars, Crash, Disconnect, LoseChild, Exception
  <1>3. ASSUME NEW e \in Executions,
               \/ CreateExecution(e) \/ ApiStep(e) \/ AbortTrigger(e)
               \/ \E w \in Workers : Deliver(w, e)
        PROVE  execLog' = execLog /\ logs' = logs
    BY <1>3 DEF ApiStep, dbVars, CreateExecution, SendTask, CommitTrigger, AbortTrigger, Deliver
  <1>4. Quiescent \/ UNCHANGED vars => execLog' = execLog /\ logs' = logs
    BY DEF Quiescent, vars, dbVars
  <1> QED
    BY <1>1, <1>2, <1>3, <1>4 DEF Next

LEMMA ExecLogFrame ==
  ASSUME TypeInv, [Next]_vars, NEW e \in Executions, NEW l \in execLog'[e], l \notin execLog[e]
  PROVE  \E w \in Workers :
            /\ job[w] = e
            /\ \/ CommitStart(w) /\ l = "started"
               \/ LogCompleted(w) /\ l = "completed"
  <1> USE DEF TypeInv, TypeOK
  <1>1. PICK w \in Workers : CommitStart(w) \/ LogCompleted(w)
    BY LogWriters
  <1>2. job[w] \in Executions /\ job[w] # None
    BY <1>1, BusyHasJob, ConstantsType DEF WorkerStep
  <1>3. ASSUME NEW m, execLog' = [execLog EXCEPT ![job[w]] = @ \cup {m}]
        PROVE  e = job[w] /\ l = m
    <2>1. DOMAIN execLog = Executions
      OBVIOUS
    <2>2. execLog'[e] = IF e = job[w] THEN execLog[e] \cup {m} ELSE execLog[e]
      BY <1>2, <1>3, <2>1
    <2> QED
      BY <2>2
  <1>4. CASE CommitStart(w)
    <2>1. execLog' = [execLog EXCEPT ![job[w]] = @ \cup {"started"}]
      BY <1>4, Zenon DEF CommitStart
    <2>2. e = job[w] /\ l = "started"
      BY <1>3, <2>1
    <2> QED
      BY <1>4, <2>2
  <1>5. CASE LogCompleted(w)
    <2>1. execLog' = [execLog EXCEPT ![job[w]] = @ \cup {"completed"}]
      BY <1>5, Zenon DEF LogCompleted
    <2>2. e = job[w] /\ l = "completed"
      BY <1>3, <2>1
    <2> QED
      BY <1>5, <2>2
  <1> QED
    BY <1>1, <1>4, <1>5

LEMMA LinesStay ==
  ASSUME TypeInv, [Next]_vars
  PROVE  /\ \A e \in Executions : execLog[e] \subseteq execLog'[e]
         /\ \A e \in Executions, k \in Keys, a \in Attempts : logs[e][k][a] \subseteq logs'[e][k][a]
  <1> USE DEF TypeInv, TypeOK
  <1>1. CASE execLog' = execLog /\ logs' = logs
    BY <1>1
  <1>2. ASSUME NEW w \in Workers, CommitStart(w) \/ LogCompleted(w) \/ LogLine(w)
        PROVE  /\ \A e \in Executions : execLog[e] \subseteq execLog'[e]
               /\ \A e \in Executions, k \in Keys, a \in Attempts :
                     logs[e][k][a] \subseteq logs'[e][k][a]
    <2>1. CASE CommitStart(w) \/ LogCompleted(w)
      <3>1. PICK m : execLog' = [execLog EXCEPT ![job[w]] = @ \cup {m}]
        BY <2>1 DEF CommitStart, LogCompleted
      <3>2. logs' = logs
        BY <2>1 DEF CommitStart, LogCompleted, dbVars
      <3> QED
        BY <3>1, <3>2
    <2>2. CASE LogLine(w)
      <3>1. PICK m : logs' = [logs EXCEPT ![job[w]][Key(stage[w])][attempt[w]] = @ \cup {m}]
        BY <2>2 DEF LogLine
      <3>2. execLog' = execLog
        BY <2>2 DEF LogLine
      <3> QED
        BY <3>1, <3>2
    <2> QED
      BY <1>2, <2>1, <2>2
  <1>3. \/ execLog' = execLog /\ logs' = logs
        \/ \E w \in Workers : CommitStart(w) \/ LogCompleted(w) \/ LogLine(w)
    BY LogWriters
  <1> QED
    BY <1>1, <1>2, <1>3

\* A finished execution is written no more.
LEMMA FinishedStays ==
  ASSUME TypeInv, CarryInv, DeliveryInv, [Next]_vars, NEW e \in Executions, Settled(e)
  PROVE  exec'[e] = exec[e]
  <1> SUFFICES ASSUME exec'[e] # exec[e] PROVE FALSE
    OBVIOUS
  <1>1. CASE CommitTrigger(e)
    BY <1>1 DEF CommitTrigger, CarryInv, CommittedFirst, Settled, Terminal
  <1>2. ASSUME NEW w \in Workers, job[w] = e,
               CommitStart(w) \/ MarkRetrying(w) \/ MarkFailed(w) \/ MarkSucceeded(w)
        PROVE  FALSE
    BY <1>2, WritersRun, UnsettledWhileRunning DEF DeliveryInv
  <1> QED
    BY <1>1, <1>2, RowFrame

\* Whoever has the execution is alone with its rows.
LEMMA OwnLines ==
  ASSUME TypeInv, DeliveryInv, [Next]_vars, NEW w \in Workers, ~LogLine(w),
         pc[w] \in StagePcs \ {"number"}
  PROVE  logs'[job[w]][Key(stage[w])][attempt[w]] = RowLines(w)
  <1>1. /\ job[w] \in Executions /\ Key(stage[w]) \in Keys /\ attempt[w] \in Attempts
    BY RowType
  <1>2. ASSUME NEW v \in Workers, LogLine(v), job[v] = job[w] PROVE FALSE
    <2>1. Runs(v, job[w]) /\ Runs(w, job[w])
      BY <1>2 DEF Runs, LogLine, RunPcs, DbPcs, PublishPcs, LogPcs, StagePcs, OpenPcs, FailedPcs,
                  DonePcs
    <2>2. v = w
      BY <1>1, <2>1 DEF DeliveryInv, MessageAlone
    <2> QED
      BY <1>2, <2>2
  <1>3. \A l \in logs'[job[w]][Key(stage[w])][attempt[w]] : l \in RowLines(w)
    BY <1>1, <1>2, LogsFrame DEF RowLines
  <1>4. RowLines(w) \subseteq logs'[job[w]][Key(stage[w])][attempt[w]]
    BY <1>1, LinesStay DEF RowLines
  <1> QED
    BY <1>3, <1>4

LEMMA PublishableStep ==
  ASSUME TypeInv, CarryInv, DeliveryInv, PublishInv, [Next]_vars, NEW w \in Workers
  PROVE  Publishable(w)'
  <1>1. NoneLeft /\ Publishable(w) /\ StatusKnown(w)
    BY DEF DeliveryInv, NoneLeft, PublishInv
  <1>2. pc'[w] \in ClosingPcs => seen'[w] \in Terminal /\ exec'[job'[w]].status = seen'[w]
    <2> SUFFICES ASSUME pc'[w] \in ClosingPcs
                 PROVE  seen'[w] \in Terminal /\ exec'[job'[w]].status = seen'[w]
      OBVIOUS
    <2>1. CASE pc[w] \in ClosingPcs
      <3>1. job'[w] = job[w] /\ seen'[w] = seen[w]
        <4>1. CASE ~Moves(w)
          BY <4>1, NextMoves DEF Still
        <4>2. CASE Moves(w)
          <5>1. Publish(w) \/ LogCompleted(w)
            BY <1>1, <2>1, <4>2, DeliverFrame, NoRedelivery
               DEF Moves, WorkerStep, Fault, LoseChild, Exception, ClosingPcs, Goto, Load, BeginRun,
                   CommitStart, CheckStage, NextAttempt, CreateStep, LogLine, LogPcs, RunStage,
                   MarkRetrying, MarkFailed, MarkSucceeded, AutoRetry, Ack, Deliver, TypeInv, TypeOK
          <5> QED
            BY <5>1 DEF Publish, LogCompleted, taskVars
        <4> QED
          BY <4>1, <4>2
      <3>2. job[w] \in Executions /\ Settled(job[w])
        BY <1>1, <2>1 DEF Publishable, Settled, TypeInv, TypeOK, ClosingPcs
      <3>3. exec'[job[w]] = exec[job[w]]
        BY <3>2, FinishedStays
      <3> QED
        BY <1>1, <2>1, <3>1, <3>3 DEF Publishable
    <2>2. CASE pc[w] \notin ClosingPcs
      <3>1. MarkFailed(w) \/ MarkSucceeded(w)
        BY <1>1, <2>2, NextMoves, ComesFrom DEF Still
      <3>2. seen[w] \notin Terminal /\ job[w] \in Executions /\ pc[w] \in {"judge", "check"}
        BY <1>1, <3>1, BusyHasJob
           DEF StatusKnown, MarkFailed, MarkSucceeded, Goto, WorkerStep, LoopPcs, RunPcs, DbPcs,
               StartPcs, ClosingPcs
      <3>3. PICK s \in Terminal : \E r, q \in BOOLEAN : WriteStatus(w, s, r, q)
        BY <3>1 DEF MarkFailed, MarkSucceeded, Terminal
      <3> QED
        BY <3>2, <3>3 DEF WriteStatus, TypeInv, TypeOK
    <2> QED
      BY <2>1, <2>2
  <1>3. CASE ~Moves(w)
    <2>1. Still(w)
      BY <1>3, NextMoves
    <2>2. pc[w] \in DonePcs \cup OpenPcs \cup FailedPcs => RowLines(w) \subseteq RowLines(w)'
      BY <2>1, RowType, LinesStay DEF Still, RowLines, StagePcs, OpenPcs, FailedPcs, DonePcs
    <2>3. pc[w] = "pubLogDone" => execLog[job[w]] \subseteq execLog'[job'[w]]
      BY <2>1, LinesStay DEF Still, TypeInv, TypeOK
    <2> QED
      BY <1>1, <1>2, <2>1, <2>2, <2>3 DEF Publishable, Still, OpenPcs, FailedPcs, DonePcs
  <1>4. CASE Moves(w)
    <2>1. ASSUME LogLine(w) PROVE Line(pc[w]) \in RowLines(w)' /\ pc'[w] = AfterLog(pc[w])
      <3>1. /\ job[w] \in Executions /\ Key(stage[w]) \in Keys /\ attempt[w] \in Attempts
        BY <2>1, RowType DEF LogLine, LogPcs, StagePcs, OpenPcs, FailedPcs, DonePcs
      <3> QED
        BY <2>1, <3>1 DEF LogLine, RowLines, taskVars, TypeInv, TypeOK
    <2>2. ASSUME LogCompleted(w) PROVE "completed" \in execLog'[job'[w]]
      <3>1. job[w] \in Executions
        BY <2>2, BusyHasJob DEF WorkerStep
      <3> QED
        BY <2>2, <3>1 DEF LogCompleted, taskVars, TypeInv, TypeOK
    <2> QED
      BY <1>1, <1>2, <1>4, <2>1, <2>2, ComesFrom DEF Publishable, Line
  <1> QED
    BY <1>3, <1>4

LEMMA UnwrittenStep ==
  ASSUME TypeInv, StepInv, LogsNeverAhead, DeliveryInv, PublishInv, [Next]_vars,
         NEW w \in Workers
  PROVE  Unwritten(w)'
  <1>1. NoneLeft /\ Unwritten(w) /\ RowHeld(w)
    BY DEF DeliveryInv, NoneLeft, PublishInv, StepInv, RunInv
  <1> DEFINE at == {"pubStep", "logStarted", "pubFailed", "logFailed", "pubSucceeded", "logCompleted"}
  <1> SUFFICES ASSUME pc'[w] \in at PROVE Unwritten(w)'
    BY DEF Unwritten
  <1>2. pc[w] \in StagePcs \ {"number"} /\ ~LogLine(w)
    <2>1. CASE ~Moves(w)
      BY <2>1, NextMoves DEF Still, StagePcs, OpenPcs, FailedPcs, DonePcs, Moves, WorkerStep
    <2>2. CASE Moves(w)
      BY <1>1, <2>2, ComesFrom DEF StagePcs, OpenPcs, FailedPcs, DonePcs, CreateStep, RunStage,
                                   Publish, AfterPublish, LogLine, LogPcs, Goto, PublishPcs
    <2> QED
      BY <2>1, <2>2
  <1>3. UNCHANGED <<job[w], stage[w], attempt[w]>>
    <2>1. CASE ~Moves(w)
      BY <2>1, NextMoves DEF Still
    <2>2. CASE Moves(w)
      BY <1>1, <2>2, ComesFrom DEF CreateStep, RunStage, Publish, taskVars, TypeInv, TypeOK
    <2> QED
      BY <2>1, <2>2
  <1>4. RowLines(w)' = RowLines(w)
    BY <1>2, <1>3, OwnLines DEF RowLines
  <1>5. CASE ~Moves(w)
    BY <1>1, <1>4, <1>5, NextMoves DEF Still, Unwritten
  <1>6. CASE Moves(w)
    <2> DEFINE row == steps[job[w]][Key(stage[w])][attempt[w]]
    <2>1. /\ "started"   \in RowLines(w) => row # "absent"
          /\ "failed"    \in RowLines(w) => row = "failed"
          /\ "completed" \in RowLines(w) => row = "succeeded"
      BY <1>2, RowType DEF LogsNeverAhead, RowLines
    <2>2. CreateStep(w) /\ pc'[w] = "pubStep" => row = "absent"
      BY DEF CreateStep, Goto, TypeInv, TypeOK
    <2>3. RunStage(w) => row = "running"
      BY <1>1 DEF RunStage, RowHeld, OpenPcs
    <2> HIDE DEF row
    <2> QED
      BY <1>1, <1>4, <1>6, <2>1, <2>2, <2>3, ComesFrom DEF Unwritten
  <1> QED
    BY <1>5, <1>6

\* A finished execution gets no new run.
LEMMA FinishedRuns ==
  ASSUME TypeInv, DeliveryInv, [Next]_vars, NEW e \in Executions, Settled(e),
         NEW w \in Workers, Runs(w, e)'
  PROVE  Runs(w, e) /\ pc[w] \in ClosingPcs
  <1>1. ~Deliver(w, e)
    BY DeliverFrame DEF DeliveryInv, RowSettled, Waiting
  <1> QED
    BY <1>1, RunsFrame DEF DeliveryInv, RowSettled

LEMMA ExecLinesAtStep ==
  ASSUME TypeInv, CarryInv, DeliveryInv, PublishInv, [Next]_vars, NEW e \in Executions
  PROVE  ExecLinesAt(e)'
  <1>1. ExecLinesAt(e) /\ RowSettled(e) /\ MessageAlone(e)
    BY DEF PublishInv, DeliveryInv
  <1>2. ASSUME "started" \in execLog'[e]
        PROVE  exec'[e].status \notin {"none", "queued"}
    <2>1. CASE "started" \in execLog[e]
      <3>1. ~CommitTrigger(e)
        BY <1>1, <2>1 DEF ExecLinesAt, CommitTrigger, CarryInv, CommittedFirst
      <3> QED
        BY <1>1, <2>1, <3>1, StatusFrame DEF ExecLinesAt
    <2>2. CASE "started" \notin execLog[e]
      <3>1. PICK w \in Workers : job[w] = e /\ CommitStart(w)
        BY <1>2, <2>2, ExecLogFrame
      <3> QED
        BY <3>1 DEF CommitStart, TypeInv, TypeOK
    <2> QED
      BY <2>1, <2>2
  <1>3. ASSUME "completed" \in execLog'[e]
        PROVE  Settled(e)' /\ \A w \in Workers : Runs(w, e)' => pc'[w] = "pubLogDone"
    <2>1. CASE "completed" \in execLog[e]
      <3>1. Settled(e) /\ exec'[e] = exec[e]
        BY <1>1, <2>1, FinishedStays DEF ExecLinesAt
      <3>2. ASSUME NEW w \in Workers, Runs(w, e)' PROVE pc'[w] = "pubLogDone"
        <4>1. Runs(w, e) /\ pc[w] = "pubLogDone"
          BY <1>1, <2>1, <3>1, <3>2, FinishedRuns DEF ExecLinesAt
        <4>2. CASE ~Moves(w)
          BY <4>1, <4>2, NextMoves DEF Still
        <4>3. CASE Moves(w)
          <5>1. pc'[w] \in ClosingPcs
            BY <3>2, <4>1, ClosingStays DEF Runs, ClosingPcs
          <5>2. NoneLeft
            BY DEF DeliveryInv, NoneLeft
          <5>3. pc'[w] # "ack"
            BY <5>1 DEF ClosingPcs
          <5>4. ~WorkerStep(w)
            <6>1. ~Publish(w)
              BY <4>1, <5>3 DEF Publish, AfterPublish, TypeInv, TypeOK
            <6> QED
              BY <4>1, <6>1
                 DEF WorkerStep, Load, BeginRun, CommitStart, CheckStage, NextAttempt, CreateStep,
                     LogLine, LogPcs, RunStage, MarkRetrying, MarkFailed, MarkSucceeded,
                     LogCompleted, AutoRetry, Ack, Goto
          <5>5. ~Fault(w)
            BY <5>2, <5>3, NoRedelivery DEF Fault, LoseChild, Exception, TypeInv, TypeOK
          <5>6. \A x \in Executions : ~Deliver(w, x)
            BY <4>1 DEF Deliver, Goto
          <5> QED
            BY <4>3, <5>4, <5>5, <5>6 DEF Moves
        <4> QED
          BY <4>2, <4>3
      <3> QED
        BY <3>1, <3>2 DEF Settled
    <2>2. CASE "completed" \notin execLog[e]
      <3>1. PICK w \in Workers : job[w] = e /\ LogCompleted(w)
        BY <1>3, <2>2, ExecLogFrame
      <3>2. pc[w] = "logDone" /\ pc'[w] = "pubLogDone"
        BY <3>1 DEF LogCompleted, Goto, TypeInv, TypeOK
      <3>3. Publishable(w)
        BY DEF PublishInv
      <3>4. Settled(e)
        BY <3>1, <3>2, <3>3 DEF Publishable, ClosingPcs, Settled
      <3>5. exec'[e] = exec[e]
        BY <3>4, FinishedStays
      <3>6. Runs(w, e)
        BY <3>1, <3>2 DEF Runs, RunPcs, DbPcs
      <3>7. \A v \in Workers : Runs(v, e)' => v = w
        BY <1>1, <3>4, <3>6, FinishedRuns DEF MessageAlone
      <3> QED
        BY <3>2, <3>4, <3>5, <3>7 DEF Settled
    <2> QED
      BY <2>1, <2>2
  <1> QED
    BY <1>2, <1>3 DEF ExecLinesAt

LEMMA PublishInvariant == SingleDelivery => (Spec => []PublishInv)
  <1> SUFFICES ASSUME SingleDelivery PROVE Spec => []PublishInv
    OBVIOUS
  <1>1. Init => PublishInv
    <2> SUFFICES ASSUME Init PROVE PublishInv
      OBVIOUS
    <2>1. \A w \in Workers : pc[w] = "idle"
      BY DEF Init
    <2>2. \A e \in Executions : execLog[e] = {}
      BY DEF Init
    <2> QED
      BY <2>1, <2>2 DEF PublishInv, Publishable, Unwritten, ExecLinesAt, ClosingPcs
  <1>2. SafetyInv /\ CarryInv /\ DeliveryInv /\ PublishInv /\ [Next]_vars => PublishInv'
    <2> SUFFICES ASSUME SafetyInv, CarryInv, DeliveryInv, PublishInv, [Next]_vars
                 PROVE  PublishInv'
      OBVIOUS
    <2>1. TypeInv /\ StepInv /\ LogsNeverAhead
      BY DEF SafetyInv
    <2>2. \A w \in Workers : Publishable(w)'
      BY <2>1, PublishableStep
    <2>3. \A w \in Workers : Unwritten(w)'
      BY <2>1, UnwrittenStep
    <2>4. \A e \in Executions : ExecLinesAt(e)'
      BY <2>1, ExecLinesAtStep
    <2> QED
      BY <2>2, <2>3, <2>4 DEF PublishInv
  <1> QED
    BY <1>1, <1>2, SafetyInvariant, CarryInvariant, DeliveryInvariant, PTL DEF Spec

\* Nobody has published "Execution started".
Unstarted(e) ==
    \/ api[e] \in {"idle", "created"}
    \/ /\ exec[e].status \in {"none", "queued"}
       /\ \/ Waiting(e)
          \/ \E w \in Workers :
                job[w] = e /\ pc[w] \in {"load", "begin", "pubRunning", "pubStarted"}

LEMMA StartMoves ==
  ASSUME TypeInv, NoneLeft, NEW w \in Workers, Moves(w),
         pc'[w] \in {"load", "begin", "pubRunning", "pubStarted"}
  PROVE  \/ \E e \in Executions : Deliver(w, e)
         \/ pc[w] \in {"load", "begin", "pubRunning"} /\ job' = job
  <1> USE DEF TypeInv, TypeOK, Goto
  <1>1. CASE Fault(w)
    BY <1>1, NoRedelivery DEF Fault, LoseChild, Exception
  <1>2. CASE Load(w) \/ BeginRun(w) \/ CommitStart(w)
    BY <1>2 DEF Load, BeginRun, CommitStart
  <1>3. CASE Publish(w)
    BY <1>3 DEF Publish, AfterPublish, PublishPcs
  <1>4. CASE LogLine(w)
    BY <1>4 DEF LogLine, AfterLog, LogPcs
  <1>5. CASE CreateStep(w) \/ RunStage(w)
    BY <1>5 DEF CreateStep, RunStage
  <1>6. CASE MarkRetrying(w) \/ MarkFailed(w) \/ MarkSucceeded(w) \/ LogCompleted(w)
    BY <1>6 DEF MarkRetrying, MarkFailed, MarkSucceeded, LogCompleted
  <1>7. CASE CheckStage(w) \/ NextAttempt(w) \/ AutoRetry(w) \/ Ack(w)
    BY <1>7 DEF CheckStage, NextAttempt, AutoRetry, Ack
  <1> QED
    BY <1>1, <1>2, <1>3, <1>4, <1>5, <1>6, <1>7 DEF Moves, WorkerStep

\* An execution starts once.
LEMMA StartedStays ==
  ASSUME TypeInv, CarryInv, DeliveryInv, [Next]_vars, NEW e \in Executions, ~Unstarted(e)
  PROVE  ~Unstarted(e)'
  <1> SUFFICES ASSUME Unstarted(e)' PROVE FALSE
    OBVIOUS
  <1>1. NoneLeft /\ api[e] \notin {"idle", "created"}
    BY DEF DeliveryInv, NoneLeft, Unstarted
  <1>2. api'[e] \notin {"idle", "created"}
    BY <1>1, ApiFrame DEF CreateExecution, SendTask, CommitTrigger, AbortTrigger, TypeInv, TypeOK
  <1>3. exec'[e].status \in {"none", "queued"}
    BY <1>2 DEF Unstarted
  <1>4. exec[e].status \in {"none", "queued"}
    BY <1>3, StatusFrame DEF CommitTrigger, CarryInv, CommittedFirst
  <1>5. ~Waiting(e)
    BY <1>4 DEF Unstarted
  <1>6. \A w \in Workers : ~Deliver(w, e)
    BY <1>5, DeliverFrame
  <1>7. ~Waiting(e)'
    <2>1. ASSUME NEW w \in Workers, AutoRetry(w), job[w] = e PROVE FALSE
      <3>1. pc[w] \in LoopPcs
        BY <2>1 DEF AutoRetry, Goto, LoopPcs, RunPcs, StartPcs, ClosingPcs
      <3> QED
        BY <1>4, <2>1, <3>1 DEF DeliveryInv, StatusKnown
    <2>2. ~SendTask(e)
      BY <1>1 DEF SendTask
    <2>3. ready'[e] = ready[e]
      BY <1>1, <1>6, <2>1, <2>2, ReadyFrame
    <2> QED
      BY <1>5, <2>3 DEF Waiting
  <1>8. ASSUME NEW w \in Workers, job'[w] = e,
               pc'[w] \in {"load", "begin", "pubRunning", "pubStarted"}
        PROVE  FALSE
    <2>1. Runs(w, e)
      BY <1>6, <1>8, RunsFrame DEF Runs, RunPcs, PublishPcs, DbPcs
    <2>2. pc[w] \in {"load", "begin", "pubRunning", "pubStarted"}
      <3>1. CASE ~Moves(w)
        BY <1>8, <3>1, NextMoves DEF Still
      <3>2. CASE Moves(w)
        <4>1. \A x \in Executions : ~Deliver(w, x)
          BY <2>1 DEF Runs, Deliver, Goto, RunPcs, PublishPcs, DbPcs, LogPcs
        <4> QED
          BY <1>1, <1>8, <3>2, <4>1, StartMoves
      <3> QED
        BY <3>1, <3>2
    <2> QED
      BY <1>4, <2>1, <2>2 DEF Unstarted, Runs
  <1> QED
    BY <1>2, <1>7, <1>8 DEF Unstarted, Waiting


StatusTold(v) ==
    v.status \in Terminal =>
        /\ exec[Watched].status = v.status
        /\ v.result <=> v.status = "succeeded"
        /\ v.error  <=> v.status = "failed"

StepTold(r) ==
    /\ steps[Watched][r.key][r.attempt] # "absent"
    /\ r.status # "running" => steps[Watched][r.key][r.attempt] = r.status

LineTold(l) ==
    IF l.key = None
    THEN IF l.line = "completed" THEN "completed" \in execLog[Watched] ELSE ~Unstarted(Watched)
    ELSE l.line \in logs[Watched][l.key][l.attempt]

Told(v) ==
    /\ StatusTold(v)
    /\ \A i \in DOMAIN v.steps : StepTold(v.steps[i])
    /\ \A l \in v.logs : LineTold(l)

MessageTold(m) ==
    /\ m.type = "snapshot"         => Told(m.execution)
    /\ m.type = "execution_update" => StatusTold(m)
    /\ m.type = "step_update"      => StepTold(m.step)
    /\ m.type = "log"              => LineTold(m.log)

SameAttempt(r, q) == r.key = q.key /\ r.attempt = q.attempt

TruthInv == Told(view) /\ Told(snapshot) /\ \A i \in DOMAIN inbox : MessageTold(inbox[i])

\* What is told once stays so.
LEMMA StatusToldStays ==
  ASSUME TypeInv, CarryInv, DeliveryInv, [Next]_vars, NEW v, StatusTold(v)
  PROVE  StatusTold(v)'
  <1>1. Settled(Watched) => exec'[Watched] = exec[Watched]
    BY FinishedStays, LiveProgressAssumption DEF LiveProgressAssumption
  <1> QED
    BY <1>1 DEF StatusTold, Settled

LEMMA StepToldStays ==
  ASSUME TypeInv, StepInv, [Next]_vars, NEW r \in StepRows, StepTold(r)
  PROVE  StepTold(r)'
  <1>1. Watched \in Executions /\ r.key \in Keys /\ r.attempt \in Attempts
        /\ r.status \in {"running", "succeeded", "failed"}
    BY LiveProgressAssumption DEF LiveProgressAssumption, StepRows, StepStatuses
  <1> QED
    BY <1>1, RowsOnlyMature DEF StepTold

LEMMA LogRowIs ==
  ASSUME NEW l \in LogRows
  PROVE  /\ l.key = None  => l.line \in {"started", "completed"} /\ l.attempt = 0
         /\ l.key # None  => l \in StepLogs
         /\ l \in StepLogs => l.key # None /\ l.key \in Keys /\ l.attempt \in Attempts
                              /\ l.line \in StepLines
  BY LiveProgressAssumption DEF LiveProgressAssumption, LogRows, StepLogs, ExecLogs, ExecLines

LEMMA LineToldStays ==
  ASSUME TypeInv, CarryInv, DeliveryInv, [Next]_vars, NEW l \in LogRows, LineTold(l)
  PROVE  LineTold(l)'
  <1>1. Watched \in Executions
    BY LiveProgressAssumption DEF LiveProgressAssumption
  <1>2. /\ execLog[Watched] \subseteq execLog'[Watched]
        /\ ~Unstarted(Watched) => ~Unstarted(Watched)'
    BY <1>1, LinesStay, StartedStays
  <1>3. CASE l.key = None
    BY <1>2, <1>3 DEF LineTold
  <1>4. CASE l.key # None
    <2>1. l.key \in Keys /\ l.attempt \in Attempts
      BY <1>4, LogRowIs
    <2>2. logs[Watched][l.key][l.attempt] \subseteq logs'[Watched][l.key][l.attempt]
      BY <1>1, <2>1, LinesStay
    <2> QED
      BY <1>4, <2>2 DEF LineTold
  <1> QED
    BY <1>3, <1>4

LEMMA ToldStays ==
  ASSUME TypeInv, StepInv, CarryInv, DeliveryInv, [Next]_vars, NEW v \in Shown, Told(v)
  PROVE  Told(v)'
  <1>1. v.steps \in Seq(StepRows) /\ v.logs \subseteq LogRows
    BY DEF Shown
  <1>2. StatusTold(v)'
    BY StatusToldStays DEF Told
  <1>3. \A i \in DOMAIN v.steps : StepTold(v.steps[i])'
    <2> SUFFICES ASSUME NEW i \in DOMAIN v.steps PROVE StepTold(v.steps[i])'
      OBVIOUS
    <2>1. PICK r \in StepRows : r = v.steps[i]
      BY <1>1
    <2>2. StepTold(r)'
      BY <2>1, StepToldStays DEF Told
    <2> QED
      BY <2>1, <2>2
  <1>4. \A l \in v.logs : LineTold(l)'
    BY <1>1, LineToldStays DEF Told
  <1> QED
    BY <1>2, <1>3, <1>4 DEF Told

LEMMA MessageToldStays ==
  ASSUME TypeInv, StepInv, CarryInv, DeliveryInv, [Next]_vars, NEW m \in Messages, MessageTold(m)
  PROVE  MessageTold(m)'
  <1>1. /\ m.type = "snapshot" => m.execution \in Shown
        /\ m.type = "step_update" => m.step \in StepRows
        /\ m.type = "log" => m.log \in LogRows
    BY DEF Messages, Updates
  <1>2. CASE m.type = "snapshot"
    <2>1. PICK v \in Shown : v = m.execution
      BY <1>1, <1>2
    <2>2. Told(v)'
      BY <1>2, <2>1, ToldStays DEF MessageTold
    <2> QED
      BY <1>2, <2>1, <2>2 DEF MessageTold
  <1>3. CASE m.type = "execution_update"
    BY <1>3, StatusToldStays DEF MessageTold
  <1>4. CASE m.type = "step_update"
    <2>1. PICK r \in StepRows : r = m.step
      BY <1>1, <1>4
    <2>2. StepTold(r)'
      BY <1>4, <2>1, StepToldStays DEF MessageTold
    <2> QED
      BY <1>4, <2>1, <2>2 DEF MessageTold
  <1>5. CASE m.type = "log"
    <2>1. PICK l \in LogRows : l = m.log
      BY <1>1, <1>5
    <2>2. LineTold(l)'
      BY <1>5, <2>1, LineToldStays DEF MessageTold
    <2> QED
      BY <1>5, <2>1, <2>2 DEF MessageTold
  <1> QED
    BY <1>2, <1>3, <1>4, <1>5 DEF Messages, Updates

----------------------------------------------------------------------------
(* The reducer tells nothing but what it was told.                           *)

\* The rows of `new` are those of `rows`, with `row` in the place of its attempt.
Merged(new, rows, row) ==
    /\ \A n \in DOMAIN new :
          \/ new[n] = row
          \/ \E i \in DOMAIN rows : new[n] = rows[i] /\ ~SameAttempt(rows[i], row)
    /\ \A i \in DOMAIN rows : \E n \in DOMAIN new :
          new[n] = IF SameAttempt(rows[i], row) THEN row ELSE rows[i]

LEMMA SortedRows ==
  ASSUME NEW rows \in Seq(StepRows)
  PROVE  /\ \A n \in DOMAIN SortSteps(rows) : \E i \in DOMAIN rows : SortSteps(rows)[n] = rows[i]
         /\ \A i \in DOMAIN rows : \E n \in DOMAIN SortSteps(rows) : SortSteps(rows)[n] = rows[i]
  <1> DEFINE new == SortSteps(rows)
  <1>1. Rearranged(new, rows)
    BY SortKeeps
  <1> HIDE DEF new
  <1>2. PICK at \in [DOMAIN rows -> DOMAIN rows] :
           /\ \A n \in DOMAIN rows : new[n] = rows[at[n]]
           /\ \A i \in DOMAIN rows : \E n \in DOMAIN rows : at[n] = i
    BY <1>1 DEF Rearranged
  <1>3. DOMAIN new = DOMAIN rows
    BY <1>1 DEF Rearranged
  <1>4. /\ \A n \in DOMAIN new : \E i \in DOMAIN rows : new[n] = rows[i]
        /\ \A i \in DOMAIN rows : \E n \in DOMAIN new : new[n] = rows[i]
    BY <1>2, <1>3
  <1> QED
    BY <1>4 DEF new

LEMMA MergedRows ==
  ASSUME NEW rows \in Seq(StepRows), OncePerAttempt(rows), NEW row \in StepRows
  PROVE  Merged(MergeSteps(rows, row), rows, row)
  <1> DEFINE same == {i \in DOMAIN rows : rows[i].key = row.key /\ rows[i].attempt = row.attempt}
  <1>1. ASSUME NEW new \in Seq(StepRows), Merged(new, rows, row)
        PROVE  Merged(SortSteps(new), rows, row)
    <2> DEFINE sorted == SortSteps(new)
    <2>1. /\ \A n \in DOMAIN sorted : \E i \in DOMAIN new : sorted[n] = new[i]
          /\ \A i \in DOMAIN new : \E n \in DOMAIN sorted : sorted[n] = new[i]
      BY SortedRows
    <2> HIDE DEF sorted
    <2>2. Merged(sorted, rows, row)
      BY <1>1, <2>1 DEF Merged
    <2> QED
      BY <2>2 DEF sorted
  <1>2. CASE same = {}
    <2> DEFINE new == Append(rows, row)
    <2>1. MergeSteps(rows, row) = SortSteps(new)
      BY <1>2 DEF MergeSteps
    <2>2. \A i \in DOMAIN rows : ~SameAttempt(rows[i], row)
      BY <1>2 DEF SameAttempt
    <2>3. new \in Seq(StepRows) /\ Merged(new, rows, row)
      <3>1. new \in Seq(StepRows) /\ \A i \in DOMAIN rows : i \in DOMAIN new /\ new[i] = rows[i]
        OBVIOUS
      <3>2. \A n \in DOMAIN new : new[n] = row \/ (n \in DOMAIN rows /\ new[n] = rows[n])
        OBVIOUS
      <3> HIDE DEF new
      <3> QED
        BY <2>2, <3>1, <3>2 DEF Merged
    <2> HIDE DEF new
    <2> QED
      BY <1>1, <2>1, <2>3
  <1>3. CASE same # {}
    <2> DEFINE at == CHOOSE i \in same : \A j \in same : i <= j
               new == [rows EXCEPT ![at] = row]
    <2>1. MergeSteps(rows, row) = SortSteps(new)
      BY <1>3 DEF MergeSteps
    <2>2. PICK one \in same : \A j \in same : one = j
      BY <1>3 DEF OncePerAttempt
    <2>3. at \in same
      BY <2>2
    <2>4. \A i \in DOMAIN rows : SameAttempt(rows[i], row) <=> i = at
      BY <2>2, <2>3 DEF SameAttempt
    <2> HIDE DEF at
    <2>5. /\ new \in Seq(StepRows) /\ DOMAIN new = DOMAIN rows
          /\ \A i \in DOMAIN rows : new[i] = IF i = at THEN row ELSE rows[i]
      BY <2>3
    <2> HIDE DEF new
    <2>6. Merged(new, rows, row)
      BY <2>3, <2>4, <2>5 DEF Merged
    <2> QED
      BY <1>1, <2>1, <2>5, <2>6
  <1> QED
    BY <1>2, <1>3

LEMMA AppliedTold ==
  ASSUME NEW v, Sound(v), Told(v), NEW m \in Messages, MessageTold(m),
         m.type = "snapshot" => Sound(m.execution)
  PROVE  Told(Apply(v, m))
  <1>1. CASE m.type = "snapshot"
    <2>1. PICK x : x = m.execution /\ Sound(x) /\ Told(x)
      BY <1>1 DEF MessageTold
    <2> DEFINE new == [x EXCEPT !.steps = SortSteps(x.steps)]
    <2>2. Apply(v, m) = new
      BY <1>1, <2>1 DEF Apply
    <2>3. x.steps \in Seq(StepRows)
      BY <2>1 DEF Sound, Shown
    <2>4. /\ new.status = x.status /\ new.result = x.result /\ new.error = x.error
          /\ new.logs = x.logs /\ new.steps = SortSteps(x.steps)
      BY <2>1 DEF Sound, Shown
    <2> HIDE DEF new
    <2>5. \A n \in DOMAIN new.steps : StepTold(new.steps[n])
      BY <2>1, <2>3, <2>4, SortedRows DEF Told
    <2>6. Told(new)
      BY <2>1, <2>4, <2>5 DEF Told, StatusTold
    <2> QED
      BY <2>2, <2>6
  <1>2. CASE m.type = "execution_update"
    <2> DEFINE new == [v EXCEPT !.status = m.status, !.result = m.result, !.error = m.error]
    <2>1. Apply(v, m) = new
      BY <1>2 DEF Apply
    <2>2. /\ new.status = m.status /\ new.result = m.result /\ new.error = m.error
          /\ new.logs = v.logs /\ new.steps = v.steps
      BY DEF Sound, Shown
    <2> HIDE DEF new
    <2>3. Told(new)
      BY <1>2, <2>2 DEF Told, StatusTold, MessageTold
    <2> QED
      BY <2>1, <2>3
  <1>3. CASE m.type = "step_update"
    <2>1. PICK row \in StepRows : row = m.step /\ StepTold(row)
      BY <1>3 DEF Messages, Updates, MessageTold
    <2> DEFINE new == [v EXCEPT !.steps = MergeSteps(v.steps, row)]
    <2>2. Apply(v, m) = new
      BY <1>3, <2>1 DEF Apply
    <2>3. /\ new.status = v.status /\ new.result = v.result /\ new.error = v.error
          /\ new.logs = v.logs /\ new.steps = MergeSteps(v.steps, row)
      BY DEF Sound, Shown
    <2> HIDE DEF new
    <2>4. Merged(new.steps, v.steps, row)
      BY <2>1, <2>3, MergedRows DEF Sound, Shown
    <2>5. \A n \in DOMAIN new.steps : StepTold(new.steps[n])
      BY <2>1, <2>4 DEF Told, Merged
    <2>6. Told(new)
      BY <2>3, <2>5 DEF Told, StatusTold
    <2> QED
      BY <2>2, <2>6
  <1>4. CASE m.type = "log"
    <2> DEFINE new == Apply(v, m)
    <2>1. new = [v EXCEPT !.logs = v.logs \cup {m.log}, !.again = v.again \cup (v.logs \cap {m.log})]
      BY <1>4 DEF Apply, AddLine
    <2>2. /\ new.status = v.status /\ new.result = v.result /\ new.error = v.error
          /\ new.logs = v.logs \cup {m.log} /\ new.steps = v.steps
      BY <2>1 DEF Sound, Shown
    <2> HIDE DEF new
    <2>3. Told(new)
      BY <1>4, <2>2 DEF Told, StatusTold, MessageTold
    <2> QED
      BY <2>3 DEF new
  <1> QED
    BY <1>1, <1>2, <1>3, <1>4 DEF Messages, Updates

\* A run publishes what is committed, and starts an execution by saying so.
LEMMA EventTold ==
  ASSUME SafetyInv, CarryInv, DeliveryInv, PublishInv, [Next]_vars, NEW w \in Workers,
         Publish(w), job[w] = Watched, NEW m, m = EventOf(w)
  PROVE  MessageTold(m)'
  <1>1. /\ Watched \in Executions /\ TypeInv /\ RowHeld(w) /\ Publishable(w) /\ StatusKnown(w)
        /\ RowSettled(Watched) /\ MessageAlone(Watched)
    BY LiveProgressAssumption
       DEF LiveProgressAssumption, SafetyInv, StepInv, RunInv, PublishInv, DeliveryInv
  <1>2. /\ exec' = exec /\ steps' = steps /\ logs' = logs /\ execLog' = execLog
        /\ api' = api /\ ready' = ready /\ job' = job /\ pc[w] \in PublishPcs
    BY DEF Publish, dbVars
  <1>3. CASE pc[w] \in {"pubRunning", "pubRetrying", "pubGaveUp", "pubDone"}
    <2>1. m = [type |-> "execution_update", status |-> seen[w],
               result |-> exec[Watched].result, error |-> exec[Watched].error]
      BY <1>3 DEF EventOf, StatusEvent
    <2>2. seen[w] \in Terminal => exec[Watched].status = seen[w]
      <3>1. CASE pc[w] \in {"pubGaveUp", "pubDone"}
        BY <1>1, <3>1 DEF Publishable, ClosingPcs
      <3>2. CASE pc[w] = "pubRetrying"
        BY <1>1, <3>2 DEF StatusKnown, LoopPcs, RunPcs, PublishPcs, StartPcs, ClosingPcs
      <3>3. CASE pc[w] = "pubRunning"
        BY <3>3 DEF CarryInv, StartersBelieve, Terminal
      <3> QED
        BY <1>3, <3>1, <3>2, <3>3
    <2>3. m.type = "execution_update" /\ StatusTold(m)'
      BY <1>1, <1>2, <2>1, <2>2 DEF StatusTold, RowSettled
    <2> QED
      BY <2>3 DEF MessageTold
  <1>4. CASE pc[w] \in {"pubStep", "pubFailed", "pubSucceeded"}
    <2>1. PICK s \in {"running", "failed", "succeeded"} :
             /\ m = [type |-> "step_update",
                     step |-> [key |-> Key(stage[w]), attempt |-> attempt[w], status |-> s]]
             /\ steps[Watched][Key(stage[w])][attempt[w]] = s
      BY <1>1, <1>4 DEF EventOf, StepEvent, RowHeld, OpenPcs, FailedPcs, DonePcs
    <2>2. m.type = "step_update" /\ StepTold(m.step)'
      BY <1>2, <2>1 DEF StepTold
    <2> QED
      BY <2>2 DEF MessageTold
  <1>5. CASE pc[w] \in {"pubLogStarted", "pubLogFailed", "pubLogCompleted"}
    <2>1. Key(stage[w]) \in Keys
      BY <1>1, <1>5, RowType DEF StagePcs, OpenPcs, FailedPcs, DonePcs
    <2>2. PICK l \in StepLines :
             /\ m = [type |-> "log",
                     log |-> [key |-> Key(stage[w]), attempt |-> attempt[w], line |-> l]]
             /\ l \in logs[Watched][Key(stage[w])][attempt[w]]
      BY <1>1, <1>5 DEF EventOf, StepLogEvent, Publishable, RowLines, StepLines
    <2>3. m.type = "log" /\ LineTold(m.log)'
      BY <1>2, <2>1, <2>2, LiveProgressAssumption DEF LiveProgressAssumption, LineTold
    <2> QED
      BY <2>3 DEF MessageTold
  <1>6. CASE pc[w] = "pubLogDone"
    <2>1. m = [type |-> "log", log |-> [key |-> None, attempt |-> 0, line |-> "completed"]]
      BY <1>6 DEF EventOf, ExecLogEvent
    <2>2. m.type = "log" /\ LineTold(m.log)'
      BY <1>1, <1>2, <1>6, <2>1 DEF LineTold, Publishable
    <2> QED
      BY <2>2 DEF MessageTold
  <1>7. CASE pc[w] = "pubStarted"
    <2>1. m = [type |-> "log", log |-> [key |-> None, attempt |-> 0, line |-> "started"]]
      BY <1>7 DEF EventOf, ExecLogEvent
    <2>2. Runs(w, Watched)
      BY <1>7 DEF Runs, RunPcs, PublishPcs
    <2>3. api[Watched] \notin {"idle", "created"} /\ ~Waiting(Watched)
      BY <1>1, <2>2, HandsAre DEF MessageAlone, Waiting
    <2>4. ASSUME NEW v \in Workers, job'[v] = Watched,
                 pc'[v] \in {"load", "begin", "pubRunning", "pubStarted"}
          PROVE  FALSE
      <3>1. v # w
        BY <1>7, <2>4 DEF Publish, AfterPublish, TypeInv, TypeOK, SafetyInv
      <3>2. pc'[v] = pc[v]
        BY <3>1 DEF Publish
      <3>3. Runs(v, Watched)
        BY <1>2, <2>4, <3>2 DEF Runs, RunPcs, PublishPcs, DbPcs
      <3> QED
        BY <1>1, <2>2, <3>1, <3>3 DEF MessageAlone
    <2>5. ~Unstarted(Watched)'
      BY <1>2, <2>3, <2>4 DEF Unstarted, Waiting
    <2>6. m.type = "log" /\ LineTold(m.log)'
      BY <2>1, <2>5 DEF LineTold
    <2> QED
      BY <2>6 DEF MessageTold
  <1> QED
    BY <1>2, <1>3, <1>4, <1>5, <1>6, <1>7 DEF PublishPcs

LEMMA SnapshotTold ==
  ASSUME SafetyInv, CarryInv, DeliveryInv, PublishInv, LiveInv, Told(snapshot),
         ReadExecution \/ ReadSteps \/ Closed, NEW v, v = snapshot'
  PROVE  Told(v)
  <1>1. Watched \in Executions /\ TypeInv /\ StagesInOrder
    BY LiveProgressAssumption DEF LiveProgressAssumption, SafetyInv
  <1>2. CASE v = Blank
    BY <1>2 DEF Told, StatusTold, Blank, Terminal
  <1>3. CASE ReadExecution /\ Committed(Watched)
    <2>1. /\ v.status = exec[Watched].status /\ v.result = exec[Watched].result
          /\ v.error = exec[Watched].error /\ v.steps = snapshot.steps /\ v.logs = snapshot.logs
      BY <1>3 DEF ReadExecution, LiveInv, Sound, Shown
    <2>2. StatusTold(v)
      BY <1>1, <2>1 DEF StatusTold, DeliveryInv, RowSettled
    <2> QED
      BY <2>1, <2>2 DEF Told
  <1>4. CASE ReadSteps
    <2>1. PICK rows \in SetToSeqs(CommittedSteps) : snapshot' = [snapshot EXCEPT !.steps = rows]
      BY <1>4 DEF ReadSteps
    <2>2. \A i \in DOMAIN rows : rows[i] \in CommittedSteps
      BY <1>1, SelectedRows
    <2>3. /\ v.status = snapshot.status /\ v.result = snapshot.result /\ v.error = snapshot.error
          /\ v.steps = rows /\ v.logs = snapshot.logs
      BY <2>1 DEF LiveInv, Sound, Shown
    <2>4. \A r \in CommittedSteps : StepTold(r)
      BY DEF CommittedSteps, StepRows, StepTold
    <2> QED
      BY <2>2, <2>3, <2>4 DEF Told, StatusTold
  <1> QED
    BY <1>2, <1>3, <1>4 DEF ReadExecution, Closed

LEMMA CommittedLogsTold ==
  ASSUME SafetyInv, CarryInv, PublishInv, NEW l \in CommittedLogs
  PROVE  LineTold(l)
  <1>1. Watched \in Executions /\ l \in LogRows
    BY LiveProgressAssumption DEF LiveProgressAssumption, CommittedLogs
  <1>2. CASE l.key # None
    BY <1>2 DEF LineTold, CommittedLogs
  <1>3. CASE l.key = None /\ l.line = "started"
    <2>1. exec[Watched].status \notin {"none", "queued"}
      BY <1>1, <1>3 DEF CommittedLogs, PublishInv, ExecLinesAt
    <2>2. api[Watched] \notin {"idle", "created"}
      BY <1>1, <2>1 DEF CarryInv, CommittedFirst
    <2> QED
      BY <1>3, <2>1, <2>2 DEF LineTold, Unstarted
  <1>4. CASE l.key = None /\ l.line = "completed"
    BY <1>4 DEF LineTold, CommittedLogs
  <1> QED
    BY <1>1, <1>2, <1>3, <1>4, LogRowIs

LEMMA TruthStep ==
  ASSUME SafetyInv, CarryInv, DeliveryInv, PublishInv, LiveInv, TruthInv, [LiveNext]_allVars
  PROVE  TruthInv'
  <1>1. TypeInv /\ StepInv /\ [Next]_vars
    BY WatchingIsPassive DEF SafetyInv, allVars
  <1>2. Told(view)'
    <2>1. PICK v : v = view'
      OBVIOUS
    <2>2. Told(v) /\ v \in Shown
      <3>1. CASE Receive
        <4>1. Head(inbox) = inbox[1] /\ 1 \in DOMAIN inbox /\ inbox[1] \in Messages
          BY <3>1 DEF Receive, LiveInv
        <4>2. Sound(v) /\ Told(v)
          BY <2>1, <3>1, <4>1, AppliedTold, AppliedSound DEF Receive, LiveInv, TruthInv
        <4> QED
          BY <4>2 DEF Sound
      <3>2. CASE view' = view
        BY <2>1, <3>2 DEF TruthInv, LiveInv, Sound
      <3> QED
        BY <3>1, <3>2 DEF LiveNext, SilentStep, PublishEvent, Connect, EndpointStep, ReadExecution,
                          ReadSteps, SendSnapshot, Subscribe, Drop, Rest, allVars, liveVars
    <2>3. Told(v)'
      BY <1>1, <2>2, ToldStays
    <2> QED
      BY <2>1, <2>3 DEF Told, StatusTold
  <1>3. Told(snapshot)'
    <2>1. PICK v : v = snapshot'
      OBVIOUS
    <2>2. Told(v) /\ v \in Shown
      <3>1. CASE ReadExecution \/ ReadSteps \/ Closed
        <4>1. Told(v)
          BY <2>1, <3>1, SnapshotTold DEF TruthInv
        <4>2. v \in Shown
          BY <1>1, <2>1, LiveStep DEF SafetyInv, LiveInv, Sound
        <4> QED
          BY <4>1, <4>2
      <3>2. CASE snapshot' = snapshot
        BY <2>1, <3>2 DEF TruthInv, LiveInv, Sound
      <3>3. CASE snapshot' = Blank
        BY <2>1, <3>3, BlankSound DEF Told, StatusTold, Blank, Terminal, Sound
      <3> QED
        BY <3>1, <3>2, <3>3
           DEF LiveNext, SilentStep, PublishEvent, Connect, EndpointStep,
               SendSnapshot, Subscribe, Drop, Receive, Rest, allVars, liveVars
    <2>3. Told(v)'
      BY <1>1, <2>2, ToldStays
    <2> QED
      BY <2>1, <2>3 DEF Told, StatusTold
  <1>4. ASSUME NEW i \in DOMAIN inbox' PROVE MessageTold(inbox[i])'
    <2>1. PICK m : m = inbox'[i]
      OBVIOUS
    <2>2. MessageTold(m)'
      <3>1. ASSUME NEW j \in DOMAIN inbox, m = inbox[j] PROVE MessageTold(m)'
        <4>1. m \in Messages /\ MessageTold(m)
          BY <3>1 DEF LiveInv, TruthInv
        <4> QED
          BY <1>1, <4>1, MessageToldStays
      <3>2. CASE inbox' = inbox
        BY <1>4, <2>1, <3>1, <3>2
      <3>3. CASE Receive
        <4>1. i + 1 \in DOMAIN inbox /\ m = inbox[i + 1]
          BY <1>4, <2>1, <3>3 DEF Receive, LiveInv
        <4> QED
          BY <3>1, <4>1
      <3>4. CASE Closed
        BY <1>4, <3>4 DEF Closed
      <3>5. CASE SendSnapshot
        <4> DEFINE x == [snapshot EXCEPT !.logs = CommittedLogs]
                   s == [type |-> "snapshot", execution |-> x]
        <4>1. inbox' = Append(inbox, s)
          BY <3>5 DEF SendSnapshot
        <4>2. /\ x.status = snapshot.status /\ x.result = snapshot.result
              /\ x.error = snapshot.error /\ x.steps = snapshot.steps /\ x.logs = CommittedLogs
          BY DEF LiveInv, Sound, Shown
        <4>3. x \in Shown
          BY DEF LiveInv, Sound, Shown, CommittedLogs
        <4> HIDE DEF x
        <4>4. Told(x)
          BY <4>2, CommittedLogsTold DEF Told, StatusTold, TruthInv
        <4>5. s \in Messages /\ MessageTold(s)
          BY <4>3, <4>4 DEF Messages, MessageTold
        <4> HIDE DEF s
        <4>6. m = s \/ (i \in DOMAIN inbox /\ m = inbox[i])
          BY <1>4, <2>1, <4>1 DEF LiveInv
        <4>7. CASE m = s
          <5>1. m \in Messages /\ MessageTold(m)
            BY <4>5, <4>7
          <5> QED
            BY <1>1, <5>1, MessageToldStays
        <4> QED
          BY <3>1, <4>6, <4>7
      <3>6. ASSUME NEW w \in Workers, PublishEvent(w), inbox' # inbox PROVE MessageTold(m)'
        <4>1. inbox' = Append(inbox, EventOf(w)) /\ Publish(w) /\ job[w] = Watched
          BY <3>6 DEF PublishEvent
        <4>2. m = EventOf(w) \/ (i \in DOMAIN inbox /\ m = inbox[i])
          BY <1>4, <2>1, <4>1 DEF LiveInv
        <4> QED
          BY <1>1, <3>1, <4>1, <4>2, EventTold
      <3> QED
        BY <3>2, <3>3, <3>4, <3>5, <3>6
           DEF LiveNext, SilentStep, Connect, EndpointStep, ReadExecution, ReadSteps, Subscribe,
               Drop, Rest, allVars, liveVars
    <2> QED
      BY <2>1, <2>2 DEF MessageTold
  <1> QED
    BY <1>2, <1>3, <1>4 DEF TruthInv

LEMMA TruthInvariant == SingleDelivery => (LiveSpec => []TruthInv)
  <1> SUFFICES ASSUME SingleDelivery PROVE LiveSpec => []TruthInv
    OBVIOUS
  <1>1. LiveInit => TruthInv
    BY DEF LiveInit, TruthInv, Told, StatusTold, Blank, Terminal
  <1>2. SafetyInv /\ CarryInv /\ DeliveryInv /\ PublishInv /\ LiveInv /\ TruthInv
          /\ [LiveNext]_allVars => TruthInv'
    BY TruthStep
  <1> QED
    BY <1>1, <1>2, PageOnlyWatches, SafetyInvariant, CarryInvariant, DeliveryInvariant,
       PublishInvariant, LiveInvariant, PTL DEF LiveSpec

\* The page shows no verdict and no step line that is not committed, and with the
\* verdict of the execution what belongs to it: the worker commits before it
\* publishes, the endpoint reads committed rows, and a finished execution is
\* written no more.
THEOREM ShownIsCommitted == SingleDelivery => (LiveSpec => []VerdictsShownAreCommitted)
  <1>1. LiveInv /\ TruthInv => VerdictsShownAreCommitted
    <2> SUFFICES ASSUME LiveInv, TruthInv PROVE VerdictsShownAreCommitted
      OBVIOUS
    <2>1. StatusTold(view)
      BY DEF TruthInv, Told
    <2>2. /\ view.status = "succeeded" => ResultCard = {"result"}
          /\ view.status = "failed" => ResultCard = {"error"}
      BY <2>1 DEF StatusTold, ResultCard, Terminal
    <2>3. ASSUME NEW i \in DOMAIN view.steps, view.steps[i].status \in {"succeeded", "failed"}
          PROVE  view.steps[i] \in CommittedSteps
      <3>1. PICK r \in StepRows : r = view.steps[i]
        BY <2>3 DEF LiveInv, Sound, Shown
      <3>2. StepTold(r)
        BY <2>3, <3>1 DEF TruthInv, Told
      <3>3. r \in CommittedSteps
        BY <2>3, <3>1, <3>2 DEF StepTold, CommittedSteps
      <3> QED
        BY <3>1, <3>3
    <2>4. view.logs \cap StepLogs \subseteq CommittedLogs
      <3> SUFFICES ASSUME NEW l \in view.logs, l \in StepLogs PROVE l \in CommittedLogs
        OBVIOUS
      <3>1. LineTold(l) /\ l \in LogRows
        BY DEF TruthInv, Told, LiveInv, Sound, Shown
      <3> QED
        BY <3>1, LogRowIs DEF LineTold, CommittedLogs
    <2> QED
      BY <2>1, <2>2, <2>3, <2>4 DEF VerdictsShownAreCommitted, StatusTold
  <1> QED
    BY <1>1, TruthInvariant, LiveInvariant, PTL

----------------------------------------------------------------------------
(* The view never goes back.                                                 *)

Verdicts == {"succeeded", "failed"}

StatusCovered(v) == view.status \in Terminal => v.status = view.status

StepsCovered(v) ==
    \A i \in DOMAIN view.steps : \E j \in DOMAIN v.steps :
        /\ SameAttempt(v.steps[j], view.steps[i])
        /\ view.steps[i].status \in Verdicts => v.steps[j] = view.steps[i]

\* No row of v has a verdict about the attempt of r.
NoVerdict(v, r) ==
    \A i \in DOMAIN v.steps : SameAttempt(v.steps[i], r) => v.steps[i].status \notin Verdicts

\* m tells nothing that n would take back.
NotTakenBack(m, n) ==
    /\ n.type = "execution_update" /\ n.status \notin Terminal =>
          /\ m.type = "snapshot" => m.execution.status \notin Terminal
          /\ m.type = "execution_update" => m.status \notin Terminal
    /\ n.type = "step_update" /\ n.step.status \notin Verdicts =>
          /\ m.type = "snapshot" => NoVerdict(m.execution, n.step)
          /\ m.type = "step_update" /\ SameAttempt(m.step, n.step) => m.step.status \notin Verdicts

\* What is shown, as a message.
Picture(v) == [type |-> "snapshot", execution |-> v]

CoverInv ==
    /\ endpoint \in {"none", "accepted", "readSteps", "readLogs"} => inbox = <<>>
    /\ endpoint \in {"readSteps", "readLogs"} => StatusCovered(snapshot)
    /\ endpoint = "readLogs" => StepsCovered(snapshot)
    /\ \A i \in DOMAIN inbox : inbox[i].type = "snapshot" =>
          i = 1 /\ StatusCovered(inbox[i].execution) /\ StepsCovered(inbox[i].execution)
    /\ \A j \in DOMAIN inbox : NotTakenBack(Picture(view), inbox[j])
    /\ \A i, j \in DOMAIN inbox : i < j => NotTakenBack(inbox[i], inbox[j])

LEMMA AppliedIs ==
  ASSUME NEW v, Sound(v), NEW m \in Messages, m.type = "snapshot" => Sound(m.execution),
         NEW new, new = Apply(v, m)
  PROVE  /\ m.type = "snapshot" =>
               /\ new.status = m.execution.status
               /\ new.steps = SortSteps(m.execution.steps) /\ m.execution.steps \in Seq(StepRows)
         /\ m.type = "execution_update" => new.status = m.status /\ new.steps = v.steps
         /\ m.type = "step_update" =>
               /\ new.status = v.status
               /\ m.step \in StepRows /\ Merged(new.steps, v.steps, m.step)
         /\ m.type = "log" => new.status = v.status /\ new.steps = v.steps
  <1>1. CASE m.type = "snapshot"
    <2>1. PICK x : x = m.execution /\ Sound(x)
      BY <1>1
    <2>2. new = [x EXCEPT !.steps = SortSteps(x.steps)]
      BY <1>1, <2>1 DEF Apply
    <2> QED
      BY <1>1, <2>1, <2>2 DEF Sound, Shown
  <1>2. CASE m.type = "execution_update"
    <2>1. new = [v EXCEPT !.status = m.status, !.result = m.result, !.error = m.error]
      BY <1>2 DEF Apply
    <2> QED
      BY <1>2, <2>1 DEF Sound, Shown
  <1>3. CASE m.type = "step_update"
    <2>1. PICK row \in StepRows : row = m.step
      BY <1>3 DEF Messages, Updates
    <2>2. new = [v EXCEPT !.steps = MergeSteps(v.steps, row)]
      BY <1>3, <2>1 DEF Apply
    <2>3. new.status = v.status /\ new.steps = MergeSteps(v.steps, row)
      BY <2>2 DEF Sound, Shown
    <2>4. Merged(new.steps, v.steps, row)
      BY <2>1, <2>3, MergedRows DEF Sound, Shown
    <2> QED
      BY <1>3, <2>1, <2>3, <2>4
  <1>4. CASE m.type = "log"
    <2>1. new = [v EXCEPT !.logs = v.logs \cup {m.log}, !.again = v.again \cup (v.logs \cap {m.log})]
      BY <1>4 DEF Apply, AddLine
    <2> QED
      BY <1>4, <2>1 DEF Sound, Shown
  <1> QED
    BY <1>1, <1>2, <1>3, <1>4 DEF Messages, Updates

\* Neither what is shown nor a message is taken back: neither is the two together.
LEMMA AppliedNotTakenBack ==
  ASSUME NEW v, Sound(v), NEW m \in Messages, m.type = "snapshot" => Sound(m.execution),
         NEW new, new = Apply(v, m), NEW n,
         NotTakenBack(Picture(v), n), NotTakenBack(m, n)
  PROVE  NotTakenBack(Picture(new), n)
  <1>1. CASE n.type = "execution_update" /\ n.status \notin Terminal
    <2>1. v.status \notin Terminal
      BY <1>1 DEF NotTakenBack, Picture
    <2>2. /\ m.type = "snapshot" => m.execution.status \notin Terminal
          /\ m.type = "execution_update" => m.status \notin Terminal
      BY <1>1 DEF NotTakenBack
    <2>3. new.status \notin Terminal
      BY <2>1, <2>2, AppliedIs DEF Messages, Updates
    <2> QED
      BY <1>1, <2>3 DEF NotTakenBack, Picture
  <1>2. CASE n.type = "step_update" /\ n.step.status \notin Verdicts
    <2>1. NoVerdict(v, n.step)
      BY <1>2 DEF NotTakenBack, Picture
    <2>2. /\ m.type = "snapshot" => NoVerdict(m.execution, n.step)
          /\ m.type = "step_update" /\ SameAttempt(m.step, n.step) => m.step.status \notin Verdicts
      BY <1>2 DEF NotTakenBack
    <2> SUFFICES NoVerdict(new, n.step)
      BY <1>2 DEF NotTakenBack, Picture
    <2>3. CASE m.type = "snapshot"
      <3>1. PICK rows \in Seq(StepRows) : rows = m.execution.steps
        BY <2>3, AppliedIs
      <3>2. new.steps = SortSteps(rows)
        BY <2>3, <3>1, AppliedIs
      <3>3. \A i \in DOMAIN new.steps : \E j \in DOMAIN rows : new.steps[i] = rows[j]
        BY <3>2, SortedRows
      <3> QED
        BY <2>2, <2>3, <3>1, <3>3 DEF NoVerdict
    <2>4. CASE m.type = "step_update"
      <3>1. PICK row : row = m.step /\ Merged(new.steps, v.steps, row)
        BY <2>4, AppliedIs
      <3> QED
        BY <2>1, <2>2, <2>4, <3>1 DEF NoVerdict, Merged
    <2>5. CASE m.type \in {"execution_update", "log"}
      <3>1. new.steps = v.steps
        BY <2>5, AppliedIs
      <3> QED
        BY <2>1, <3>1 DEF NoVerdict
    <2> QED
      BY <2>3, <2>4, <2>5 DEF Messages, Updates
  <1> QED
    BY <1>1, <1>2 DEF NotTakenBack

\* A run that publishes an unfinished status or step knows it unfinished.
LEMMA EventIsFresh ==
  ASSUME SafetyInv, CarryInv, DeliveryInv, PublishInv, NEW w \in Workers,
         pc[w] \in PublishPcs, job[w] = Watched, NEW n, n = EventOf(w)
  PROVE  /\ n.type = "execution_update" /\ n.status \notin Terminal => ~Settled(Watched)
         /\ n.type = "step_update" /\ n.step.status \notin Verdicts =>
               steps[Watched][n.step.key][n.step.attempt] \notin Verdicts
  <1>1. RowHeld(w) /\ Publishable(w) /\ StatusKnown(w)
    BY DEF SafetyInv, StepInv, RunInv, PublishInv, DeliveryInv
  <1>2. CASE pc[w] \in {"pubRunning", "pubRetrying", "pubGaveUp", "pubDone"}
    <2>1. n.type = "execution_update" /\ n.status = seen[w]
      BY <1>2 DEF EventOf, StatusEvent
    <2>2. CASE pc[w] \in {"pubGaveUp", "pubDone"}
      BY <1>1, <2>1, <2>2 DEF Publishable, ClosingPcs
    <2>3. CASE pc[w] \in {"pubRunning", "pubRetrying"}
      <3>1. exec[Watched].status \in {"queued", "running", "retrying"}
        BY <1>1, <2>3 DEF StatusKnown, LoopPcs, RunPcs, PublishPcs, StartPcs, ClosingPcs
      <3> QED
        BY <2>1, <3>1 DEF Settled, Terminal
    <2> QED
      BY <1>2, <2>2, <2>3
  <1>3. CASE pc[w] = "pubStep"
    <2>1. /\ n.type = "step_update" /\ n.step.key = Key(stage[w]) /\ n.step.attempt = attempt[w]
          /\ steps[Watched][Key(stage[w])][attempt[w]] = "running"
      BY <1>1, <1>3 DEF EventOf, StepEvent, RowHeld, OpenPcs
    <2> QED
      BY <2>1 DEF Verdicts
  <1>4. CASE pc[w] \in {"pubFailed", "pubSucceeded"}
    BY <1>4 DEF EventOf, StepEvent, Verdicts
  <1>5. CASE pc[w] \in {"pubStarted", "pubLogDone", "pubLogStarted", "pubLogFailed", "pubLogCompleted"}
    BY <1>5 DEF EventOf, ExecLogEvent, StepLogEvent
  <1> QED
    BY <1>2, <1>3, <1>4, <1>5 DEF PublishPcs

LEMMA FreshTakesNothingBack ==
  ASSUME NEW m \in Messages, MessageTold(m), NEW n,
         n.type = "execution_update" /\ n.status \notin Terminal => ~Settled(Watched),
         n.type = "step_update" /\ n.step.status \notin Verdicts =>
            steps[Watched][n.step.key][n.step.attempt] \notin Verdicts
  PROVE  NotTakenBack(m, n)
  <1>1. ASSUME n.type = "execution_update", n.status \notin Terminal
        PROVE  /\ m.type = "snapshot" => m.execution.status \notin Terminal
               /\ m.type = "execution_update" => m.status \notin Terminal
    BY <1>1 DEF MessageTold, Told, StatusTold, Settled
  <1>2. ASSUME NEW r \in StepRows, StepTold(r), n.type = "step_update", n.step.status \notin Verdicts,
               SameAttempt(r, n.step)
        PROVE  r.status \notin Verdicts
    BY <1>2 DEF StepTold, SameAttempt, Verdicts
  <1>3. ASSUME n.type = "step_update", n.step.status \notin Verdicts, m.type = "snapshot"
        PROVE  NoVerdict(m.execution, n.step)
    <2>1. m.execution.steps \in Seq(StepRows)
      BY <1>3 DEF Messages, Updates, Shown
    <2> SUFFICES ASSUME NEW i \in DOMAIN m.execution.steps,
                        SameAttempt(m.execution.steps[i], n.step)
                 PROVE  m.execution.steps[i].status \notin Verdicts
      BY DEF NoVerdict
    <2>2. PICK r \in StepRows : r = m.execution.steps[i]
      BY <2>1
    <2>3. StepTold(r)
      BY <1>3, <2>2 DEF MessageTold, Told
    <2> QED
      BY <1>2, <1>3, <2>2, <2>3
  <1>4. ASSUME n.type = "step_update", n.step.status \notin Verdicts,
               m.type = "step_update", SameAttempt(m.step, n.step)
        PROVE  m.step.status \notin Verdicts
    <2>1. PICK r \in StepRows : r = m.step /\ StepTold(r)
      BY <1>4 DEF Messages, Updates, MessageTold
    <2> QED
      BY <1>2, <1>4, <2>1
  <1> QED
    BY <1>1, <1>3, <1>4 DEF NotTakenBack

\* The second SELECT returns every committed row.
LEMMA EveryRowSelected ==
  ASSUME TypeInv, StagesInOrder, NEW rows \in SetToSeqs(CommittedSteps), NEW r \in CommittedSteps
  PROVE  \E i \in DOMAIN rows : rows[i] = r
  <1> DEFINE n == Cardinality(CommittedSteps)
  <1>1. IsFiniteSet(CommittedSteps) /\ n \in Nat
    BY CommittedStepsFinite
  <1>2. rows \in [1..n -> CommittedSteps] /\ \A i, j \in 1..n : i # j => rows[i] # rows[j]
    BY DEF SetToSeqs
  <1>3. rows \in Injection(1..n, CommittedSteps)
    BY <1>2, Zenon DEF Injection, IsInjective
  <1>4. Cardinality(1..n) = n
    <2> HIDE DEF n
    <2> QED
      BY <1>1, FS_Interval
  <1>5. rows \in Surjection(1..n, CommittedSteps)
    BY <1>1, <1>3, <1>4, FS_Injection
  <1> HIDE DEF n
  <1> QED
    BY <1>2, <1>5 DEF Surjection

LEMMA SelectionCovers ==
  ASSUME TypeInv, StagesInOrder, LiveInv, Told(view),
         NEW v, v.steps \in SetToSeqs(CommittedSteps)
  PROVE  StepsCovered(v)
  <1> SUFFICES ASSUME NEW i \in DOMAIN view.steps
               PROVE  \E j \in DOMAIN v.steps :
                         /\ SameAttempt(v.steps[j], view.steps[i])
                         /\ view.steps[i].status \in Verdicts => v.steps[j] = view.steps[i]
    BY DEF StepsCovered
  <1>1. PICK r \in StepRows : r = view.steps[i]
    BY DEF LiveInv, Sound, Shown
  <1>2. StepTold(r) /\ r.key \in Keys /\ r.attempt \in Attempts /\ Watched \in Executions
    BY <1>1, LiveProgressAssumption DEF LiveProgressAssumption, Told, StepRows
  <1> DEFINE s == steps[Watched][r.key][r.attempt]
             q == [key |-> r.key, attempt |-> r.attempt, status |-> s]
  <1>3. s \in StepStatuses \ {"absent"}
    BY <1>2 DEF StepTold, TypeInv, TypeOK
  <1>4. q \in StepRows /\ q.key = r.key /\ q.attempt = r.attempt /\ q.status = s
    BY <1>2, <1>3 DEF StepRows
  <1>5. r.status \in Verdicts => r.status = s
    BY <1>2 DEF StepTold, Verdicts
  <1> HIDE DEF q
  <1>6. q \in CommittedSteps
    BY <1>4 DEF CommittedSteps
  <1>7. r.status \in Verdicts => q = r
    BY <1>4, <1>5, RowIs
  <1>8. PICK j \in DOMAIN v.steps : v.steps[j] = q
    BY <1>6, EveryRowSelected
  <1> QED
    BY <1>1, <1>4, <1>7, <1>8 DEF SameAttempt

\* What the first message on its way does to the page.
LEMMA ReceivedCovers ==
  ASSUME LiveInv, TruthInv, CoverInv, Receive, NEW v, v = view'
  PROVE  StatusCovered(v) /\ StepsCovered(v)
  <1>1. PICK m \in Messages : m = inbox[1]
    BY DEF Receive, LiveInv
  <1>2. /\ 1 \in DOMAIN inbox /\ Head(inbox) = inbox[1]
        /\ m.type = "snapshot" => Sound(m.execution)
        /\ MessageTold(m)
    BY <1>1 DEF Receive, LiveInv, TruthInv
  <1>3. v = Apply(view, m) /\ Sound(view) /\ view.steps \in Seq(StepRows)
    BY <1>1, <1>2 DEF Receive, LiveInv, Sound, Shown
  <1>4. NotTakenBack(Picture(view), m)
    BY <1>1, <1>2 DEF CoverInv
  <1>5. CASE m.type = "snapshot"
    <2>1. PICK x : x = m.execution /\ StatusCovered(x) /\ StepsCovered(x)
      BY <1>1, <1>2, <1>5 DEF CoverInv
    <2>2. v.status = x.status /\ v.steps = SortSteps(x.steps) /\ x.steps \in Seq(StepRows)
      BY <1>2, <1>3, <1>5, <2>1, AppliedIs
    <2>3. \A i \in DOMAIN x.steps : \E n \in DOMAIN v.steps : v.steps[n] = x.steps[i]
      BY <2>2, SortedRows
    <2> QED
      BY <2>1, <2>2, <2>3 DEF StatusCovered, StepsCovered
  <1>6. CASE m.type = "execution_update"
    <2>1. v.status = m.status /\ v.steps = view.steps
      BY <1>2, <1>3, <1>6, AppliedIs
    <2>2. StatusCovered(v)
      BY <1>2, <1>4, <1>6, <2>1
         DEF NotTakenBack, Picture, StatusCovered, MessageTold, TruthInv, Told, StatusTold
    <2> QED
      BY <2>1, <2>2 DEF StepsCovered, SameAttempt
  <1>7. CASE m.type = "step_update"
    <2>1. PICK row \in StepRows :
             row = m.step /\ v.status = view.status /\ Merged(v.steps, view.steps, row)
      BY <1>2, <1>3, <1>7, AppliedIs
    <2>2. StepTold(row)
      BY <1>2, <1>7, <2>1 DEF MessageTold
    <2>3. ASSUME NEW i \in DOMAIN view.steps
          PROVE  \E j \in DOMAIN v.steps :
                    /\ SameAttempt(v.steps[j], view.steps[i])
                    /\ view.steps[i].status \in Verdicts => v.steps[j] = view.steps[i]
      <3>1. PICK r \in StepRows : r = view.steps[i]
        BY <1>3
      <3>2. PICK j \in DOMAIN v.steps : v.steps[j] = IF SameAttempt(r, row) THEN row ELSE r
        BY <2>1, <3>1 DEF Merged
      <3>3. CASE ~SameAttempt(r, row)
        BY <3>1, <3>2, <3>3 DEF SameAttempt
      <3>4. CASE SameAttempt(r, row)
        <4>1. ASSUME r.status \in Verdicts PROVE row = r
          <5>1. row.status \in Verdicts
            BY <1>4, <1>7, <2>1, <3>1, <3>4, <4>1 DEF NotTakenBack, Picture, NoVerdict
          <5>2. StepTold(r)
            BY <3>1 DEF TruthInv, Told
          <5>3. row.status = r.status
            BY <2>2, <3>4, <4>1, <5>1, <5>2 DEF StepTold, SameAttempt, Verdicts
          <5> QED
            BY <3>4, <5>3, RowIs DEF SameAttempt
        <4> QED
          BY <3>1, <3>2, <3>4, <4>1 DEF SameAttempt
      <3> QED
        BY <3>3, <3>4
    <2> QED
      BY <2>1, <2>3 DEF StatusCovered, StepsCovered
  <1>8. CASE m.type = "log"
    <2>1. v.status = view.status /\ v.steps = view.steps
      BY <1>2, <1>3, <1>8, AppliedIs
    <2> QED
      BY <2>1 DEF StatusCovered, StepsCovered, SameAttempt
  <1> QED
    BY <1>5, <1>6, <1>7, <1>8 DEF Messages, Updates

LEMMA CoverStep ==
  ASSUME SafetyInv, CarryInv, DeliveryInv, PublishInv, LiveInv, TruthInv, CoverInv,
         [LiveNext]_allVars
  PROVE  CoverInv'
  <1>1. TypeInv /\ StagesInOrder
    BY DEF SafetyInv
  <1>2. CASE UNCHANGED liveVars \/ Subscribe
    <2>1. /\ inbox' = inbox /\ view' = view /\ snapshot' = snapshot
          /\ endpoint' = endpoint \/ endpoint' = "subscribed"
      BY <1>2 DEF liveVars, Subscribe
    <2>2. endpoint' \in {"none", "accepted", "readSteps", "readLogs"} => endpoint' = endpoint
      BY <2>1
    <2>3. \A i \in DOMAIN inbox' : inbox'[i].type = "snapshot" =>
             i = 1 /\ StatusCovered(inbox[i].execution)' /\ StepsCovered(inbox[i].execution)'
      BY <2>1 DEF CoverInv, StatusCovered, StepsCovered
    <2>4. /\ \A j \in DOMAIN inbox' : NotTakenBack(Picture(view'), inbox'[j])
          /\ \A i, j \in DOMAIN inbox' : i < j => NotTakenBack(inbox'[i], inbox'[j])
      BY <2>1 DEF CoverInv
    <2>5. /\ endpoint' \in {"readSteps", "readLogs"} => StatusCovered(snapshot)'
          /\ endpoint' = "readLogs" => StepsCovered(snapshot)'
      BY <2>1, <2>2 DEF CoverInv, StatusCovered, StepsCovered
    <2> QED
      BY <2>1, <2>2, <2>3, <2>4, <2>5 DEF CoverInv
  <1>3. CASE Closed /\ view' = view
    BY <1>3 DEF Closed, CoverInv
  <1>4. CASE Connect
    <2>1. inbox = <<>> /\ inbox' = <<>> /\ endpoint' = "accepted"
      BY <1>4 DEF Connect, CoverInv
    <2> QED
      BY <2>1 DEF CoverInv
  <1>5. CASE ReadExecution /\ Committed(Watched)
    <2>1. /\ snapshot'.status = exec[Watched].status /\ view' = view /\ inbox' = inbox
          /\ endpoint = "accepted" /\ endpoint' = "readSteps"
      BY <1>5 DEF ReadExecution, LiveInv, Sound, Shown
    <2>2. inbox = <<>>
      BY <2>1 DEF CoverInv
    <2>3. StatusCovered(snapshot)'
      BY <2>1 DEF StatusCovered, TruthInv, Told, StatusTold
    <2> QED
      BY <2>1, <2>2, <2>3 DEF CoverInv
  <1>6. CASE ReadSteps
    <2>1. PICK rows \in SetToSeqs(CommittedSteps) : snapshot' = [snapshot EXCEPT !.steps = rows]
      BY <1>6 DEF ReadSteps
    <2>2. PICK v : v = snapshot'
      OBVIOUS
    <2>3. v.status = snapshot.status /\ v.steps = rows
      BY <2>1, <2>2 DEF LiveInv, Sound, Shown
    <2>4. view' = view /\ inbox' = inbox /\ endpoint = "readSteps" /\ endpoint' = "readLogs"
      BY <1>6 DEF ReadSteps
    <2>5. inbox = <<>> /\ StatusCovered(v)
      BY <2>3, <2>4 DEF CoverInv, StatusCovered
    <2>6. StepsCovered(v)
      BY <1>1, <2>3, SelectionCovers DEF TruthInv
    <2>7. StatusCovered(snapshot)' /\ StepsCovered(snapshot)'
      BY <2>2, <2>4, <2>5, <2>6 DEF StatusCovered, StepsCovered
    <2> QED
      BY <2>4, <2>5, <2>7 DEF CoverInv
  <1>7. CASE SendSnapshot
    <2>1. PICK x : x = [snapshot EXCEPT !.logs = CommittedLogs]
      OBVIOUS
    <2>2. PICK s : s = [type |-> "snapshot", execution |-> x]
      OBVIOUS
    <2>3. /\ inbox' = Append(inbox, s) /\ view' = view /\ endpoint = "readLogs"
          /\ endpoint' = "sent"
      BY <1>7, <2>1, <2>2 DEF SendSnapshot
    <2>4. x.status = snapshot.status /\ x.steps = snapshot.steps
      BY <2>1 DEF LiveInv, Sound, Shown
    <2>5. s.type = "snapshot" /\ s.execution = x
      BY <2>2
    <2>6. inbox = <<>> /\ StatusCovered(x) /\ StepsCovered(x)
      BY <2>3, <2>4 DEF CoverInv, StatusCovered, StepsCovered
    <2>7. inbox' = <<s>>
      BY <2>3, <2>6
    <2>8. NotTakenBack(Picture(view'), s)
      BY <2>5 DEF NotTakenBack
    <2>9. StatusCovered(x)' /\ StepsCovered(x)'
      BY <2>3, <2>6 DEF StatusCovered, StepsCovered
    <2>10. StatusCovered(inbox[1].execution)' /\ StepsCovered(inbox[1].execution)'
      BY <2>5, <2>7, <2>9 DEF StatusCovered, StepsCovered
    <2> QED
      BY <2>3, <2>7, <2>8, <2>10 DEF CoverInv
  <1>8. CASE Receive
    <2>1. PICK m \in Messages : m = inbox[1]
      BY <1>8 DEF Receive, LiveInv
    <2>2. /\ 1 \in DOMAIN inbox /\ Head(inbox) = m
          /\ m.type = "snapshot" => Sound(m.execution)
      BY <1>8, <2>1 DEF Receive, LiveInv
    <2>3. PICK v : v = view'
      OBVIOUS
    <2>4. v = Apply(view, m) /\ Sound(view)
      BY <1>8, <2>2, <2>3 DEF Receive, LiveInv
    <2>5. /\ \A i \in DOMAIN inbox' : i + 1 \in DOMAIN inbox /\ inbox'[i] = inbox[i + 1]
          /\ \A i \in DOMAIN inbox' : i \in Nat \ {0}
      BY <1>8 DEF Receive, LiveInv
    <2>6. endpoint' = endpoint /\ endpoint \notin {"none", "accepted", "readSteps", "readLogs"}
      BY <1>8 DEF Receive, CoverInv
    <2>7. \A i \in DOMAIN inbox' : inbox'[i].type # "snapshot"
      BY <2>5 DEF CoverInv
    <2>8. ASSUME NEW j \in DOMAIN inbox' PROVE NotTakenBack(Picture(view), inbox[j])'
      <3>1. PICK n : n = inbox'[j] /\ n = inbox[j + 1]
        BY <2>5
      <3>2. NotTakenBack(Picture(view), n) /\ NotTakenBack(m, n)
        BY <2>1, <2>2, <2>5, <2>8, <3>1 DEF CoverInv
      <3>3. NotTakenBack(Picture(v), n)
        BY <2>2, <2>4, <3>2, AppliedNotTakenBack
      <3> QED
        BY <2>3, <3>1, <3>3
    <2>9. ASSUME NEW i \in DOMAIN inbox', NEW j \in DOMAIN inbox', i < j
          PROVE  NotTakenBack(inbox[i], inbox[j])'
      BY <2>5, <2>9 DEF CoverInv
    <2> QED
      BY <2>6, <2>7, <2>8, <2>9 DEF CoverInv
  <1>9. ASSUME NEW w \in Workers, PublishEvent(w), inbox' # inbox PROVE CoverInv'
    <2>1. PICK n : n = EventOf(w)
      OBVIOUS
    <2>2. /\ inbox' = Append(inbox, n) /\ pc[w] \in PublishPcs /\ job[w] = Watched
          /\ endpoint = "subscribed" /\ UNCHANGED <<endpoint, view>>
      BY <1>9, <2>1 DEF PublishEvent, Publish, Forwards
    <2>3. n.type # "snapshot"
      BY <2>1, <2>2, EventIsDelta
    <2>4. \A m \in Messages : MessageTold(m) => NotTakenBack(m, n)
      BY <2>1, <2>2, EventIsFresh, FreshTakesNothingBack
    <2>5. \A i \in DOMAIN inbox : NotTakenBack(inbox[i], n)
      BY <2>4 DEF LiveInv, TruthInv
    <2>6. Picture(view) \in Messages /\ MessageTold(Picture(view))
      BY DEF Picture, Messages, LiveInv, Sound, MessageTold, TruthInv
    <2>7. NotTakenBack(Picture(view), n)
      BY <2>4, <2>6
    <2>8. /\ DOMAIN inbox' = 1..(Len(inbox) + 1) /\ DOMAIN inbox = 1..Len(inbox)
          /\ Len(inbox) \in Nat
          /\ \A i \in DOMAIN inbox' : inbox'[i] = IF i \in DOMAIN inbox THEN inbox[i] ELSE n
      BY <2>2 DEF LiveInv
    <2>9. \A i \in DOMAIN inbox' : inbox'[i].type = "snapshot" => i \in DOMAIN inbox
      BY <2>3, <2>8
    <2>10. \A i \in DOMAIN inbox' : NotTakenBack(Picture(view), inbox'[i])
      BY <2>7, <2>8 DEF CoverInv
    <2>11. \A i, j \in DOMAIN inbox' : i < j => NotTakenBack(inbox'[i], inbox'[j])
      BY <2>5, <2>8 DEF CoverInv
    <2> QED
      BY <2>2, <2>8, <2>9, <2>10, <2>11 DEF CoverInv, StatusCovered, StepsCovered
  <1> QED
    BY <1>2, <1>3, <1>4, <1>5, <1>6, <1>7, <1>8, <1>9
       DEF LiveNext, SilentStep, PublishEvent, EndpointStep, ReadExecution, Drop, Rest, allVars,
           liveVars

LEMMA CoverInvariant == SingleDelivery => (LiveSpec => []CoverInv)
  <1> SUFFICES ASSUME SingleDelivery PROVE LiveSpec => []CoverInv
    OBVIOUS
  <1>1. LiveInit => CoverInv
    BY DEF LiveInit, CoverInv
  <1>2. SafetyInv /\ CarryInv /\ DeliveryInv /\ PublishInv /\ LiveInv /\ TruthInv /\ CoverInv
          /\ [LiveNext]_allVars => CoverInv'
    BY CoverStep
  <1> QED
    BY <1>1, <1>2, PageOnlyWatches, SafetyInvariant, CarryInvariant, DeliveryInvariant,
       PublishInvariant, LiveInvariant, TruthInvariant, PTL DEF LiveSpec

\* No event and no snapshot takes back what the page has shown: not an event that
\* is older than the snapshot, nor the snapshot of a reconnected page, although
\* the endpoint reads before it subscribes and the reducer overwrites.
THEOREM ShownIsNotTakenBack == SingleDelivery => (LiveSpec => ViewNeverRegresses)
  <1> SUFFICES ASSUME SingleDelivery PROVE LiveSpec => ViewNeverRegresses
    OBVIOUS
  <1> DEFINE Kept ==
        /\ view.status \in Terminal => view'.status = view.status
        /\ \A i \in DOMAIN view.steps : \E j \in DOMAIN view'.steps :
              /\ TimelineKeys'[j] = TimelineKeys[i]
              /\ view.steps[i].status \in {"succeeded", "failed"} =>
                    view'.steps[j] = view.steps[i]
  <1>1. LiveInv /\ TruthInv /\ CoverInv /\ [LiveNext]_allVars => [Kept]_allVars
    <2> SUFFICES ASSUME LiveInv, TruthInv, CoverInv, [LiveNext]_allVars PROVE Kept
      OBVIOUS
    <2>1. CASE view' = view
      BY <2>1 DEF TimelineKeys
    <2>2. CASE Receive
      <3>1. PICK v : v = view'
        OBVIOUS
      <3>2. StatusCovered(v) /\ StepsCovered(v)
        BY <2>2, <3>1, ReceivedCovers
      <3> QED
        BY <3>1, <3>2 DEF StatusCovered, StepsCovered, SameAttempt, Verdicts, TimelineKeys
    <2> QED
      BY <2>1, <2>2
         DEF LiveNext, SilentStep, PublishEvent, Connect, EndpointStep, ReadExecution, ReadSteps,
             SendSnapshot, Subscribe, Drop, Rest, allVars, liveVars
  <1> QED
    BY <1>1, LiveInvariant, TruthInvariant, CoverInvariant, PTL DEF LiveSpec, ViewNeverRegresses

----------------------------------------------------------------------------
(* A line is committed by one statement and published by a later one.  Only  *)
(* a snapshot read in between has a line that is still to come.              *)

LinePcs == {"pubStarted", "pubLogStarted", "pubLogFailed", "pubLogCompleted", "pubLogDone"}

\* The line a run publishes at p, about attempt a of stage i.
RunLine(p, i, a) ==
    CASE p = "pubStarted"      -> [key |-> None, attempt |-> 0, line |-> "started"]
      [] p = "pubLogDone"      -> [key |-> None, attempt |-> 0, line |-> "completed"]
      [] p = "pubLogStarted"   -> [key |-> Key(i), attempt |-> a, line |-> "started"]
      [] p = "pubLogFailed"    -> [key |-> Key(i), attempt |-> a, line |-> "failed"]
      [] p = "pubLogCompleted" -> [key |-> Key(i), attempt |-> a, line |-> "completed"]

\* The lines about to be published, and those on their way.
Publishing == {RunLine(pc[w], stage[w], attempt[w]) :
                  w \in {v \in Workers : job[v] = Watched /\ pc[v] \in LinePcs}}

OnTheWay == {inbox[i].log : i \in {j \in DOMAIN inbox : inbox[j].type = "log"}}

\* What the page shows once it has received the snapshot.
Source == IF inbox # <<>> /\ inbox[1].type = "snapshot" THEN inbox[1].execution ELSE view

AtMostOneLine(s) == \A l, k \in s : l = k

LinesInv ==
    /\ Publishing \cap OnTheWay = {}
    /\ \A i, j \in DOMAIN inbox :
          inbox[i].type = "log" /\ inbox[j].type = "log" /\ inbox[i].log = inbox[j].log => i = j
    /\ AtMostOneLine(view.again)
    /\ endpoint \in {"sent", "subscribed"} =>
          AtMostOneLine(Source.again \cup (Source.logs \cap (Publishing \cup OnTheWay)))

LEMMA LineEvent ==
  ASSUME NEW w \in Workers, pc[w] \in PublishPcs
  PROVE  /\ EventOf(w).type = "log" <=> pc[w] \in LinePcs
         /\ pc[w] \in LinePcs => EventOf(w).log = RunLine(pc[w], stage[w], attempt[w])
  <1>1. CASE pc[w] = "pubStarted"
    BY <1>1 DEF LinePcs, EventOf, RunLine, ExecLogEvent
  <1>2. CASE pc[w] = "pubLogDone"
    BY <1>2 DEF LinePcs, EventOf, RunLine, ExecLogEvent
  <1>3. CASE pc[w] = "pubLogStarted"
    BY <1>3 DEF LinePcs, EventOf, RunLine, StepLogEvent
  <1>4. CASE pc[w] = "pubLogFailed"
    BY <1>4 DEF LinePcs, EventOf, RunLine, StepLogEvent
  <1>5. CASE pc[w] = "pubLogCompleted"
    BY <1>5 DEF LinePcs, EventOf, RunLine, StepLogEvent
  <1>6. CASE pc[w] \notin LinePcs
    BY <1>6 DEF LinePcs, PublishPcs, EventOf, StatusEvent, StepEvent
  <1> QED
    BY <1>1, <1>2, <1>3, <1>4, <1>5, <1>6 DEF LinePcs

\* A line that nobody can have been told is nowhere.
LEMMA UntoldIsNew ==
  ASSUME LiveInv, TruthInv, NEW l, ~LineTold(l)
  PROVE  l \notin Source.logs /\ l \notin OnTheWay
  <1>1. l \notin view.logs
    BY DEF TruthInv, Told
  <1>2. \A i \in DOMAIN inbox : inbox[i].type = "snapshot" => l \notin inbox[i].execution.logs
    BY DEF TruthInv, MessageTold, Told
  <1>3. \A i \in DOMAIN inbox : inbox[i].type = "log" => inbox[i].log # l
    BY DEF TruthInv, MessageTold
  <1>4. inbox # <<>> => 1 \in DOMAIN inbox
    BY DEF LiveInv
  <1> QED
    BY <1>1, <1>2, <1>3, <1>4 DEF Source, OnTheWay

\* A line that is about to be published was written just now, or starts the
\* execution.
LEMMA PublishingStep ==
  ASSUME SafetyInv, CarryInv, DeliveryInv, PublishInv, [Next]_vars, NEW l \in Publishing'
  PROVE  l \in Publishing \/ ~LineTold(l)
  <1>1. PICK w \in Workers :
           /\ job'[w] = Watched /\ pc'[w] \in LinePcs
           /\ l = RunLine(pc'[w], stage'[w], attempt'[w])
    BY DEF Publishing
  <1>2. /\ TypeInv /\ NoneLeft /\ Watched \in Executions /\ None \notin Keys
        /\ StatusKnown(w) /\ Unwritten(w) /\ ExecLinesAt(Watched)
    BY LiveProgressAssumption
       DEF LiveProgressAssumption, SafetyInv, DeliveryInv, NoneLeft, PublishInv
  <1>3. CASE ~Moves(w)
    <2>1. UNCHANGED <<pc[w], job[w], stage[w], attempt[w]>>
      BY <1>2, <1>3, NextMoves DEF Still
    <2> QED
      BY <1>1, <2>1 DEF Publishing
  <1>4. CASE Moves(w) /\ pc'[w] = "pubStarted"
    <2>1. Publish(w) /\ pc[w] = "pubRunning"
      BY <1>2, <1>4, ComesFrom
    <2>2. job[w] = Watched
      BY <1>1, <2>1 DEF Publish
    <2>3. exec[Watched].status = "queued"
      BY <1>2, <2>1, <2>2 DEF StatusKnown, StartPcs
    <2>4. Unstarted(Watched)
      BY <2>1, <2>2, <2>3 DEF Unstarted
    <2>5. l.key = None /\ l.line = "started"
      BY <1>1, <1>4 DEF RunLine
    <2> QED
      BY <2>4, <2>5 DEF LineTold
  <1>5. CASE Moves(w) /\ pc'[w] = "pubLogDone"
    <2>1. LogCompleted(w)
      BY <1>2, <1>5, ComesFrom
    <2>2. job[w] = Watched /\ pc[w] = "logDone"
      BY <1>1, <2>1 DEF LogCompleted, taskVars, Goto
    <2>3. "completed" \notin execLog[Watched]
      BY <1>2, <2>2 DEF ExecLinesAt, Runs, RunPcs, DbPcs
    <2>4. l.key = None /\ l.line = "completed"
      BY <1>1, <1>5 DEF RunLine
    <2> QED
      BY <2>3, <2>4 DEF LineTold
  <1>6. CASE Moves(w) /\ pc'[w] \in {"pubLogStarted", "pubLogFailed", "pubLogCompleted"}
    <2>1. /\ LogLine(w) /\ pc[w] \in LogPcs
          /\ pc'[w] = "pubLogStarted"   => pc[w] = "logStarted"
          /\ pc'[w] = "pubLogFailed"    => pc[w] = "logFailed"
          /\ pc'[w] = "pubLogCompleted" => pc[w] = "logCompleted"
      BY <1>2, <1>6, ComesFrom DEF LogLine
    <2>2. job[w] = Watched /\ stage'[w] = stage[w] /\ attempt'[w] = attempt[w]
      BY <1>1, <2>1 DEF LogLine, taskVars
    <2>3. Key(stage[w]) \in Keys
      BY <1>2, <2>1, RowType DEF LogPcs, StagePcs, OpenPcs, FailedPcs, DonePcs
    <2>4. /\ l.key = Key(stage[w]) /\ l.attempt = attempt[w]
          /\ pc'[w] = "pubLogStarted"   => l.line = "started"
          /\ pc'[w] = "pubLogFailed"    => l.line = "failed"
          /\ pc'[w] = "pubLogCompleted" => l.line = "completed"
      BY <1>1, <1>6, <2>2 DEF RunLine
    <2>5. l.line \notin RowLines(w)
      BY <1>2, <1>6, <2>1, <2>4 DEF Unwritten
    <2> QED
      BY <1>2, <2>2, <2>3, <2>4, <2>5 DEF LineTold, RowLines
  <1> QED
    BY <1>1, <1>3, <1>4, <1>5, <1>6 DEF LinePcs

\* Whoever publishes about an execution is its only run.
LEMMA OnePublishing ==
  ASSUME TypeInv, DeliveryInv
  PROVE  /\ AtMostOneLine(Publishing)
         /\ \A w \in Workers : /\ Publish(w)
                               /\ job[w] = Watched
                               /\ pc[w] \in LinePcs
                               => Publishing' = {}
  <1>1. MessageAlone(Watched)
    BY LiveProgressAssumption DEF LiveProgressAssumption, DeliveryInv
  <1>2. \A w \in Workers : job[w] = Watched /\ pc[w] \in LinePcs => Runs(w, Watched)
    BY DEF LinePcs, Runs, RunPcs, PublishPcs
  <1>3. AtMostOneLine(Publishing)
    BY <1>1, <1>2 DEF MessageAlone, AtMostOneLine, Publishing
  <1>4. ASSUME NEW w \in Workers, Publish(w), job[w] = Watched, pc[w] \in LinePcs,
               NEW v \in Workers, job'[v] = Watched, pc'[v] \in LinePcs
        PROVE  FALSE
    <2>1. job' = job /\ pc' = [pc EXCEPT ![w] = AfterPublish(pc[w])]
      BY <1>4 DEF Publish
    <2>2. AfterPublish(pc[w]) \notin LinePcs
      BY <1>4 DEF AfterPublish, LinePcs
    <2>3. v # w => pc'[v] = pc[v]
      BY <2>1
    <2>4. v # w
      BY <1>4, <2>1, <2>2 DEF TypeInv, TypeOK
    <2> QED
      BY <1>1, <1>2, <1>4, <2>1, <2>3, <2>4 DEF MessageAlone
  <1> QED
    BY <1>3, <1>4 DEF Publishing


LEMMA LinesStep ==
  ASSUME SafetyInv, CarryInv, DeliveryInv, PublishInv, LiveInv, TruthInv, CoverInv, LinesInv,
         [LiveNext]_allVars
  PROVE  LinesInv'
  <1>1. TypeInv /\ [Next]_vars /\ AtMostOneLine(Publishing)
    BY WatchingIsPassive, OnePublishing DEF SafetyInv, allVars
  <1>2. \A l \in Publishing' :
           l \in Publishing \/ (l \notin Source.logs /\ l \notin OnTheWay)
    BY <1>1, PublishingStep, UntoldIsNew
  <1>3. ASSUME inbox' = inbox, view' = view,
               endpoint' \in {"sent", "subscribed"} => endpoint \in {"sent", "subscribed"}
        PROVE  LinesInv'
    <2>1. OnTheWay' = OnTheWay /\ Source' = Source
      BY <1>3 DEF OnTheWay, Source
    <2>2. Publishing' \cap OnTheWay' = {}
      BY <1>2, <2>1 DEF LinesInv
    <2>3. Source'.logs \cap (Publishing' \cup OnTheWay') \subseteq Source.logs \cap (Publishing \cup OnTheWay)
      BY <1>2, <2>1
    <2>4. endpoint' \in {"sent", "subscribed"} =>
             AtMostOneLine(Source'.again \cup (Source'.logs \cap (Publishing' \cup OnTheWay')))
      BY <1>3, <2>1, <2>3 DEF LinesInv, AtMostOneLine
    <2>5. /\ \A i, j \in DOMAIN inbox' :
                inbox'[i].type = "log" /\ inbox'[j].type = "log" /\ inbox'[i].log = inbox'[j].log
                   => i = j
          /\ AtMostOneLine(view'.again)
      BY <1>3 DEF LinesInv
    <2> QED
      BY <2>2, <2>4, <2>5 DEF LinesInv, AtMostOneLine
  <1>4. CASE Closed /\ view' = view
    BY <1>4 DEF Closed, LinesInv, OnTheWay, AtMostOneLine
  <1>5. CASE SendSnapshot
    <2>1. PICK x : x = [snapshot EXCEPT !.logs = CommittedLogs]
      OBVIOUS
    <2>2. PICK s : s = [type |-> "snapshot", execution |-> x]
      OBVIOUS
    <2>3. /\ inbox' = Append(inbox, s) /\ view' = view /\ endpoint = "readLogs"
          /\ UNCHANGED vars
      BY <1>5, <2>1, <2>2 DEF SendSnapshot
    <2>4. inbox = <<>>
      BY <2>3 DEF CoverInv
    <2>5. inbox' = <<s>> /\ s.type = "snapshot" /\ s.execution = x
      BY <2>2, <2>3, <2>4
    <2>6. x.again = {}
      BY <2>1 DEF LiveInv, Sound, Shown
    <2>7. OnTheWay' = {} /\ Source' = x
      BY <2>5 DEF OnTheWay, Source
    <2>8. Publishing' = Publishing
      BY <2>3 DEF Publishing, vars, workerVars
    <2>9. AtMostOneLine(Source'.again \cup (Source'.logs \cap (Publishing' \cup OnTheWay')))
      BY <1>1, <2>6, <2>7, <2>8 DEF AtMostOneLine
    <2>10. AtMostOneLine(view'.again)
      BY <2>3 DEF LinesInv
    <2> QED
      BY <2>5, <2>7, <2>9, <2>10 DEF LinesInv, AtMostOneLine
  <1>6. CASE Receive
    <2>1. PICK m \in Messages : m = inbox[1]
      BY <1>6 DEF Receive, LiveInv
    <2>2. /\ inbox # <<>> /\ 1 \in DOMAIN inbox /\ Head(inbox) = m
          /\ \A i \in DOMAIN inbox' : i + 1 \in DOMAIN inbox /\ inbox'[i] = inbox[i + 1]
          /\ \A i \in DOMAIN inbox : i = 1 \/ (i - 1 \in DOMAIN inbox' /\ inbox'[i - 1] = inbox[i])
          /\ DOMAIN inbox' \subseteq Nat \ {0} /\ DOMAIN inbox \subseteq Nat \ {0}
          /\ inbox' # <<>> => 1 \in DOMAIN inbox'
      BY <1>6, <2>1 DEF Receive, LiveInv
    <2>3. /\ view' = Apply(view, m) /\ Sound(view) /\ UNCHANGED vars
          /\ m.type = "snapshot" => Sound(m.execution)
          /\ endpoint \in {"sent", "subscribed"}
      BY <1>6, <2>1, <2>2 DEF Receive, LiveInv, CoverInv
    <2>4. Publishing' = Publishing
      BY <2>3 DEF Publishing, vars, workerVars
    <2>5. \A i \in DOMAIN inbox' : inbox'[i].type # "snapshot"
      BY <2>2 DEF CoverInv
    <2>6. Source' = view'
      BY <2>2, <2>5 DEF Source
    <2>7. \A i, j \in DOMAIN inbox' :
             inbox'[i].type = "log" /\ inbox'[j].type = "log" /\ inbox'[i].log = inbox'[j].log => i = j
      BY <2>2 DEF LinesInv
    <2>8. OnTheWay' \subseteq OnTheWay /\ (m.type = "log" => m.log \in OnTheWay \ OnTheWay')
      <3>1. \A l \in OnTheWay' : \E i \in DOMAIN inbox' : inbox'[i].type = "log" /\ inbox'[i].log = l
        BY DEF OnTheWay
      <3>2. OnTheWay' \subseteq OnTheWay
        BY <2>2, <3>1 DEF OnTheWay
      <3>3. m.type = "log" => m.log \in OnTheWay
        BY <2>1, <2>2 DEF OnTheWay
      <3>4. m.type = "log" => m.log \notin OnTheWay'
        <4> SUFFICES ASSUME m.type = "log", m.log \in OnTheWay' PROVE FALSE
          OBVIOUS
        <4>1. PICK i \in DOMAIN inbox' : inbox'[i].type = "log" /\ inbox'[i].log = m.log
          BY <3>1
        <4>2. i + 1 \in DOMAIN inbox /\ inbox[i + 1].type = "log" /\ inbox[i + 1].log = m.log
          BY <2>2, <4>1
        <4>3. i + 1 = 1
          BY <2>1, <2>2, <4>2 DEF LinesInv
        <4> QED
          BY <2>2, <4>3
      <3> QED
        BY <3>2, <3>3, <3>4
    <2>9. AtMostOneLine(Source.again \cup (Source.logs \cap (Publishing \cup OnTheWay)))
      BY <2>3 DEF LinesInv
    <2>10. /\ view'.again \cup (view'.logs \cap (Publishing \cup OnTheWay'))
                \subseteq Source.again \cup (Source.logs \cap (Publishing \cup OnTheWay))
      <3>1. CASE m.type = "snapshot"
        <4>1. Source = m.execution
          BY <2>1, <2>2, <3>1 DEF Source
        <4>2. view'.again = m.execution.again /\ view'.logs = m.execution.logs
          BY <2>3, <3>1 DEF Apply, Sound, Shown
        <4> QED
          BY <2>8, <4>1, <4>2
      <3>2. CASE m.type \in {"execution_update", "step_update"}
        <4>1. Source = view
          BY <2>1, <2>2, <3>2 DEF Source
        <4>2. view'.again = view.again /\ view'.logs = view.logs
          BY <2>3, <3>2 DEF Apply, Sound, Shown
        <4> QED
          BY <2>8, <4>1, <4>2
      <3>3. CASE m.type = "log"
        <4>1. Source = view
          BY <2>1, <2>2, <3>3 DEF Source
        <4>2. /\ view'.again = view.again \cup (view.logs \cap {m.log})
              /\ view'.logs = view.logs \cup {m.log}
          BY <2>3, <3>3 DEF Apply, AddLine, Sound, Shown
        <4>3. m.log \in OnTheWay /\ m.log \notin Publishing /\ m.log \notin OnTheWay'
          BY <2>8, <3>3 DEF LinesInv
        <4> QED
          BY <2>8, <4>1, <4>2, <4>3
      <3> QED
        BY <3>1, <3>2, <3>3 DEF Messages, Updates
    <2>11. /\ AtMostOneLine(view'.again)
           /\ AtMostOneLine(Source'.again \cup (Source'.logs \cap (Publishing' \cup OnTheWay')))
      BY <2>4, <2>6, <2>9, <2>10 DEF AtMostOneLine
    <2>12. Publishing' \cap OnTheWay' = {}
      BY <2>4, <2>8 DEF LinesInv
    <2> QED
      BY <2>7, <2>11, <2>12 DEF LinesInv, AtMostOneLine
  <1>7. ASSUME NEW w \in Workers, PublishEvent(w), inbox' # inbox PROVE LinesInv'
    <2>1. PICK n : n = EventOf(w)
      OBVIOUS
    <2>2. /\ inbox' = Append(inbox, n) /\ Publish(w) /\ pc[w] \in PublishPcs /\ job[w] = Watched
          /\ endpoint = "subscribed" /\ UNCHANGED <<endpoint, view>>
      BY <1>7, <2>1 DEF PublishEvent, Publish, Forwards
    <2>3. n.type # "snapshot"
      BY <2>1, <2>2, EventIsDelta
    <2>4. /\ DOMAIN inbox' = 1..(Len(inbox) + 1) /\ DOMAIN inbox = 1..Len(inbox)
          /\ Len(inbox) \in Nat /\ inbox'[Len(inbox) + 1] = n
          /\ \A i \in DOMAIN inbox' : inbox'[i] = IF i \in DOMAIN inbox THEN inbox[i] ELSE n
      BY <2>2 DEF LiveInv
    <2>5. Source' = Source
      <3>1. CASE inbox = <<>>
        BY <2>2, <2>3, <3>1 DEF Source
      <3>2. CASE inbox # <<>>
        <4>1. inbox' # <<>> /\ inbox'[1] = inbox[1]
          BY <2>2, <3>2 DEF LiveInv
        <4> QED
          BY <2>2, <3>2, <4>1 DEF Source
      <3> QED
        BY <3>1, <3>2
    <2>6. AtMostOneLine(view'.again)
      BY <2>2 DEF LinesInv
    <2>7. CASE pc[w] \in LinePcs
      <3>1. n.log \in Publishing
        BY <2>1, <2>2, <2>7, LineEvent DEF Publishing
      <3>2. Publishing' = {}
        BY <1>1, <2>2, <2>7, OnePublishing
      <3>3. OnTheWay' \subseteq OnTheWay \cup {n.log}
        BY <2>4 DEF OnTheWay
      <3>4. n.log \notin OnTheWay
        BY <3>1 DEF LinesInv
      <3>5. \A i \in DOMAIN inbox : inbox[i].type = "log" => inbox[i].log # n.log
        BY <3>4 DEF OnTheWay
      <3>6. \A i, j \in DOMAIN inbox' :
               inbox'[i].type = "log" /\ inbox'[j].type = "log" /\ inbox'[i].log = inbox'[j].log
                  => i = j
        BY <2>4, <3>5 DEF LinesInv
      <3>7. AtMostOneLine(Source'.again \cup (Source'.logs \cap (Publishing' \cup OnTheWay')))
        BY <2>2, <2>5, <3>1, <3>2, <3>3 DEF LinesInv, AtMostOneLine
      <3> QED
        BY <2>6, <3>2, <3>6, <3>7 DEF LinesInv, AtMostOneLine
    <2>8. CASE pc[w] \notin LinePcs
      <3>1. n.type # "log"
        BY <2>1, <2>2, <2>8, LineEvent
      <3>2. OnTheWay' \subseteq OnTheWay
        BY <2>4, <3>1 DEF OnTheWay
      <3>3. \A i, j \in DOMAIN inbox' :
               inbox'[i].type = "log" /\ inbox'[j].type = "log" /\ inbox'[i].log = inbox'[j].log
                  => i = j
        BY <2>4, <3>1 DEF LinesInv
      <3>4. Publishing' \cap OnTheWay' = {}
        BY <1>2, <3>2 DEF LinesInv
      <3>5. AtMostOneLine(Source'.again \cup (Source'.logs \cap (Publishing' \cup OnTheWay')))
        BY <1>2, <2>2, <2>5, <3>2 DEF LinesInv, AtMostOneLine
      <3> QED
        BY <2>6, <3>3, <3>4, <3>5 DEF LinesInv, AtMostOneLine
    <2> QED
      BY <2>7, <2>8
  <1> QED
    BY <1>3, <1>4, <1>5, <1>6, <1>7
       DEF LiveNext, SilentStep, PublishEvent, Connect, EndpointStep, ReadExecution, ReadSteps,
           Subscribe, Drop, Rest, allVars, liveVars

LEMMA LinesInvariant == SingleDelivery => (LiveSpec => []LinesInv)
  <1> SUFFICES ASSUME SingleDelivery PROVE LiveSpec => []LinesInv
    OBVIOUS
  <1>1. LiveInit => LinesInv
    <2> SUFFICES ASSUME LiveInit PROVE LinesInv
      OBVIOUS
    <2>1. inbox = <<>> /\ endpoint = "none" /\ view.again = {}
      BY DEF LiveInit, Blank
    <2>2. OnTheWay = {}
      BY <2>1 DEF OnTheWay
    <2> QED
      BY <2>1, <2>2 DEF LinesInv, AtMostOneLine
  <1>2. SafetyInv /\ CarryInv /\ DeliveryInv /\ PublishInv /\ LiveInv /\ TruthInv /\ CoverInv
          /\ LinesInv /\ [LiveNext]_allVars => LinesInv'
    BY LinesStep
  <1> QED
    BY <1>1, <1>2, PageOnlyWatches, SafetyInvariant, CarryInvariant, DeliveryInvariant,
       PublishInvariant, LiveInvariant, TruthInvariant, CoverInvariant, PTL DEF LiveSpec

\* The log panel shows one line twice at most: a line of a snapshot can come again
\* only if its run had committed it and not yet published it when the endpoint
\* read the logs, and of those there is one.
THEOREM OneLineTwiceAtMost == SingleDelivery => (LiveSpec => []OneLineTwice)
  <1>1. LinesInv => OneLineTwice
    <2> SUFFICES ASSUME LinesInv PROVE OneLineTwice
      OBVIOUS
    <2>1. \A l, k \in view.again : l = k
      BY DEF LinesInv, AtMostOneLine
    <2>2. Cardinality(view.again) \in 0..1
      BY <2>1, AtMostOne
    <2> QED
      BY <2>2 DEF OneLineTwice, RepeatedLines
  <1> QED
    BY <1>1, LinesInvariant, PTL

=============================================================================
