--------------------------- MODULE DashboardProofs ---------------------------
(* For any number of workflows, users and clicks: the two lists of the       *)
(* dashboard fit each other, and workflows change nothing about the button.  *)
EXTENDS Dashboard, ListingsProofs

NamesType ==
    [stage : {"idle", "asked", "counted", "answered"}, known : SUBSET Workflows,
     total : Nat, items : SUBSET Workflows]

BoardTypes ==
    /\ wtx \in [Workflows -> TxStates]
    /\ names \in NamesType
    /\ query \in QueryType /\ query.known \subseteq Committed

\* Whoever waits for an execution, or has one, found its workflow committed.
Founded ==
    /\ \A u \in Users : awaits[u] # Nothing => WorkflowPage[u] \in CommittedWorkflows
    /\ \A i \in Ids : tx[i] # "none" =>
          owner[i] \in Users /\ WorkflowPage[owner[i]] \in CommittedWorkflows

\* A workflow that was there when the page asked is counted, and is listed but
\* for the newer ones.
NamesInv ==
    /\ names.known \subseteq CommittedWorkflows
    /\ names.stage \in {"counted", "answered"} => Cardinality(names.known) <= names.total
    /\ names.stage = "answered" =>
          \A w \in names.known \ names.items : Cardinality(Newer(w)) >= WorkflowsLimit

\* The dashboard asks for both lists at one moment.
BothInv ==
    query.stage # "idle" /\ names.stage # "idle" =>
        \A i \in query.known : WorkflowPage[owner[i]] \in names.known

BoardInv == BoardTypes /\ Founded /\ NamesInv /\ BothInv

----------------------------------------------------------------------------
\* Beside the workflows the listings behave as they do alone.
LEMMA BoardStepIsListingStep == [BoardNext]_allVars => [Next]_vars
<1> SUFFICES ASSUME [BoardNext]_allVars PROVE [Next]_vars
  OBVIOUS
<1>1. ASSUME NEW u \in Users, Trigger(u) PROVE Next
  BY <1>1 DEF Trigger, Next
<1>2. CASE OpenWorkflow \/ OpenExecutions \/ OpenDashboard \/ ListRows
  BY <1>2 DEF OpenWorkflow, CommittedWorkflows, OpenExecutions, OpenDashboard, ListRows, Next, ListStep
<1>3. CASE ClosePage
  BY <1>3 DEF ClosePage, Next, ListStep
<1>4. CASE OpenWorkflows \/ CountWorkflows \/ SelectWorkflows
  BY <1>4 DEF OpenWorkflows, CountWorkflows, SelectWorkflows
<1>5. ASSUME NEW w \in Workflows, BeginWorkflow(w) \/ CommitWorkflow(w) \/ AbortWorkflow(w)
      PROVE  UNCHANGED vars
  BY <1>5 DEF BeginWorkflow, CommitWorkflow, AbortWorkflow, SetWorkflow
<1>6. CASE UNCHANGED allVars
  BY <1>6 DEF allVars
<1> QED
  BY <1>1, <1>2, <1>3, <1>4, <1>5, <1>6 DEF BoardNext, Next

LEMMA WorkflowsFinite ==
    /\ \A S \in SUBSET Workflows : IsFiniteSet(S) /\ Cardinality(S) \in Nat
    /\ \A S \in SUBSET Workflows : \A T \in SUBSET S : Cardinality(T) <= Cardinality(S)
  BY DashboardAssumption, FS_Subset, FS_CardinalityType DEF DashboardAssumption

\* No workflow ceases to be committed.
LEMMA CommittedStays ==
    ASSUME BoardTypes, [BoardNext]_allVars
    PROVE  /\ wtx' \in [Workflows -> TxStates]
           /\ CommittedWorkflows \subseteq CommittedWorkflows'
<1>1. ASSUME NEW w \in Workflows, BeginWorkflow(w) \/ CommitWorkflow(w) \/ AbortWorkflow(w)
      PROVE  /\ wtx' \in [Workflows -> TxStates]
             /\ CommittedWorkflows \subseteq CommittedWorkflows'
  BY <1>1 DEF BeginWorkflow, CommitWorkflow, AbortWorkflow, SetWorkflow, BoardTypes, TxStates,
              CommittedWorkflows
<1>2. CASE UNCHANGED wtx
  BY <1>2 DEF BoardTypes, CommittedWorkflows
<1>3. UNCHANGED wtx \/ \E w \in Workflows : BeginWorkflow(w) \/ CommitWorkflow(w) \/ AbortWorkflow(w)
  BY DEF BoardNext, allVars, boardVars, Trigger, OpenWorkflows, OpenWorkflow, OpenExecutions,
         OpenDashboard, CountWorkflows, SelectWorkflows, ListRows, ClosePage
<1> QED
  BY <1>1, <1>2, <1>3

----------------------------------------------------------------------------
LEMMA FoundedKept ==
    ASSUME ButtonTypes, BoardTypes, Founded, [BoardNext]_allVars
    PROVE  Founded'
<1> USE AwaitsDistinct DEF ButtonTypes, Founded, rowVars, buttonVars
<1>1. CommittedWorkflows \subseteq CommittedWorkflows'
  BY CommittedStays
<1>2. ASSUME NEW u \in Users, Trigger(u) PROVE Founded'
  BY <1>1, <1>2 DEF Trigger, Click, Send
<1>3. ASSUME NEW u \in Users, BeginTrigger(u) PROVE Founded'
  BY <1>1, <1>3 DEF BeginTrigger
<1>4. ASSUME NEW u \in Users, Answer(u) \/ Refused(u) \/ NetworkError(u) PROVE Founded'
  BY <1>1, <1>4 DEF Answer, Refused, NetworkError, Throw
<1>5. ASSUME NEW i \in Ids, CommitTrigger(i) \/ AbortTrigger(i) \/ RunExecution(i) PROVE Founded'
  BY <1>1, <1>5 DEF CommitTrigger, AbortTrigger, RunExecution
<1>6. CASE UNCHANGED <<tx, owner, awaits>>
  BY <1>1, <1>6
<1>7. \/ UNCHANGED <<tx, owner, awaits>>
      \/ \E u \in Users :
            Trigger(u) \/ BeginTrigger(u) \/ Answer(u) \/ Refused(u) \/ NetworkError(u)
      \/ \E i \in Ids : CommitTrigger(i) \/ AbortTrigger(i) \/ RunExecution(i)
  BY DEF BoardNext, allVars, vars, BeginWorkflow, CommitWorkflow, AbortWorkflow, SetWorkflow,
         OpenWorkflows, OpenWorkflow, OpenExecutions, OpenDashboard, CountWorkflows,
         SelectWorkflows, ListRows, ClosePage, AskExecutions, AskRecent, AskWorkflow, Ask,
         CountRows, SelectRows, Leave
<1> QED
  BY <1>2, <1>3, <1>4, <1>5, <1>6, <1>7

\* What a step does to the request for workflows.
LEMMA NamesStep ==
    ASSUME [BoardNext]_allVars
    PROVE  \/ names' = names
           \/ names' = NoNames
           \/ AskNames /\ (OpenWorkflows \/ OpenDashboard)
           \/ CountWorkflows
           \/ SelectWorkflows
  BY DEF BoardNext, allVars, boardVars, Trigger, BeginWorkflow, CommitWorkflow, AbortWorkflow,
         SetWorkflow, OpenWorkflows, OpenWorkflow, OpenExecutions, OpenDashboard, ListRows, ClosePage

LEMMA NamesKept ==
    ASSUME BoardTypes, NamesInv, [BoardNext]_allVars
    PROVE  names' \in NamesType /\ NamesInv'
<1>1. /\ CommittedWorkflows \subseteq CommittedWorkflows'
      /\ CommittedWorkflows \in SUBSET Workflows /\ CommittedWorkflows' \in SUBSET Workflows
  BY CommittedStays DEF CommittedWorkflows
<1>2. \A w \in Workflows : Cardinality(Newer(w)) <= Cardinality(Newer(w)')
                           /\ Cardinality(Newer(w)) \in Nat /\ Cardinality(Newer(w)') \in Nat
  <2> SUFFICES ASSUME NEW w \in Workflows
               PROVE  Cardinality(Newer(w)) <= Cardinality(Newer(w)')
                      /\ Cardinality(Newer(w)) \in Nat /\ Cardinality(Newer(w)') \in Nat
    OBVIOUS
  <2>1. Newer(w)' \in SUBSET Workflows /\ Newer(w) \in SUBSET Newer(w)'
    BY <1>1 DEF Newer
  <2> QED
    BY <2>1, WorkflowsFinite
<1>3. WorkflowsLimit \in Nat
  BY DashboardAssumption DEF DashboardAssumption
<1>4. CASE names' = names
  <2>1. names.known \in SUBSET Workflows
    BY DEF BoardTypes, NamesType
  <2>2. names'.stage = "answered" =>
            \A w \in names'.known \ names'.items : Cardinality(Newer(w)') >= WorkflowsLimit
    BY <1>2, <1>3, <1>4, <2>1 DEF NamesInv
  <2> QED
    BY <1>1, <1>4, <2>2 DEF NamesInv, BoardTypes
<1>5. CASE names' = NoNames
  BY <1>5 DEF NoNames, NamesType, NamesInv
<1>6. CASE AskNames /\ (OpenWorkflows \/ OpenDashboard)
  <2>1. names' = [stage |-> "asked", known |-> CommittedWorkflows, total |-> 0, items |-> {}]
    BY <1>6 DEF AskNames, NoNames
  <2> QED
    BY <1>1, <2>1 DEF NamesType, NamesInv
<1>7. CASE CountWorkflows
  <2>1. /\ names' = [names EXCEPT !.stage = "counted", !.total = Cardinality(CommittedWorkflows)]
        /\ CommittedWorkflows' = CommittedWorkflows
    BY <1>7 DEF CountWorkflows, CommittedWorkflows
  <2>2. Cardinality(CommittedWorkflows) \in Nat
        /\ Cardinality(names.known) <= Cardinality(CommittedWorkflows)
    BY <1>1, WorkflowsFinite DEF NamesInv
  <2> QED
    BY <2>1, <2>2 DEF NamesType, NamesInv, BoardTypes
<1>8. CASE SelectWorkflows
  <2> DEFINE new == Newest(CommittedWorkflows, WorkflowsLimit)
  <2>1. /\ names.stage = "counted"
        /\ names' = [names EXCEPT !.stage = "answered", !.items = new]
        /\ CommittedWorkflows' = CommittedWorkflows
    BY <1>8 DEF SelectWorkflows, CommittedWorkflows
  <2>2. new \in SUBSET Workflows
    BY <1>1 DEF Newest
  <2>3. \A w \in CommittedWorkflows \ new : Cardinality(Newer(w)) >= WorkflowsLimit
    <3> SUFFICES ASSUME NEW w \in CommittedWorkflows \ new
                 PROVE  Cardinality(Newer(w)) >= WorkflowsLimit
      OBVIOUS
    <3>1. ~(Cardinality(Newer(w)) < WorkflowsLimit)
      BY Zenon DEF Newest, Newer
    <3>2. w \in Workflows
      BY <1>1
    <3> QED
      BY <1>2, <1>3, <3>1, <3>2
  <2>4. \A w \in Workflows : Newer(w)' = Newer(w)
    BY <2>1 DEF Newer
  <2> QED
    BY <2>1, <2>2, <2>3, <2>4 DEF NamesType, NamesInv, BoardTypes, Newer
<1> QED
  BY <1>4, <1>5, <1>6, <1>7, <1>8, NamesStep

----------------------------------------------------------------------------
(* The two requests.                                                         *)

LEMMA KnownStays ==
    ASSUME ButtonTypes, BoardTypes, [Next]_vars
    PROVE  query' \in QueryType /\ query'.known \subseteq Committed'
<1>1. CASE query'.known = query.known
  BY <1>1, QueryStep, ExecutionsStay DEF BoardTypes
<1>2. CASE query'.known \subseteq Committed /\ UNCHANGED <<tx, owner>>
  BY <1>2, QueryStep, ExecutionsStay DEF BoardTypes
<1> QED
  BY <1>1, <1>2, QueryStep DEF BoardTypes

LEMMA BothKept ==
    ASSUME ButtonTypes, BoardInv, [BoardNext]_allVars
    PROVE  BothInv'
<1> USE DEF BoardInv
<1>1. /\ \A i \in Committed : owner'[i] = owner[i]
      /\ query.known \subseteq Committed
  BY BoardStepIsListingStep, ExecutionsStay DEF BoardTypes, Committed
<1>2. CASE /\ query'.known = query.known /\ (query'.stage # "idle" => query.stage # "idle")
           /\ names'.known = names.known /\ (names'.stage # "idle" => names.stage # "idle")
  BY <1>1, <1>2 DEF BothInv
<1>3. CASE query'.stage = "idle" \/ names'.stage = "idle"
  BY <1>3 DEF BothInv
<1>4. CASE OpenDashboard
  <2>1. query'.known \subseteq Committed /\ UNCHANGED <<tx, owner>>
    <3>1. Ask(None, "any", RecentLimit) /\ RecentLimit \in Nat
      BY <1>4, ListingsAssumption DEF OpenDashboard, AskRecent, ListingsAssumption
    <3> QED
      BY <3>1, QueryAsked
  <2>2. names'.known = CommittedWorkflows
    BY <1>4 DEF OpenDashboard, AskNames, NoNames
  <2>3. \A i \in Committed : WorkflowPage[owner[i]] \in CommittedWorkflows
    BY DEF Founded, Committed
  <2> QED
    BY <1>1, <2>1, <2>2, <2>3 DEF BothInv
<1>5. CASE CountWorkflows \/ SelectWorkflows
  <2>1. query' = query
    BY <1>5 DEF CountWorkflows, SelectWorkflows, vars
  <2>2. names'.known = names.known /\ names.stage # "idle"
    BY <1>5 DEF CountWorkflows, SelectWorkflows, BoardTypes, NamesType
  <2> QED
    BY <1>2, <2>1, <2>2
<1>6. CASE UNCHANGED names /\ (UNCHANGED query \/ ListRows)
  <2>1. query'.known = query.known /\ (query'.stage # "idle" => query.stage # "idle")
    BY <1>6 DEF ListRows, CountRows, SelectRows, BoardTypes, QueryType
  <2> QED
    BY <1>2, <1>6, <2>1
<1>7. CASE OpenWorkflows \/ OpenWorkflow \/ OpenExecutions \/ ClosePage
  <2>1. CASE OpenWorkflows
    BY <1>3, <2>1 DEF OpenWorkflows, NothingOpen, vars
  <2>2. CASE OpenWorkflow \/ OpenExecutions
    BY <1>3, <2>2 DEF OpenWorkflow, OpenExecutions, NothingOpen, boardVars
  <2>3. CASE ClosePage
    BY <1>3, <2>3 DEF ClosePage, NoNames
  <2> QED
    BY <1>7, <2>1, <2>2, <2>3
<1> QED
  BY <1>4, <1>5, <1>6, <1>7
  DEF BoardNext, allVars, vars, boardVars, Trigger, Click, Send, BeginTrigger, Answer, Refused,
      NetworkError, CommitTrigger, AbortTrigger, RunExecution, BeginWorkflow, CommitWorkflow,
      AbortWorkflow, SetWorkflow, ListRows

----------------------------------------------------------------------------
LEMMA BoardInvInit == BoardInit => BoardInv
<1> SUFFICES ASSUME BoardInit PROVE BoardInv
  OBVIOUS
<1>1. query = [stage |-> "idle", workflow |-> None, status |-> "any", limit |-> 1,
               known |-> {}, total |-> 0, items |-> {}]
      /\ names = [stage |-> "idle", known |-> {}, total |-> 0, items |-> {}]
  BY DEF BoardInit, Init, NoQuery, NoNames
<1>2. query \in QueryType /\ names \in NamesType
  BY <1>1 DEF QueryType, NamesType
<1>3. wtx \in [Workflows -> TxStates]
  BY DEF BoardInit, TxStates
<1>4. Founded
  BY DEF BoardInit, Init, Founded
<1> QED
  BY <1>1, <1>2, <1>3, <1>4 DEF BoardInv, BoardTypes, NamesInv, BothInv

LEMMA BoardKeepsListings == BoardSpec => Spec
<1>1. BoardInit => Init
  BY DEF BoardInit
<1> QED
  BY <1>1, BoardStepIsListingStep, PTL DEF BoardSpec, Spec

LEMMA BoardInvHolds == BoardSpec => []BoardInv
<1>1. ButtonInv /\ BoardInv /\ [BoardNext]_allVars => BoardInv'
  <2> SUFFICES ASSUME ButtonInv, BoardInv, [BoardNext]_allVars PROVE BoardInv'
    OBVIOUS
  <2>1. ButtonTypes /\ BoardTypes /\ Founded /\ NamesInv /\ [Next]_vars
    BY BoardStepIsListingStep DEF ButtonInv, BoardInv
  <2>2. BoardTypes'
    BY <2>1, CommittedStays, NamesKept, KnownStays DEF BoardTypes
  <2> QED
    BY <2>1, <2>2, FoundedKept, NamesKept, BothKept DEF BoardInv
<1> QED
  BY <1>1, BoardInvInit, BoardKeepsListings, ButtonInvHolds, PTL DEF BoardSpec

\* Whatever is created, committed or rolled back between the four statements of a
\* dashboard, its rows have their workflows' names and its tile counts them.
THEOREM DashboardFits == BoardSpec => []DashboardIsCoherent
<1>1. BoardInv => DashboardIsCoherent
  <2> SUFFICES ASSUME BoardInv, Loaded PROVE DashboardIsCoherent
    BY DEF DashboardIsCoherent
  <2>1. \A i \in OldRows : WorkflowPage[owner[i]] \in names.known
    BY DEF BoardInv, BothInv, Loaded, OldRows
  <2>2. \A i \in OldRows :
            \/ WorkflowPage[owner[i]] \in names.items
            \/ Cardinality(Newer(WorkflowPage[owner[i]])) >= WorkflowsLimit
    BY <2>1 DEF BoardInv, NamesInv, Loaded
  <2> DEFINE shown == {WorkflowPage[owner[i]] : i \in OldRows}
  <2>3. shown \in SUBSET names.known /\ names.known \in SUBSET Workflows
    BY <2>1 DEF BoardInv, BoardTypes, NamesType
  <2>4. /\ Cardinality(shown) <= Cardinality(names.known)
        /\ Cardinality(shown) \in Nat /\ Cardinality(names.known) \in Nat
    <3>1. shown \in SUBSET Workflows
      BY <2>3
    <3> QED
      BY <2>3, <3>1, WorkflowsFinite
  <2>5. Cardinality(names.known) <= names.total /\ names.total \in Nat
    BY DEF BoardInv, BoardTypes, NamesInv, NamesType, Loaded
  <2> QED
    BY <2>2, <2>4, <2>5 DEF DashboardIsCoherent
<1> QED
  BY <1>1, BoardInvHolds, PTL

\* A user has at most one execution more than there were answers lost, on the
\* page of a new workflow as on that of an old one.
THEOREM BoardAnswersBoundExecutions == BoardSpec => []OneExecutionPerAnswer
BY BoardKeepsListings, AnswersBoundExecutions, PTL
=============================================================================
