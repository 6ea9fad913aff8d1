------------------------------ MODULE Dashboard ------------------------------
(* Workflows beside their executions: they are created while pages list      *)
(* them, executions are triggered on the page of one, and the dashboard asks *)
(* for both lists at once.                                                   *)
EXTENDS Listings

CONSTANTS
    Stored,           \* workflows that are there from the start
    WorkflowsLimit    \* what the pages ask for

\* As the executions, workflows are known by the begin of their transactions.
ASSUME DashboardAssumption ==
    /\ Workflows \subseteq Nat /\ IsFiniteSet(Workflows)
    /\ Stored \subseteq Workflows
    /\ WorkflowsLimit \in Nat \ {0}

VARIABLES
    wtx,     \* the transaction of each workflow
    names    \* a request of some page to /workflows

boardVars == <<wtx, names>>
allVars   == <<vars, boardVars>>

NoNames == [stage |-> "idle", known |-> {}, total |-> 0, items |-> {}]

BoardInit ==
    /\ Init
    /\ wtx = [w \in Workflows |-> IF w \in Stored THEN "committed" ELSE "none"]
    /\ names = NoNames

CommittedWorkflows == {w \in Workflows : wtx[w] = "committed"}

----------------------------------------------------------------------------
(* POST /workflows and POST /workflows/{id}/executions.                      *)

SetWorkflow(w, from, to) ==
    /\ wtx[w] = from
    /\ wtx' = [wtx EXCEPT ![w] = to]
    /\ UNCHANGED <<vars, names>>

BeginWorkflow(w) ==
    /\ \A v \in Workflows : v < w => wtx[v] # "none"
    /\ SetWorkflow(w, "none", "open")

CommitWorkflow(w) == SetWorkflow(w, "open", "committed")
AbortWorkflow(w)  == SetWorkflow(w, "open", "aborted")

\* The button is on the page of a workflow, which is found or answers 404.
\* Nothing deletes a workflow, so the endpoint finds it too.
Trigger(u) ==
    /\ WorkflowPage[u] \in CommittedWorkflows
    /\ Click(u)
    /\ UNCHANGED boardVars

----------------------------------------------------------------------------
(* The pages.  One is looked at at a time: they do not disturb each other.   *)

NothingOpen == query.stage = "idle" /\ names.stage = "idle"

AskNames == names' = [NoNames EXCEPT !.stage = "asked", !.known = CommittedWorkflows]

\* The page of all workflows.
OpenWorkflows ==
    /\ NothingOpen
    /\ AskNames
    /\ UNCHANGED <<vars, wtx>>

\* getWorkflow, and then its executions.
OpenWorkflow ==
    /\ NothingOpen
    /\ \E w \in CommittedWorkflows : AskWorkflow(w)
    /\ UNCHANGED boardVars

OpenExecutions ==
    /\ NothingOpen
    /\ AskExecutions
    /\ UNCHANGED boardVars

\* Both requests are on their way before either is answered.
OpenDashboard ==
    /\ NothingOpen
    /\ AskRecent /\ AskNames
    /\ UNCHANGED wtx

CountWorkflows ==
    /\ names.stage = "asked"
    /\ names' = [names EXCEPT !.stage = "counted", !.total = Cardinality(CommittedWorkflows)]
    /\ UNCHANGED <<vars, wtx>>

\* Bug: the order is ascending.
SelectOldestWorkflows ==
    /\ names.stage = "counted"
    /\ names' = [names EXCEPT !.stage = "answered",
                              !.items = Oldest(CommittedWorkflows, WorkflowsLimit)]
    /\ UNCHANGED <<vars, wtx>>

\* order_by(created_at.desc()).limit(limit)
SelectWorkflows ==
    /\ names.stage = "counted"
    /\ names' = [names EXCEPT !.stage = "answered",
                              !.items = Newest(CommittedWorkflows, WorkflowsLimit)]
    /\ UNCHANGED <<vars, wtx>>

ListRows == (CountRows \/ SelectRows) /\ UNCHANGED boardVars

\* The page is left, or one of its requests fails and it shows the error alone.
ClosePage ==
    /\ ~NothingOpen
    /\ Leave \/ (query.stage = "idle" /\ UNCHANGED vars)
    /\ names' = NoNames
    /\ UNCHANGED wtx

BoardNext ==
    \/ \E w \in Workflows : BeginWorkflow(w) \/ CommitWorkflow(w) \/ AbortWorkflow(w)
    \/ \E u \in Users :
          \/ Trigger(u)
          \/ (BeginTrigger(u) \/ Answer(u) \/ Refused(u) \/ NetworkError(u)) /\ UNCHANGED boardVars
    \/ \E i \in Ids :
          (CommitTrigger(i) \/ AbortTrigger(i) \/ RunExecution(i)) /\ UNCHANGED boardVars
    \/ OpenWorkflows \/ OpenWorkflow \/ OpenExecutions \/ OpenDashboard
    \/ CountWorkflows \/ SelectWorkflows \/ ListRows \/ ClosePage

BoardSpec == BoardInit /\ [][BoardNext]_allVars

----------------------------------------------------------------------------
(* Properties.                                                               *)

\* The dashboard has answers to both its requests.
Loaded == names.stage = "answered" /\ query.stage = "answered"

Newer(w) == {v \in CommittedWorkflows : v > w}

\* The rows that were there when the dashboard asked.
OldRows == query.known \cap query.items

\* Although the two lists of the dashboard are read by four statements of two
\* transactions, a row that was there when it was opened has the name of its
\* workflow, unless there are as many newer workflows as the page asks for; and
\* the tile counts no fewer workflows than these rows belong to.
DashboardIsCoherent ==
    Loaded =>
        /\ \A i \in OldRows :
              \/ WorkflowPage[owner[i]] \in names.items
              \/ Cardinality(Newer(WorkflowPage[owner[i]])) >= WorkflowsLimit
        /\ Cardinality({WorkflowPage[owner[i]] : i \in OldRows}) <= names.total
=============================================================================
