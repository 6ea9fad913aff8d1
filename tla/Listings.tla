------------------------------ MODULE Listings ------------------------------
(* The pages that list executions, and the button that triggers one: what a  *)
(* request to /executions answers while others trigger, and what the button  *)
(* makes of an answer that is late, lost or an error.                        *)
(*                                                                           *)
(* An execution is known by the order in which its transaction began, which  *)
(* is the order of created_at: PostgreSQL's now() is the begin of the        *)
(* transaction.  Transactions may commit in another order.                   *)
EXTENDS Naturals, FiniteSets

CONSTANTS
    Users,             \* each on the page of one workflow
    Workflows,
    WorkflowPage,      \* which workflow's page a user is on
    ExecutionsLimit, WorkflowLimit, RecentLimit,  \* what the pages ask for
    MaxExecutions,     \* bound on the clicks
    MaxFailures,       \* bound on answers lost and transactions rolled back
    None

ASSUME ListingsAssumption ==
    /\ WorkflowPage \in [Users -> Workflows]
    /\ None \notin Workflows
    /\ {ExecutionsLimit, WorkflowLimit, RecentLimit} \subseteq Nat \ {0}
    /\ MaxExecutions \in Nat /\ MaxFailures \in Nat

VARIABLES
    tx,          \* the transaction of each execution
    owner,       \* who triggered it
    status,      \* its committed status
    page,        \* what a user sees: 0 is the workflow's page
    isSubmitting, error,     \* state of the button
    awaits,      \* what the button waits for: a request on its way, or its execution
    unanswered,  \* history: executions of a user whose answer was lost
    clicks, failures,
    query        \* a request of some page to /executions

rowVars    == <<tx, owner, status>>
buttonVars == <<page, isSubmitting, error, awaits, unanswered>>
vars       == <<rowVars, buttonVars, clicks, failures, query>>

Ids      == 1..MaxExecutions
\* RUNNING stands for RETRYING too, and the last for every terminal status.
Statuses == {"queued", "running", "ended"}

\* What a button waits for.
Nothing    == [what |-> "nothing", execution |-> 0]
Request    == [what |-> "request", execution |-> 0]
Handler(i) == [what |-> "handler", execution |-> i]

Committed == {i \in Ids : tx[i] = "committed"}

NoQuery == [stage |-> "idle", workflow |-> None, status |-> "any", limit |-> 1,
            known |-> {}, total |-> 0, items |-> {}]

Init ==
    /\ tx = [i \in Ids |-> "none"]
    /\ owner = [i \in Ids |-> None]
    /\ status = [i \in Ids |-> "none"]
    /\ page = [u \in Users |-> 0]
    /\ isSubmitting = [u \in Users |-> FALSE]
    /\ error = [u \in Users |-> FALSE]
    /\ awaits = [u \in Users |-> Nothing]
    /\ unanswered = [u \in Users |-> 0]
    /\ clicks = 0
    /\ failures = 0
    /\ query = NoQuery

----------------------------------------------------------------------------
(* TriggerExecutionButton and the request it sends.                          *)

Send(u) ==
    /\ page[u] = 0 /\ clicks < MaxExecutions
    /\ clicks' = clicks + 1
    /\ isSubmitting' = [isSubmitting EXCEPT ![u] = TRUE]
    /\ error' = [error EXCEPT ![u] = FALSE]
    /\ awaits' = [awaits EXCEPT ![u] = Request]
    /\ UNCHANGED <<rowVars, page, unanswered, failures, query>>

\* Bug: the button is not disabled while it waits.
ClickTwice(u) == Send(u)

\* handleClick up to its await.
Click(u) == ~isSubmitting[u] /\ Send(u)

\* The handler's first statement begins the transaction.
BeginTrigger(u) ==
    /\ awaits[u] = Request
    /\ \E i \in Ids :
          /\ tx[i] = "none"
          /\ \A j \in 1..(i - 1) : tx[j] # "none"
          /\ tx' = [tx EXCEPT ![i] = "open"]
          /\ owner' = [owner EXCEPT ![i] = u]
          /\ awaits' = [awaits EXCEPT ![u] = Handler(i)]
    /\ UNCHANGED <<status, page, isSubmitting, error, unanswered, clicks, failures, query>>

\* Bug: mark_queued is left out.
CommitTriggerPending(i) ==
    /\ tx[i] = "open"
    /\ tx' = [tx EXCEPT ![i] = "committed"]
    /\ status' = [status EXCEPT ![i] = "pending"]
    /\ UNCHANGED <<owner, buttonVars, clicks, failures, query>>

\* get_db commits before FastAPI sends the answer; it does so too when nobody
\* waits for the answer any more.
CommitTrigger(i) ==
    /\ tx[i] = "open"
    /\ tx' = [tx EXCEPT ![i] = "committed"]
    /\ status' = [status EXCEPT ![i] = "queued"]
    /\ UNCHANGED <<owner, buttonVars, clicks, failures, query>>

Spend == failures < MaxFailures /\ failures' = failures + 1

AbortTrigger(i) ==
    /\ tx[i] = "open"
    /\ Spend
    /\ tx' = [tx EXCEPT ![i] = "aborted"]
    /\ UNCHANGED <<owner, status, buttonVars, clicks, query>>

\* The answer arrives: router.push.  isSubmitting stays, as the page is left.
Answer(u) ==
    /\ \E i \in Ids :
          /\ awaits[u] = Handler(i) /\ tx[i] = "committed"
          /\ page' = [page EXCEPT ![u] = i]
    /\ awaits' = [awaits EXCEPT ![u] = Nothing]
    /\ UNCHANGED <<rowVars, isSubmitting, error, unanswered, clicks, failures, query>>

\* apiFetch throws ApiError: the catch of handleClick.
Throw(u) ==
    /\ awaits' = [awaits EXCEPT ![u] = Nothing]
    /\ isSubmitting' = [isSubmitting EXCEPT ![u] = FALSE]
    /\ error' = [error EXCEPT ![u] = TRUE]

\* The response is not ok.
Refused(u) ==
    /\ \E i \in Ids : awaits[u] = Handler(i) /\ tx[i] = "aborted"
    /\ Throw(u)
    /\ UNCHANGED <<rowVars, page, unanswered, clicks, failures, query>>

\* fetch rejects: the request is lost, or the answer is while the handler goes on.
NetworkError(u) ==
    /\ awaits[u] # Nothing
    /\ Spend
    /\ Throw(u)
    /\ unanswered' = [unanswered EXCEPT ![u] =
           IF \E i \in Ids : awaits[u] = Handler(i) /\ tx[i] # "aborted" THEN @ + 1 ELSE @]
    /\ UNCHANGED <<rowVars, page, clicks, query>>

\* The workers move a committed execution on.
RunExecution(i) ==
    /\ \/ status[i] = "queued" /\ status' = [status EXCEPT ![i] = "running"]
       \/ status[i] = "running" /\ status' = [status EXCEPT ![i] = "ended"]
    /\ UNCHANGED <<tx, owner, buttonVars, clicks, failures, query>>

----------------------------------------------------------------------------
(* GET /executions: two statements, each of which sees what is committed     *)
(* when it runs.                                                             *)

InWorkflow(i, q) == q.workflow = None \/ WorkflowPage[owner[i]] = q.workflow

Matching(q) ==
    {i \in Committed : InWorkflow(i, q) /\ q.status \in {"any", status[i]}}

Ask(workflow, wanted, limit) ==
    /\ query.stage = "idle"
    /\ LET q == [NoQuery EXCEPT !.stage = "asked", !.workflow = workflow,
                                !.status = wanted, !.limit = limit]
       IN  query' = [q EXCEPT !.known = Matching(q)]
    /\ UNCHANGED <<rowVars, buttonVars, clicks, failures>>

\* The list of all executions, with its filter.
AskExecutions == \E s \in Statuses \cup {"any"} : Ask(None, s, ExecutionsLimit)

\* The page of a workflow.
AskWorkflow(w) == Ask(w, "any", WorkflowLimit)

\* The dashboard.
AskRecent == Ask(None, "any", RecentLimit)

\* Bug: the filters are missing from count_stmt.
TotalOfAll(q) == Cardinality(Committed)

Total(q) == Cardinality(Matching(q))

CountRows ==
    /\ query.stage = "asked"
    /\ query' = [query EXCEPT !.stage = "counted", !.total = Total(query)]
    /\ UNCHANGED <<rowVars, buttonVars, clicks, failures>>

\* Bug: the order is ascending.
Oldest(rows, limit) == {i \in rows : Cardinality({j \in rows : j < i}) < limit}

\* order_by(created_at.desc()).limit(limit); no page passes an offset.
Newest(rows, limit) == {i \in rows : Cardinality({j \in rows : j > i}) < limit}

SelectRows ==
    /\ query.stage = "counted"
    /\ query' = [query EXCEPT !.stage = "answered", !.items = Newest(Matching(query), query.limit)]
    /\ UNCHANGED <<rowVars, buttonVars, clicks, failures>>

\* The page is left, or cannot be loaded.
Leave ==
    /\ query.stage # "idle"
    /\ query' = NoQuery
    /\ UNCHANGED <<rowVars, buttonVars, clicks, failures>>

ListStep ==
    \/ AskExecutions \/ AskRecent \/ \E w \in Workflows : AskWorkflow(w)
    \/ CountRows \/ SelectRows \/ Leave

----------------------------------------------------------------------------
Next ==
    \/ \E u \in Users :
          Click(u) \/ BeginTrigger(u) \/ Answer(u) \/ Refused(u) \/ NetworkError(u)
    \/ \E i \in Ids : CommitTrigger(i) \/ AbortTrigger(i) \/ RunExecution(i)
    \/ ListStep

Spec == Init /\ [][Next]_vars

----------------------------------------------------------------------------
(* Properties.                                                               *)

\* Every variable stays in its range, and an execution has a status when, and
\* only when, it is committed; the first it has is QUEUED.
ListingsTypeOK ==
    /\ tx \in [Ids -> {"none", "open", "committed", "aborted"}]
    /\ owner \in [Ids -> Users \cup {None}]
    /\ status \in [Ids -> Statuses \cup {"none"}]
    /\ page \in [Users -> Ids \cup {0}]
    /\ isSubmitting \in [Users -> BOOLEAN] /\ error \in [Users -> BOOLEAN]
    /\ \A u \in Users : awaits[u] \in {Nothing, Request} \cup {Handler(i) : i \in Ids}
    /\ unanswered \in [Users -> 0..MaxFailures]
    /\ clicks \in 0..MaxExecutions /\ failures \in 0..MaxFailures
    /\ query.known \subseteq Ids /\ query.items \subseteq Ids
    /\ query.total \in 0..MaxExecutions
    /\ \A i \in Ids : status[i] # "none" <=> tx[i] = "committed"

\* However often the button is pressed, it stores one execution more than there
\* were answers lost: it waits for each answer before the next request.
OneExecutionPerAnswer ==
    \A u \in Users :
        Cardinality({i \in Ids : owner[i] = u /\ tx[i] \in {"open", "committed"}})
            <= unanswered[u] + 1

\* A list without a status filter leaves out an execution that was committed
\* when it was asked for only when the page is full of newer ones, although
\* executions are committed between its statements and out of order.
NewestAreShown ==
    query.stage = "answered" /\ query.status = "any" =>
        \A i \in query.known \ query.items :
            /\ Cardinality(query.items) = query.limit
            /\ \A j \in query.items : j > i

\* Without a status filter a page that is not full has at least `total` rows,
\* although the two are read by two statements.
ShortPageIsWhole ==
    query.stage = "answered" /\ query.status = "any" /\ Cardinality(query.items) < query.limit
        => query.total <= Cardinality(query.items)
=============================================================================
