--------------------------- MODULE ListingsProofs ---------------------------
(* For any number of users, workflows, clicks and failures: a user's         *)
(* executions are bounded by the answers that were lost, and a list read by  *)
(* two statements hides nothing newer than what it shows.                    *)
EXTENDS Listings, FiniteSetTheorems, TLAPS

TxStates == {"none", "open", "committed", "aborted"}

ButtonTypes ==
    /\ tx \in [Ids -> TxStates]
    /\ owner \in [Ids -> Users \cup {None}]
    /\ page \in [Users -> Ids \cup {0}]
    /\ isSubmitting \in [Users -> BOOLEAN]
    /\ awaits \in [Users -> {Nothing, Request} \cup {Handler(i) : i \in Ids}]
    /\ unanswered \in [Users -> Nat]

\* The executions a user has triggered, and those among them that neither the
\* button waits for nor the user was sent to.
Triggered(u) == {i \in Ids : owner[i] = u /\ tx[i] \in {"open", "committed"}}
Current(u)   == {i \in Ids : awaits[u] = Handler(i) \/ page[u] = i}
Unclaimed(u) == Triggered(u) \ Current(u)

\* The button waits only while it is disabled and its page is open.
Waits ==
    \A u \in Users : awaits[u] # Nothing => isSubmitting[u] /\ page[u] = 0

ButtonInv ==
    /\ ButtonTypes
    /\ Waits
    /\ \A u \in Users : Cardinality(Unclaimed(u)) <= unanswered[u]

----------------------------------------------------------------------------
LEMMA IdsFinite == IsFiniteSet(Ids) /\ 0 \notin Ids
  BY FS_Interval, ListingsAssumption DEF ListingsAssumption, Ids

LEMMA UnclaimedFinite == \A u \in Users : IsFiniteSet(Unclaimed(u)) /\ Unclaimed(u) \subseteq Ids
  BY IdsFinite, FS_Subset DEF Unclaimed, Triggered

\* One element more is one more at most.
LEMMA OneMore ==
    ASSUME NEW S, NEW T, NEW x, IsFiniteSet(S), T \subseteq S \cup {x}
    PROVE  Cardinality(T) <= Cardinality(S) + 1
<1>1. IsFiniteSet(S \cup {x}) /\ Cardinality(S \cup {x}) <= Cardinality(S) + 1
  <2>1. Cardinality(S) \in Nat
    BY FS_CardinalityType
  <2>2. /\ IsFiniteSet(S \cup {x})
        /\ Cardinality(S \cup {x}) = IF x \in S THEN Cardinality(S) ELSE Cardinality(S) + 1
    BY FS_AddElement, Zenon
  <2>3. Cardinality(S \cup {x}) = Cardinality(S) \/ Cardinality(S \cup {x}) = Cardinality(S) + 1
    BY <2>2, Zenon
  <2> QED
    BY <2>1, <2>2, <2>3
<1>2. IsFiniteSet(T) /\ Cardinality(T) <= Cardinality(S \cup {x})
  BY <1>1, FS_Subset
<1> QED
  BY <1>1, <1>2, FS_CardinalityType

\* What a button waits for tells its execution.
LEMMA AwaitsDistinct ==
    /\ Nothing # Request
    /\ \A i \in Ids : Handler(i) # Nothing /\ Handler(i) # Request
    /\ \A i, j \in Ids : Handler(i) = Handler(j) => i = j
  BY DEF Nothing, Request, Handler

----------------------------------------------------------------------------
LEMMA TypesKept == ButtonTypes /\ [Next]_vars => ButtonTypes'
<1> SUFFICES ASSUME ButtonTypes, [Next]_vars PROVE ButtonTypes'
  OBVIOUS
<1> USE DEF ButtonTypes, TxStates, rowVars, buttonVars
<1>1. ASSUME NEW u \in Users, Click(u) PROVE ButtonTypes'
  BY <1>1 DEF Click, Send
<1>2. ASSUME NEW u \in Users, BeginTrigger(u) PROVE ButtonTypes'
  BY <1>2 DEF BeginTrigger
<1>3. ASSUME NEW u \in Users, Answer(u) PROVE ButtonTypes'
  BY <1>3 DEF Answer
<1>4. ASSUME NEW u \in Users, Refused(u) PROVE ButtonTypes'
  BY <1>4 DEF Refused, Throw
<1>5. ASSUME NEW u \in Users, NetworkError(u) PROVE ButtonTypes'
  BY <1>5 DEF NetworkError, Throw
<1>6. ASSUME NEW i \in Ids, CommitTrigger(i) PROVE ButtonTypes'
  BY <1>6 DEF CommitTrigger
<1>7. ASSUME NEW i \in Ids, AbortTrigger(i) PROVE ButtonTypes'
  BY <1>7 DEF AbortTrigger
<1>8. ASSUME NEW i \in Ids, RunExecution(i) PROVE ButtonTypes'
  BY <1>8 DEF RunExecution
<1>9. CASE ListStep
  BY <1>9 DEF ListStep, AskExecutions, AskWorkflow, AskRecent, Ask, CountRows, SelectRows, Leave
<1>10. CASE UNCHANGED vars
  BY <1>10 DEF vars
<1> QED
  BY <1>1, <1>2, <1>3, <1>4, <1>5, <1>6, <1>7, <1>8, <1>9, <1>10 DEF Next

LEMMA WaitsKept == ButtonTypes /\ Waits /\ [Next]_vars => Waits'
<1> SUFFICES ASSUME ButtonTypes, Waits, [Next]_vars PROVE Waits'
  OBVIOUS
<1> USE AwaitsDistinct DEF ButtonTypes, Waits, rowVars, buttonVars
<1>1. ASSUME NEW u \in Users, Click(u) PROVE Waits'
  BY <1>1 DEF Click, Send
<1>2. ASSUME NEW u \in Users, BeginTrigger(u) PROVE Waits'
  BY <1>2 DEF BeginTrigger
<1>3. ASSUME NEW u \in Users, Answer(u) PROVE Waits'
  BY <1>3 DEF Answer
<1>4. ASSUME NEW u \in Users, Refused(u) PROVE Waits'
  BY <1>4 DEF Refused, Throw
<1>5. ASSUME NEW u \in Users, NetworkError(u) PROVE Waits'
  BY <1>5 DEF NetworkError, Throw
<1>6. ASSUME NEW i \in Ids, CommitTrigger(i) PROVE Waits'
  BY <1>6 DEF CommitTrigger
<1>7. ASSUME NEW i \in Ids, AbortTrigger(i) PROVE Waits'
  BY <1>7 DEF AbortTrigger
<1>8. ASSUME NEW i \in Ids, RunExecution(i) PROVE Waits'
  BY <1>8 DEF RunExecution
<1>9. CASE ListStep
  BY <1>9 DEF ListStep, AskExecutions, AskWorkflow, AskRecent, Ask, CountRows, SelectRows, Leave
<1>10. CASE UNCHANGED vars
  BY <1>10 DEF vars
<1> QED
  BY <1>1, <1>2, <1>3, <1>4, <1>5, <1>6, <1>7, <1>8, <1>9, <1>10 DEF Next

----------------------------------------------------------------------------
(* Every step leaves the unclaimed executions of each user within those      *)
(* there were, but for the one whose answer it loses.                        *)

Within == \A v \in Users : Unclaimed(v)' \subseteq Unclaimed(v) /\ unanswered'[v] = unanswered[v]

LEMMA BoundKept ==
    ASSUME ButtonInv, Within
    PROVE  \A u \in Users : Cardinality(Unclaimed(u)') <= unanswered'[u]
<1> SUFFICES ASSUME NEW u \in Users PROVE Cardinality(Unclaimed(u)') <= unanswered'[u]
  OBVIOUS
<1>1. IsFiniteSet(Unclaimed(u)) /\ Unclaimed(u)' \subseteq Unclaimed(u)
  BY UnclaimedFinite DEF Within
<1>2. /\ Cardinality(Unclaimed(u)') <= Cardinality(Unclaimed(u))
      /\ Cardinality(Unclaimed(u)') \in Nat /\ Cardinality(Unclaimed(u)) \in Nat
  BY <1>1, FS_Subset, FS_CardinalityType
<1>3. Cardinality(Unclaimed(u)) <= unanswered[u] /\ unanswered[u] \in Nat
  BY DEF ButtonInv, ButtonTypes
<1> QED
  BY <1>2, <1>3 DEF Within

LEMMA AnswerLost ==
    ASSUME ButtonInv, NEW u \in Users, NetworkError(u)
    PROVE  \A v \in Users : Cardinality(Unclaimed(v)') <= unanswered'[v]
<1> SUFFICES ASSUME NEW v \in Users PROVE Cardinality(Unclaimed(v)') <= unanswered'[v]
  OBVIOUS
<1> USE AwaitsDistinct, IdsFinite DEF ButtonInv, ButtonTypes, Waits
<1>1. /\ awaits[u] # Nothing /\ page[u] = 0 /\ page' = page
      /\ awaits' = [awaits EXCEPT ![u] = Nothing]
      /\ tx' = tx /\ owner' = owner
  BY DEF NetworkError, Throw, rowVars
<1>2. Triggered(v)' = Triggered(v)
  BY <1>1 DEF Triggered
<1>3. IsFiniteSet(Unclaimed(v)) /\ Cardinality(Unclaimed(v)) \in Nat
  BY UnclaimedFinite, FS_CardinalityType
<1>4. CASE v # u \/ ~\E i \in Ids : awaits[u] = Handler(i) /\ tx[i] # "aborted"
  <2>1. unanswered'[v] = unanswered[v]
    BY <1>4 DEF NetworkError
  <2>2. Unclaimed(v)' \subseteq Unclaimed(v)
    BY <1>1, <1>2, <1>4 DEF Unclaimed, Triggered, Current
  <2> QED
    BY <1>3, <2>1, <2>2, FS_Subset, FS_CardinalityType
<1>5. CASE v = u /\ \E i \in Ids : awaits[u] = Handler(i) /\ tx[i] # "aborted"
  <2>1. PICK i \in Ids : awaits[u] = Handler(i)
    BY <1>5
  <2>2. unanswered'[v] = unanswered[v] + 1
    BY <1>5 DEF NetworkError
  <2>3. Unclaimed(v)' \subseteq Unclaimed(v) \cup {i}
    BY <1>1, <1>2, <1>5, <2>1 DEF Unclaimed, Current
  <2>4. Cardinality(Unclaimed(v)') <= Cardinality(Unclaimed(v)) + 1
    BY <1>3, <2>3, OneMore
  <2>5. IsFiniteSet(Unclaimed(v)')
    BY <1>3, <2>3, FS_AddElement, FS_Subset
  <2> QED
    BY <1>3, <2>2, <2>4, <2>5, FS_CardinalityType
<1> QED
  BY <1>4, <1>5

LEMMA StepKeepsBound ==
    ButtonInv /\ [Next]_vars => \A u \in Users : Cardinality(Unclaimed(u)') <= unanswered'[u]
<1> SUFFICES ASSUME ButtonInv, [Next]_vars
             PROVE  Within \/ \E u \in Users : NetworkError(u)
  BY BoundKept, AnswerLost
<1> USE AwaitsDistinct, IdsFinite
    DEF ButtonInv, ButtonTypes, TxStates, Waits, Within, Unclaimed, Triggered, Current,
        rowVars, buttonVars
<1>1. ASSUME NEW u \in Users, Click(u) PROVE Within
  BY <1>1 DEF Click, Send
<1>2. ASSUME NEW u \in Users, BeginTrigger(u) PROVE Within
  BY <1>2 DEF BeginTrigger
<1>3. ASSUME NEW u \in Users, Answer(u) PROVE Within
  BY <1>3 DEF Answer
<1>4. ASSUME NEW u \in Users, Refused(u) PROVE Within
  BY <1>4 DEF Refused, Throw
<1>5. ASSUME NEW i \in Ids, CommitTrigger(i) PROVE Within
  BY <1>5 DEF CommitTrigger
<1>6. ASSUME NEW i \in Ids, AbortTrigger(i) PROVE Within
  BY <1>6 DEF AbortTrigger
<1>7. ASSUME NEW i \in Ids, RunExecution(i) PROVE Within
  BY <1>7 DEF RunExecution
<1>8. CASE ListStep
  BY <1>8 DEF ListStep, AskExecutions, AskWorkflow, AskRecent, Ask, CountRows, SelectRows, Leave
<1>9. CASE UNCHANGED vars
  BY <1>9 DEF vars
<1> QED
  BY <1>1, <1>2, <1>3, <1>4, <1>5, <1>6, <1>7, <1>8, <1>9 DEF Next

----------------------------------------------------------------------------
LEMMA ButtonInvHolds == Spec => []ButtonInv
<1>1. Init => ButtonInv
  <2> SUFFICES ASSUME Init PROVE ButtonInv
    OBVIOUS
  <2>1. ButtonTypes /\ Waits
    BY DEF Init, ButtonTypes, TxStates, Waits
  <2>2. \A u \in Users : Unclaimed(u) = {} /\ unanswered[u] = 0
    BY DEF Init, Unclaimed, Triggered
  <2> QED
    BY <2>1, <2>2, FS_EmptySet DEF ButtonInv
<1>2. ButtonInv /\ [Next]_vars => ButtonInv'
  BY TypesKept, WaitsKept, StepKeepsBound DEF ButtonInv
<1> QED
  BY <1>1, <1>2, PTL DEF Spec

\* A user has at most one execution more than there were answers lost: the
\* button that waits is disabled, and a disabled button sends nothing.
THEOREM AnswersBoundExecutions == Spec => []OneExecutionPerAnswer
<1>1. ButtonInv => OneExecutionPerAnswer
  <2> SUFFICES ASSUME ButtonInv, NEW u \in Users
               PROVE  Cardinality(Triggered(u)) <= unanswered[u] + 1
    BY DEF OneExecutionPerAnswer, Triggered
  <2>1. \E c : Current(u) \subseteq {c}
    BY AwaitsDistinct, IdsFinite DEF ButtonInv, ButtonTypes, Waits, Current
  <2>2. PICK c : Triggered(u) \subseteq Unclaimed(u) \cup {c}
    BY <2>1 DEF Unclaimed
  <2>3. Cardinality(Triggered(u)) <= Cardinality(Unclaimed(u)) + 1
    BY <2>2, UnclaimedFinite, OneMore
  <2>4. IsFiniteSet(Triggered(u)) /\ IsFiniteSet(Unclaimed(u))
    BY IdsFinite, FS_Subset DEF Triggered, Unclaimed
  <2> QED
    BY <2>3, <2>4, FS_CardinalityType DEF ButtonInv, ButtonTypes
<1> QED
  BY <1>1, ButtonInvHolds, PTL

----------------------------------------------------------------------------
(* The listings.  What is committed stays so: between the statements of a    *)
(* request the rows that match it only become more.                          *)

QueryType ==
    [stage : {"idle", "asked", "counted", "answered"}, workflow : Workflows \cup {None},
     status : Statuses \cup {"any"}, limit : Nat, known : SUBSET Ids, total : Nat,
     items : SUBSET Ids]

\* No execution ceases to be committed, nor does it change hands.
LEMMA ExecutionsStay ==
    ASSUME ButtonTypes, [Next]_vars
    PROVE  /\ Committed \subseteq Committed'
           /\ \A i \in Ids : tx[i] # "none" => tx'[i] # "none" /\ owner'[i] = owner[i]
<1> USE DEF ButtonTypes, Committed, rowVars, buttonVars
<1>1. ASSUME NEW u \in Users, BeginTrigger(u)
      PROVE  /\ Committed \subseteq Committed'
             /\ \A i \in Ids : tx[i] # "none" => tx'[i] # "none" /\ owner'[i] = owner[i]
  BY <1>1 DEF BeginTrigger
<1>2. ASSUME NEW i \in Ids, CommitTrigger(i) \/ AbortTrigger(i)
      PROVE  /\ Committed \subseteq Committed'
             /\ \A j \in Ids : tx[j] # "none" => tx'[j] # "none" /\ owner'[j] = owner[j]
  BY <1>2 DEF CommitTrigger, AbortTrigger
<1>3. CASE UNCHANGED <<tx, owner>>
  BY <1>3
<1>4. \/ UNCHANGED <<tx, owner>>
      \/ \E u \in Users : BeginTrigger(u)
      \/ \E i \in Ids : CommitTrigger(i) \/ AbortTrigger(i)
  BY DEF Next, vars, Click, Send, Answer, Refused, NetworkError, RunExecution, ListStep,
         AskExecutions, AskRecent, AskWorkflow, Ask, CountRows, SelectRows, Leave
<1> QED
  BY <1>1, <1>2, <1>3, <1>4

\* What a page asks leaves a request.
LEMMA QueryAsked ==
    ASSUME NEW wf \in Workflows \cup {None}, NEW s \in Statuses \cup {"any"}, NEW l \in Nat,
           Ask(wf, s, l)
    PROVE  query' \in QueryType /\ query'.known \subseteq Committed /\ UNCHANGED <<tx, owner>>
<1> DEFINE q == [NoQuery EXCEPT !.stage = "asked", !.workflow = wf, !.status = s, !.limit = l]
<1>1. query' = [q EXCEPT !.known = Matching(q)] /\ UNCHANGED <<tx, owner>>
  BY DEF Ask, rowVars
<1>2. q \in QueryType
  <2>1. NoQuery \in QueryType
    BY DEF NoQuery, QueryType, Statuses
  <2> QED
    BY <2>1 DEF QueryType
<1>3. Matching(q) \subseteq Committed /\ Committed \in SUBSET Ids
  BY DEF Matching, Committed
<1> HIDE DEF q
<1>4. [q EXCEPT !.known = Matching(q)] \in QueryType
  BY <1>2, <1>3 DEF QueryType
<1>5. query'.known = Matching(q)
  BY <1>1, <1>2 DEF QueryType
<1> QED
  BY <1>1, <1>3, <1>4, <1>5

\* What a step does to the request for executions.
LEMMA QueryStep ==
    ASSUME query \in QueryType, [Next]_vars
    PROVE  /\ query' \in QueryType
           /\ \/ query'.known = query.known /\ (query'.stage # "idle" => query.stage # "idle")
              \/ query'.known \subseteq Committed /\ UNCHANGED <<tx, owner>>
<1> DEFINE Kept == query'.known = query.known /\ (query'.stage # "idle" => query.stage # "idle")
           Asked == query'.known \subseteq Committed /\ UNCHANGED <<tx, owner>>
<1>1. CASE AskExecutions \/ AskRecent \/ \E w \in Workflows : AskWorkflow(w)
  <2>1. \A l \in {ExecutionsLimit, WorkflowLimit, RecentLimit} : l \in Nat
    BY ListingsAssumption DEF ListingsAssumption
  <2> QED
    BY <1>1, <2>1, QueryAsked DEF AskExecutions, AskRecent, AskWorkflow
<1>2. CASE CountRows
  <2>1. Total(query) \in Nat
    <3>1. Matching(query) \subseteq Ids
      BY DEF Matching, Committed
    <3> QED
      BY <3>1, IdsFinite, FS_Subset, FS_CardinalityType DEF Total
  <2> QED
    BY <1>2, <2>1 DEF CountRows, QueryType
<1>3. CASE SelectRows
  <2>1. Newest(Matching(query), query.limit) \subseteq Ids
    BY DEF Newest, Matching, Committed
  <2> QED
    BY <1>3, <2>1 DEF SelectRows, QueryType
<1>4. CASE Leave
  <2>1. query' = [stage |-> "idle", workflow |-> None, status |-> "any", limit |-> 1,
                  known |-> {}, total |-> 0, items |-> {}]
        /\ UNCHANGED <<tx, owner>>
    BY <1>4 DEF Leave, NoQuery, rowVars
  <2> QED
    BY <2>1 DEF QueryType
<1>5. CASE UNCHANGED query
  BY <1>5
<1> QED
  BY <1>1, <1>2, <1>3, <1>4, <1>5
  DEF Next, vars, ListStep, Click, Send, BeginTrigger, Answer, Refused, NetworkError,
      CommitTrigger, AbortTrigger, RunExecution

LEMMA MatchingFinite ==
    ASSUME NEW q
    PROVE  /\ Matching(q) \in SUBSET Ids /\ IsFiniteSet(Matching(q))
           /\ Cardinality(Matching(q)) \in 0..MaxExecutions
<1>1. MaxExecutions \in Nat
  BY ListingsAssumption DEF ListingsAssumption
<1>2. Matching(q) \in SUBSET Ids
  BY DEF Matching, Committed
<1>3. IsFiniteSet(Ids) /\ Cardinality(Ids) = MaxExecutions
  BY <1>1, FS_Interval DEF Ids
<1>4. IsFiniteSet(Matching(q)) /\ Cardinality(Matching(q)) <= MaxExecutions
  BY <1>2, <1>3, FS_Subset
<1>5. Cardinality(Matching(q)) \in Nat
  BY <1>4, FS_CardinalityType
<1> QED
  BY <1>1, <1>2, <1>4, <1>5

----------------------------------------------------------------------------
(* ORDER BY and LIMIT: the newest rows, and as many as asked for.            *)

\* Every set of natural numbers has a least element.
LEMMA Least ==
    ASSUME NEW S \in SUBSET Nat, S # {}
    PROVE  \E x \in S : \A y \in S : x <= y
<1> DEFINE R == {ss \in Nat \X Nat : ss[1] < ss[2]}
<1>1. IsWellFoundedOn(R, Nat)
  BY NatLessThanWellFounded DEF OpToRel
<1>2. PICK x \in S : \A y \in S : ~(<<y, x>> \in R)
  <2> HIDE DEF R
  <2> QED
    BY <1>1, WFMin
<1>3. ASSUME NEW y \in S PROVE x <= y
  <2>1. ~(y < x)
    BY <1>2
  <2> QED
    BY <2>1
<1> QED
  BY <1>3

LEMMA Greatest ==
    ASSUME NEW n \in Nat, NEW S \in SUBSET (1..n), S # {}
    PROVE  \E x \in S : \A y \in S : y <= x
<1> DEFINE T == {n - x : x \in S}
<1>1. T \in SUBSET Nat /\ T # {}
  <2>1. \A x \in S : x \in 1..n
    OBVIOUS
  <2>2. \A x \in S : n - x \in Nat
    BY <2>1
  <2> QED
    BY <2>2
<1>2. PICK t \in T : \A y \in T : t <= y
  <2> HIDE DEF T
  <2> QED
    BY <1>1, Least
<1>3. PICK x \in S : t = n - x
  OBVIOUS
<1>4. ASSUME NEW y \in S PROVE y <= x
  <2>1. n - y \in T
    OBVIOUS
  <2>2. n - x <= n - y
    BY <1>2, <1>3, <2>1
  <2> QED
    BY <2>2
<1> QED
  BY <1>4

After(rows, i) == {j \in rows : j > i}

\* A row that is left out has as many newer ones on the page as the page holds.
LEMMA PageIsFull ==
    ASSUME NEW rows \in SUBSET Ids, NEW limit \in Nat, NEW i \in rows \ Newest(rows, limit)
    PROVE  /\ Cardinality(Newest(rows, limit)) = limit
           /\ \A j \in Newest(rows, limit) : j > i
<1> DEFINE shown == Newest(rows, limit)
           rest  == rows \ shown
<1>1. shown \subseteq rows /\ i \in rest
  BY DEF Newest
<1>2. MaxExecutions \in Nat /\ rows \in SUBSET (1..MaxExecutions)
  BY ListingsAssumption DEF ListingsAssumption, Ids
<1>3. IsFiniteSet(rows) /\ IsFiniteSet(shown) /\ Cardinality(shown) \in Nat
  BY <1>1, IdsFinite, FS_Subset, FS_CardinalityType
<1>4. \A j \in rows : /\ IsFiniteSet(After(rows, j)) /\ Cardinality(After(rows, j)) \in Nat
                      /\ j \in shown <=> Cardinality(After(rows, j)) < limit
  <2>1. \A j \in rows : After(rows, j) \in SUBSET rows
    BY DEF After
  <2>2. \A j \in rows : IsFiniteSet(After(rows, j))
    BY <1>3, <2>1, FS_Subset
  <2> QED
    BY <2>2, FS_CardinalityType DEF After, Newest
<1>5. \A j \in rest : j \in rows /\ j \notin shown
  OBVIOUS
<1>6. \A j \in rows \ shown : j \in rest
  OBVIOUS
<1> HIDE DEF shown, rest
<1>7. \A j \in rows : j \in Nat
  BY <1>2
<1>8. ASSUME NEW j \in shown, NEW k \in rest PROVE j > k
  <2> SUFFICES ASSUME j <= k PROVE FALSE
    BY <1>1, <1>5, <1>7
  <2>1. j \in rows /\ k \in rows
    BY <1>1, <1>5
  <2>2. After(rows, k) \subseteq After(rows, j)
    BY <1>7, <2>1 DEF After
  <2>3. Cardinality(After(rows, k)) <= Cardinality(After(rows, j))
    BY <1>4, <2>1, <2>2, FS_Subset
  <2>4. Cardinality(After(rows, j)) < limit /\ ~(Cardinality(After(rows, k)) < limit)
    BY <1>4, <1>5, <2>1
  <2> QED
    BY <1>4, <2>1, <2>3, <2>4
<1>9. Cardinality(shown) >= limit
  <2>1. PICK m \in rest : \A k \in rest : k <= m
    <3>1. rest \in SUBSET (1..MaxExecutions) /\ rest # {}
      BY <1>1, <1>2, <1>5
    <3> QED
      BY <1>2, <3>1, Greatest
  <2>2. After(rows, m) = shown
    <3>1. \A j \in rows : j > m => j \notin rest
      BY <1>5, <1>7, <2>1
    <3> QED
      BY <1>1, <1>6, <1>8, <2>1, <3>1 DEF After
  <2>3. ~(Cardinality(After(rows, m)) < limit)
    BY <1>4, <1>5, <2>1
  <2> QED
    BY <1>3, <2>2, <2>3
<1>10. Cardinality(shown) <= limit
  <2>1. CASE shown = {}
    BY <2>1, FS_EmptySet
  <2>2. CASE shown # {}
    <3>1. PICK m \in shown : \A k \in shown : m <= k
      <4>1. shown \in SUBSET Nat
        BY <1>1, <1>7
      <4> QED
        BY <2>2, <4>1, Least
    <3>2. shown \ {m} \subseteq After(rows, m)
      <4>1. \A k \in shown : k # m => k > m
        BY <1>1, <1>7, <3>1
      <4> QED
        BY <1>1, <4>1 DEF After
    <3>3. Cardinality(shown \ {m}) = Cardinality(shown) - 1
      BY <1>3, <3>1, FS_RemoveElement
    <3>4. m \in rows /\ Cardinality(shown \ {m}) <= Cardinality(After(rows, m))
      BY <1>1, <1>4, <3>1, <3>2, FS_Subset
    <3>5. Cardinality(After(rows, m)) < limit /\ Cardinality(After(rows, m)) \in Nat
      BY <1>4, <3>1, <3>4
    <3> QED
      BY <1>3, <3>3, <3>4, <3>5
  <2> QED
    BY <2>1, <2>2
<1> QED
  BY <1>1, <1>3, <1>8, <1>9, <1>10 DEF shown

----------------------------------------------------------------------------
(* A request: what was there when it was asked matches it still, what was    *)
(* counted has not become less, and the page holds what it can of it.        *)

ListInv ==
    /\ query \in QueryType /\ query.total \in 0..MaxExecutions
    /\ query.stage # "idle" /\ query.status = "any" => query.known \subseteq Matching(query)
    /\ query.stage = "counted" /\ query.status = "any" =>
          query.total <= Cardinality(Matching(query))
    /\ NewestAreShown
    /\ ShortPageIsWhole

LEMMA RequestGrows ==
    ASSUME ButtonTypes, [Next]_vars, query.status = "any", query'.status = "any",
           query'.workflow = query.workflow
    PROVE  /\ Matching(query) \subseteq Matching(query)'
           /\ Cardinality(Matching(query)) <= Cardinality(Matching(query)')
           /\ Cardinality(Matching(query)) \in Nat /\ Cardinality(Matching(query)') \in Nat
<1>1. Matching(query) \subseteq Matching(query)'
  BY ExecutionsStay DEF Matching, Committed, InWorkflow
<1>2. Matching(query)' \in SUBSET Ids /\ Matching(query) \in SUBSET Ids
  BY DEF Matching, Committed
<1>3. IsFiniteSet(Matching(query)') /\ IsFiniteSet(Matching(query))
  BY <1>2, IdsFinite, FS_Subset
<1> QED
  BY <1>1, <1>3, FS_Subset, FS_CardinalityType

LEMMA AskKeeps ==
    ASSUME NEW wf \in Workflows \cup {None}, NEW s \in Statuses \cup {"any"}, NEW l \in Nat,
           Ask(wf, s, l)
    PROVE  ListInv'
<1> DEFINE q == [NoQuery EXCEPT !.stage = "asked", !.workflow = wf, !.status = s, !.limit = l]
<1>1. /\ query' = [q EXCEPT !.known = Matching(q)]
      /\ UNCHANGED <<tx, owner, status>>
  BY DEF Ask, rowVars
<1>2. q \in QueryType /\ q.stage = "asked" /\ q.total = 0
  <2>1. NoQuery \in QueryType /\ NoQuery.total = 0
    BY DEF NoQuery, QueryType, Statuses
  <2> QED
    BY <2>1 DEF QueryType
<1>3. /\ query'.stage = "asked" /\ query'.total = 0 /\ query'.known = Matching(q)
      /\ query'.workflow = q.workflow /\ query'.status = q.status
  BY <1>1, <1>2 DEF QueryType
<1> HIDE DEF q
<1>4. query' \in QueryType
  BY QueryAsked
<1>5. Matching(q) \subseteq Matching(query)'
  BY <1>1, <1>3 DEF Matching, Committed, InWorkflow
<1>6. 0 \in 0..MaxExecutions
  BY ListingsAssumption DEF ListingsAssumption
<1> QED
  BY <1>3, <1>4, <1>5, <1>6 DEF ListInv, NewestAreShown, ShortPageIsWhole

LEMMA CountKeeps ==
    ASSUME ButtonTypes, ListInv, CountRows, [Next]_vars PROVE ListInv'
<1>1. query' = [query EXCEPT !.stage = "counted", !.total = Total(query)]
      /\ query.stage = "asked" /\ query \in QueryType
  BY DEF CountRows, ListInv
<1>2. /\ Total(query) \in 0..MaxExecutions /\ Total(query) \in Nat
      /\ Total(query) = Cardinality(Matching(query))
  BY MatchingFinite, ListingsAssumption DEF ListingsAssumption, Total
<1>3. /\ query'.stage = "counted" /\ query'.total = Total(query) /\ query'.known = query.known
      /\ query'.workflow = query.workflow /\ query'.status = query.status
      /\ query' \in QueryType
  BY <1>1, <1>2 DEF QueryType
<1>4. ASSUME query'.status = "any"
      PROVE  /\ query'.known \subseteq Matching(query)'
             /\ query'.total <= Cardinality(Matching(query)')
  BY <1>1, <1>2, <1>3, <1>4, RequestGrows DEF ListInv
<1> QED
  BY <1>2, <1>3, <1>4 DEF ListInv, NewestAreShown, ShortPageIsWhole

LEMMA SelectKeeps ==
    ASSUME ButtonTypes, ListInv, SelectRows, [Next]_vars PROVE ListInv'
<1> DEFINE rows == Matching(query)
           shown == Newest(rows, query.limit)
<1>1. query' = [query EXCEPT !.stage = "answered", !.items = shown]
      /\ query.stage = "counted" /\ query \in QueryType /\ query.limit \in Nat
  BY DEF SelectRows, ListInv, QueryType
<1>2. rows \in SUBSET Ids /\ Cardinality(rows) \in Nat /\ shown \subseteq rows
  BY MatchingFinite DEF Newest
<1>3. \A i \in rows \ shown : /\ Cardinality(shown) = query.limit
                              /\ \A j \in shown : j > i
  BY <1>1, <1>2, PageIsFull
<1> HIDE DEF shown, rows
<1>4. /\ query'.stage = "answered" /\ query'.items = shown /\ query'.total = query.total
      /\ query'.known = query.known /\ query'.limit = query.limit
      /\ query'.workflow = query.workflow /\ query'.status = query.status
      /\ query' \in QueryType
  BY <1>1, <1>2 DEF QueryType
<1>5. ASSUME query.status = "any"
      PROVE  /\ query'.known \subseteq Matching(query)'
             /\ query.known \subseteq rows
             /\ query.total <= Cardinality(rows)
  BY <1>1, <1>4, <1>5, RequestGrows DEF ListInv, rows
<1>6. NewestAreShown'
  BY <1>3, <1>4, <1>5 DEF NewestAreShown
<1>7. ShortPageIsWhole'
  <2> SUFFICES ASSUME query.status = "any", Cardinality(shown) < query.limit
               PROVE  query.total <= Cardinality(shown)
    BY <1>4 DEF ShortPageIsWhole
  <2>1. Cardinality(shown) # query.limit
    BY <1>1
  <2>2. shown = rows
    BY <1>2, <1>3, <2>1
  <2> QED
    BY <1>5, <2>2
<1> QED
  BY <1>4, <1>5, <1>6, <1>7 DEF ListInv

LEMMA LeaveKeeps == ASSUME Leave PROVE ListInv'
<1>1. query' = [stage |-> "idle", workflow |-> None, status |-> "any", limit |-> 1,
                known |-> {}, total |-> 0, items |-> {}]
  BY DEF Leave, NoQuery
<1>2. 0 \in 0..MaxExecutions
  BY ListingsAssumption DEF ListingsAssumption
<1>3. query' \in QueryType /\ query'.total = 0 /\ query'.stage = "idle"
  BY <1>1 DEF QueryType
<1> QED
  BY <1>2, <1>3 DEF ListInv, NewestAreShown, ShortPageIsWhole

LEMMA ListInvKept == ButtonTypes /\ ListInv /\ [Next]_vars => ListInv'
<1> SUFFICES ASSUME ButtonTypes, ListInv, [Next]_vars PROVE ListInv'
  OBVIOUS
<1>1. CASE AskExecutions \/ AskRecent \/ \E w \in Workflows : AskWorkflow(w)
  <2>1. \A l \in {ExecutionsLimit, WorkflowLimit, RecentLimit} : l \in Nat
    BY ListingsAssumption DEF ListingsAssumption
  <2> QED
    BY <1>1, <2>1, AskKeeps DEF AskExecutions, AskRecent, AskWorkflow
<1>2. CASE CountRows
  BY <1>2, CountKeeps
<1>3. CASE SelectRows
  BY <1>3, SelectKeeps
<1>4. CASE Leave
  BY <1>4, LeaveKeeps
<1>5. CASE UNCHANGED query
  <2>1. NewestAreShown' /\ ShortPageIsWhole'
    BY <1>5 DEF ListInv, NewestAreShown, ShortPageIsWhole
  <2>2. query.status = "any" =>
          /\ Matching(query) \subseteq Matching(query)'
          /\ Cardinality(Matching(query)) <= Cardinality(Matching(query)')
          /\ Cardinality(Matching(query)) \in Nat /\ Cardinality(Matching(query)') \in Nat
    BY <1>5, RequestGrows
  <2>3. query.total \in Nat
    BY ListingsAssumption DEF ListInv, ListingsAssumption
  <2> QED
    BY <1>5, <2>1, <2>2, <2>3 DEF ListInv
<1> QED
  BY <1>1, <1>2, <1>3, <1>4, <1>5
  DEF Next, vars, ListStep, Click, Send, BeginTrigger, Answer, Refused, NetworkError,
      CommitTrigger, AbortTrigger, RunExecution

LEMMA ListInvHolds == Spec => []ListInv
<1>1. Init => ListInv
  <2> SUFFICES ASSUME Init PROVE ListInv
    OBVIOUS
  <2>1. query = [stage |-> "idle", workflow |-> None, status |-> "any", limit |-> 1,
                 known |-> {}, total |-> 0, items |-> {}]
    BY DEF Init, NoQuery
  <2>2. 0 \in 0..MaxExecutions
    BY ListingsAssumption DEF ListingsAssumption
  <2>3. query \in QueryType /\ query.total = 0 /\ query.stage = "idle"
    BY <2>1 DEF QueryType
  <2> QED
    BY <2>2, <2>3 DEF ListInv, NewestAreShown, ShortPageIsWhole
<1>2. ButtonInv /\ ListInv /\ [Next]_vars => ListInv'
  BY ListInvKept DEF ButtonInv
<1> QED
  BY <1>1, <1>2, ButtonInvHolds, PTL DEF Spec

\* A list leaves out only what newer executions push off a full page, whatever
\* is committed between the two statements of the request.
THEOREM NewestAlwaysShown == Spec => []NewestAreShown
<1>1. ListInv => NewestAreShown
  BY DEF ListInv
<1> QED
  BY <1>1, ListInvHolds, PTL

\* A page with room left shows at least as many executions as it says there are.
THEOREM TotalNeverExceedsShortPage == Spec => []ShortPageIsWhole
<1>1. ListInv => ShortPageIsWhole
  BY DEF ListInv
<1> QED
  BY <1>1, ListInvHolds, PTL

----------------------------------------------------------------------------
(* The rows and the budgets.                                                 *)

RowTypes ==
    /\ status \in [Ids -> Statuses \cup {"none"}]
    /\ error \in [Users -> BOOLEAN]
    /\ clicks \in 0..MaxExecutions /\ failures \in 0..MaxFailures
    /\ \A u \in Users : unanswered[u] <= failures
    /\ \A i \in Ids : status[i] # "none" <=> tx[i] = "committed"

LEMMA RowTypesKept == ButtonTypes /\ RowTypes /\ [Next]_vars => RowTypes'
<1> SUFFICES ASSUME ButtonTypes, RowTypes, [Next]_vars PROVE RowTypes'
  OBVIOUS
<1>0. MaxExecutions \in Nat /\ MaxFailures \in Nat
  BY ListingsAssumption DEF ListingsAssumption
<1> USE DEF ButtonTypes, TxStates, RowTypes, Statuses, rowVars, buttonVars
<1>1. ASSUME NEW u \in Users, Click(u) PROVE RowTypes'
  BY <1>0, <1>1 DEF Click, Send
<1>2. ASSUME NEW u \in Users, BeginTrigger(u) PROVE RowTypes'
  BY <1>0, <1>2 DEF BeginTrigger
<1>3. ASSUME NEW u \in Users, Answer(u) PROVE RowTypes'
  BY <1>3 DEF Answer
<1>4. ASSUME NEW u \in Users, Refused(u) PROVE RowTypes'
  BY <1>4 DEF Refused, Throw
<1>5. ASSUME NEW u \in Users, NetworkError(u) PROVE RowTypes'
  <2>1. failures' = failures + 1 /\ failures' \in 0..MaxFailures
    BY <1>0, <1>5 DEF NetworkError, Spend
  <2>2. unanswered' \in [Users -> Nat]
        /\ \A v \in Users : unanswered'[v] = unanswered[v] \/ unanswered'[v] = unanswered[v] + 1
    BY <1>5 DEF NetworkError
  <2>3. \A v \in Users : unanswered'[v] <= failures'
    BY <1>0, <2>1, <2>2
  <2>4. error' \in [Users -> BOOLEAN] /\ UNCHANGED <<tx, status, clicks>>
    BY <1>5 DEF NetworkError, Throw
  <2> QED
    BY <2>1, <2>3, <2>4
<1>6. ASSUME NEW i \in Ids, CommitTrigger(i) PROVE RowTypes'
  BY <1>6 DEF CommitTrigger
<1>7. ASSUME NEW i \in Ids, AbortTrigger(i) PROVE RowTypes'
  BY <1>0, <1>7 DEF AbortTrigger, Spend
<1>8. ASSUME NEW i \in Ids, RunExecution(i) PROVE RowTypes'
  BY <1>8 DEF RunExecution
<1>9. CASE ListStep
  BY <1>9 DEF ListStep, AskExecutions, AskWorkflow, AskRecent, Ask, CountRows, SelectRows, Leave
<1>10. CASE UNCHANGED vars
  BY <1>10 DEF vars
<1> QED
  BY <1>1, <1>2, <1>3, <1>4, <1>5, <1>6, <1>7, <1>8, <1>9, <1>10 DEF Next

\* No variable leaves its range, and an execution has a status when, and only
\* when, it is committed.
THEOREM ListingsTypeCorrect == Spec => []ListingsTypeOK
<1>1. Init => RowTypes
  <2> SUFFICES ASSUME Init PROVE RowTypes
    OBVIOUS
  <2>1. MaxExecutions \in Nat /\ MaxFailures \in Nat
    BY ListingsAssumption DEF ListingsAssumption
  <2> QED
    BY <2>1 DEF Init, RowTypes, Statuses
<1>2. ButtonInv /\ RowTypes /\ [Next]_vars => RowTypes'
  BY RowTypesKept DEF ButtonInv
<1>3. ButtonInv /\ ListInv /\ RowTypes => ListingsTypeOK
  <2> SUFFICES ASSUME ButtonTypes, ListInv, RowTypes PROVE ListingsTypeOK
    BY DEF ButtonInv
  <2>1. query.known \subseteq Ids /\ query.items \subseteq Ids /\ query.total \in 0..MaxExecutions
    BY DEF ListInv, QueryType
  <2>2. unanswered \in [Users -> 0..MaxFailures]
    <3>1. \A u \in Users : unanswered[u] \in 0..MaxFailures
      BY ListingsAssumption DEF ListingsAssumption, ButtonTypes, RowTypes
    <3> QED
      BY <3>1 DEF ButtonTypes
  <2> QED
    BY <2>1, <2>2 DEF ListingsTypeOK, ButtonTypes, TxStates, RowTypes
<1> QED
  BY <1>1, <1>2, <1>3, ButtonInvHolds, ListInvHolds, PTL DEF Spec
=============================================================================
