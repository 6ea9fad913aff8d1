------------------------- MODULE WorkflowFormProofs -------------------------
(* What toStageDefinitions does for every list of labels, that uids tell the *)
(* drafts apart, and what the submissions of the form store.                 *)
EXTENDS WorkflowForm, FiniteSetTheorems, SequenceTheorems, TLAPS

Earlier(labels, i) == {j \in 1..i : Base(labels[j]) = Base(labels[i])}

\* The occurrences of a base up to a step: finitely many, and that step.
LEMMA EarlierFinite ==
    ASSUME NEW labels \in Seq(Labels), NEW i \in DOMAIN labels
    PROVE  /\ IsFiniteSet(Earlier(labels, i))
           /\ i \in Earlier(labels, i)
           /\ Count(labels, i) = Cardinality(Earlier(labels, i))
           /\ Count(labels, i) \in Nat
<1>1. i \in Nat \ {0}
  OBVIOUS
<1>2. IsFiniteSet(1..i)
  BY <1>1, FS_Interval
<1>3. Earlier(labels, i) \subseteq 1..i
  BY DEF Earlier
<1>4. IsFiniteSet(Earlier(labels, i))
  BY <1>2, <1>3, FS_Subset
<1>5. i \in Earlier(labels, i)
  BY <1>1 DEF Earlier
<1>6. Count(labels, i) = Cardinality(Earlier(labels, i))
  BY DEF Count, Earlier
<1> QED
  BY <1>4, <1>5, <1>6, FS_CardinalityType

\* Of two steps with the same base, the later one has the higher count.
LEMMA CountGrows ==
    ASSUME NEW labels \in Seq(Labels),
           NEW i \in DOMAIN labels, NEW j \in DOMAIN labels,
           i < j, Base(labels[i]) = Base(labels[j])
    PROVE  Count(labels, i) # Count(labels, j)
<1>1. Earlier(labels, i) \subseteq Earlier(labels, j)
  <2> SUFFICES ASSUME NEW k \in 1..i, Base(labels[k]) = Base(labels[i])
               PROVE  k \in Earlier(labels, j)
    BY DEF Earlier
  <2>1. k \in 1..j
    OBVIOUS
  <2> QED
    BY <2>1 DEF Earlier
<1>2. j \in Earlier(labels, j) /\ j \notin Earlier(labels, i)
  BY EarlierFinite DEF Earlier
<1>3. /\ Count(labels, i) = Cardinality(Earlier(labels, i))
      /\ Count(labels, j) = Cardinality(Earlier(labels, j))
      /\ IsFiniteSet(Earlier(labels, j))
  BY EarlierFinite
<1> QED
  BY <1>1, <1>2, <1>3, FS_Subset

\* Labels turn into sequences of words and numbers.
LEMMA BaseType ==
    ASSUME NEW label \in Labels
    PROVE  Base(label) \in Seq(Words \cup Nat)
<1>1. Slug[label] \in Seq(Words \cup Nat)
  BY WorkflowFormAssumption DEF WorkflowFormAssumption
<1>2. StepWord \in Words \cup Nat
  BY WorkflowFormAssumption DEF WorkflowFormAssumption
<1>3. <<StepWord>> \in Seq(Words \cup Nat)
  BY <1>2
<1> QED
  BY <1>1, <1>3 DEF Base

\* toStageDefinitions gives two steps the same key only when one's slug is the
\* other's with the number put behind it, whatever the labels are.
THEOREM KeysMeetOnlyThroughSuffix ==
    ASSUME NEW labels \in Seq(Labels)
    PROVE  KeysCollideThroughSuffix(labels)
<1> SUFFICES ASSUME NEW i \in DOMAIN labels, NEW j \in DOMAIN labels, i # j,
                    StageKey(labels, i) = StageKey(labels, j),
                    ~Suffixed(labels, i, j), ~Suffixed(labels, j, i)
             PROVE  FALSE
  BY DEF KeysCollideThroughSuffix
<1> DEFINE b == Base(labels[i])
           c == Base(labels[j])
           m == Count(labels, i)
           n == Count(labels, j)
<1>1. labels[i] \in Labels /\ labels[j] \in Labels
  BY ElementOfSeq
<1>2. b \in Seq(Words \cup Nat) /\ c \in Seq(Words \cup Nat)
  BY <1>1, BaseType
<1>3. m \in Nat /\ n \in Nat
  BY EarlierFinite
<1>4. ~(b = c /\ m = n)
  <2>1. i < j \/ j < i
    OBVIOUS
  <2> QED
    BY <2>1, CountGrows
<1>5. /\ StageKey(labels, i) = IF m = 1 THEN b ELSE Append(b, m)
      /\ StageKey(labels, j) = IF n = 1 THEN c ELSE Append(c, n)
  BY DEF StageKey
<1>6. b # Append(c, n) /\ c # Append(b, m)
  BY DEF Suffixed
<1> HIDE DEF b, c, m, n
<1>7. m # 1 /\ n # 1 /\ Append(b, m) = Append(c, n)
  BY <1>4, <1>5, <1>6
<1>8. m \in Words \cup Nat /\ n \in Words \cup Nat
  BY <1>3
<1> QED
  BY <1>2, <1>4, <1>7, <1>8, AppendInjective

----------------------------------------------------------------------------
(* One workflow for each answer: what is stored or still on its way is       *)
(* accounted for by the answers lost and the one POST that may be running.   *)

PostTypes ==
    /\ waiting \in Nat /\ stored \in Nat /\ created \in Nat /\ unanswered \in Nat
    /\ submitting \in BOOLEAN /\ onPage \in BOOLEAN

PostInv ==
    /\ PostTypes
    /\ created + waiting <= unanswered + 1
    /\ onPage /\ ~submitting => created + waiting <= unanswered

LEMMA PostInvHolds == Spec => []PostInv
<1>1. Init => PostInv
  <2> SUFFICES ASSUME Init PROVE PostInv
    OBVIOUS
  <2>1. submitting \in BOOLEAN /\ onPage \in BOOLEAN
    BY Zenon DEF Init
  <2>2. waiting = 0 /\ stored = 0 /\ created = 0 /\ unanswered = 0
    BY DEF Init
  <2> QED
    BY <2>1, <2>2 DEF PostInv, PostTypes
<1>2. PostInv /\ [Next]_formVars => PostInv'
  <2> SUFFICES ASSUME PostInv, [Next]_formVars PROVE PostInv'
    OBVIOUS
  <2> USE DEF PostInv, PostTypes, pageVars, postVars
  <2>1. CASE SetName
    BY <2>1 DEF SetName
  <2>2. CASE AddStep
    BY <2>2 DEF AddStep
  <2>3. CASE Relabel
    BY <2>3 DEF Relabel, UpdateStep
  <2>4. CASE Configure
    BY <2>4 DEF Configure, UpdateStep
  <2>5. CASE MoveStep
    BY <2>5 DEF MoveStep
  <2>6. CASE RemoveStep
    BY <2>6 DEF RemoveStep
  <2>7. CASE Submit
    BY <2>7 DEF Submit, Post, draftVars
  <2>8. CASE Refuse
    BY <2>8 DEF Refuse, draftVars
  <2>9. CASE CreateWorkflow
    BY <2>9 DEF CreateWorkflow, draftVars
  <2>10. CASE Created
    <3>1. ~onPage' /\ onPage' \in BOOLEAN /\ submitting' = submitting
      BY <2>10, Zenon DEF Created
    <3>2. /\ waiting' = waiting /\ stored' \in Nat
          /\ created' = created /\ unanswered' = unanswered
      BY <2>10 DEF Created
    <3> QED
      BY <3>1, <3>2
  <2>11. CASE Failed
    <3>1. submitting' \in BOOLEAN /\ onPage' \in BOOLEAN
      BY <2>11, Zenon DEF Failed
    <3>2. /\ created' = created
          /\ \/ waiting > 0 /\ waiting' = waiting - 1 /\ UNCHANGED <<stored, unanswered>>
             \/ /\ stored > 0 /\ stored' = stored - 1 /\ unanswered' = unanswered + 1
                /\ UNCHANGED waiting
      BY <2>11 DEF Failed
    <3>3. /\ waiting' \in Nat /\ created' \in Nat /\ stored' \in Nat /\ unanswered' \in Nat
          /\ created' + waiting' <= unanswered'
          /\ created' + waiting' <= unanswered' + 1
      <4>1. CASE waiting > 0 /\ waiting' = waiting - 1 /\ UNCHANGED <<stored, unanswered>>
        BY <3>2, <4>1
      <4>2. CASE /\ stored > 0 /\ stored' = stored - 1 /\ unanswered' = unanswered + 1
                 /\ UNCHANGED waiting
        BY <3>2, <4>2
      <4> QED
        BY <3>2, <4>1, <4>2
    <3> QED
      BY <3>1, <3>3, Zenon
  <2>12. CASE Cancel
    BY <2>12 DEF Cancel, draftVars
  <2>13. CASE UNCHANGED formVars
    BY <2>13 DEF formVars
  <2> QED
    BY <2>1, <2>2, <2>3, <2>4, <2>5, <2>6, <2>7, <2>8, <2>9, <2>10, <2>11, <2>12, <2>13
    DEF Next
<1> QED
  BY <1>1, <1>2, PTL DEF Spec

\* However often the form is submitted, whatever is lost and whenever the page
\* is left, workflows are stored once for each lost answer and once more.
THEOREM AnswersBoundWorkflows == Spec => []OneWorkflowPerAnswer
<1>1. PostInv => OneWorkflowPerAnswer
  BY DEF PostInv, PostTypes, OneWorkflowPerAnswer
<1> QED
  BY <1>1, PostInvHolds, PTL

----------------------------------------------------------------------------
(* What a removal leaves.  Everything that is kept has a place of its own,   *)
(* the number of kept ones up to it, and no place is left over.              *)

Place(kept, j) == Cardinality(kept \cap 1..j)

LEMMA KeptFinite ==
    ASSUME NEW n \in Nat, NEW kept \in SUBSET (1..n)
    PROVE  IsFiniteSet(kept) /\ Cardinality(kept) \in Nat
<1>1. IsFiniteSet(1..n)
  BY FS_Interval
<1>2. IsFiniteSet(kept)
  BY <1>1, FS_Subset
<1> QED
  BY <1>2, FS_CardinalityType

LEMMA PlaceType ==
    ASSUME NEW n \in Nat, NEW kept \in SUBSET (1..n), NEW j \in kept
    PROVE  /\ IsFiniteSet(kept) /\ Cardinality(kept) \in Nat
           /\ IsFiniteSet(kept \cap 1..j)
           /\ Place(kept, j) \in 1..Cardinality(kept)
<1>1. IsFiniteSet(kept)
  BY KeptFinite
<1>2. kept \cap 1..j \subseteq kept /\ j \in kept \cap 1..j
  OBVIOUS
<1>3. IsFiniteSet(kept \cap 1..j) /\ Cardinality(kept \cap 1..j) <= Cardinality(kept)
  BY <1>1, <1>2, FS_Subset
<1>4. Cardinality(kept \cap 1..j) # 0
  BY <1>2, <1>3, FS_EmptySet
<1>5. Cardinality(kept) \in Nat /\ Cardinality(kept \cap 1..j) \in Nat
  BY <1>1, <1>3, FS_CardinalityType
<1> QED
  BY <1>1, <1>3, <1>4, <1>5 DEF Place

\* A later one has a higher place.
LEMMA PlacesDiffer ==
    ASSUME NEW n \in Nat, NEW kept \in SUBSET (1..n), NEW i \in kept, NEW j \in kept, i < j
    PROVE  Place(kept, i) # Place(kept, j)
<1>1. kept \cap 1..i \subseteq kept \cap 1..j
  OBVIOUS
<1>2. j \in kept \cap 1..j /\ j \notin kept \cap 1..i
  OBVIOUS
<1> QED
  BY <1>1, <1>2, PlaceType, FS_Subset DEF Place

LEMMA EveryPlaceTaken ==
    ASSUME NEW n \in Nat, NEW kept \in SUBSET (1..n), NEW k \in 1..Cardinality(kept)
    PROVE  \E j \in kept : Place(kept, j) = k
<1> DEFINE m == Cardinality(kept)
           f == [j \in kept |-> Place(kept, j)]
<1>1. IsFiniteSet(kept) /\ m \in Nat
  BY KeptFinite
<1>2. f \in [kept -> 1..m]
  BY PlaceType
<1>3. \A i, j \in kept : i # j => f[i] # f[j]
  <2> SUFFICES ASSUME NEW i \in kept, NEW j \in kept, i # j PROVE f[i] # f[j]
    OBVIOUS
  <2>1. i < j \/ j < i
    OBVIOUS
  <2> QED
    BY <2>1, PlacesDiffer
<1> HIDE DEF f, m
<1>4. f \in Injection(kept, 1..m)
  BY <1>2, <1>3, Zenon DEF Injection, IsInjective
<1>5. IsFiniteSet(1..m) /\ Cardinality(1..m) = m
  BY <1>1, FS_Interval
<1>6. f \in Surjection(kept, 1..m)
  BY <1>4, <1>5, FS_Injection DEF m
<1>7. \E j \in kept : f[j] = k
  BY <1>6 DEF Surjection, m
<1> QED
  BY <1>7 DEF f

\* A filter keeps each element once, and nothing else.
EachOnce(left, s, kept) ==
    /\ DOMAIN left = 1..Cardinality(kept)
    /\ \E at \in [1..Cardinality(kept) -> kept] :
          /\ \A k \in 1..Cardinality(kept) : left[k] = s[at[k]]
          /\ \A k, l \in 1..Cardinality(kept) : at[k] = at[l] => k = l

LEMMA FilterKeeps ==
    ASSUME NEW S, NEW s \in Seq(S), NEW kept \in SUBSET DOMAIN s
    PROVE  Filter(s, kept) \in Seq(S) /\ EachOnce(Filter(s, kept), s, kept)
<1> DEFINE m == Cardinality(kept)
           at == [k \in 1..m |-> CHOOSE j \in kept : Place(kept, j) = k]
<1>1. kept \in SUBSET (1..Len(s)) /\ Len(s) \in Nat
  OBVIOUS
<1>2. m \in Nat
  BY <1>1, KeptFinite
<1>3. \A k \in 1..m : at[k] \in kept /\ Place(kept, at[k]) = k
  BY <1>1, EveryPlaceTaken
<1>4. Filter(s, kept) = [k \in 1..m |-> s[at[k]]]
  BY DEF Filter, Place
<1>5. at \in [1..m -> kept]
  BY <1>3
<1> HIDE DEF at, m
<1>6. \A j \in kept : s[j] \in S
  BY <1>1
<1>7. Filter(s, kept) \in Seq(S)
  BY <1>2, <1>4, <1>5, <1>6
<1>8. \A k, l \in 1..m : at[k] = at[l] => k = l
  BY <1>3, Zenon
<1>9. /\ DOMAIN Filter(s, kept) = 1..m
      /\ \A k \in 1..m : Filter(s, kept)[k] = s[at[k]]
  BY <1>4
<1> QED
  BY <1>5, <1>7, <1>8, <1>9 DEF EachOnce, m

----------------------------------------------------------------------------
(* The drafts: uids are given out in order and never again.                  *)

DraftInv ==
    /\ drafts \in Seq(Draft) /\ drafts # <<>>
    /\ nextUid \in Nat
    /\ named \in BOOLEAN /\ error \in BOOLEAN
    /\ UidsDistinct
    /\ \A i \in DOMAIN drafts : drafts[i].uid < nextUid

LEMMA UnchangedDrafts == DraftInv /\ UNCHANGED draftVars /\ error' \in BOOLEAN => DraftInv'
  BY DEF DraftInv, draftVars, UidsDistinct

LEMMA SeqOfValues ==
    ASSUME NEW S, NEW n \in Nat, NEW s, s = [j \in 1..n |-> s[j]],
           \A j \in 1..n : s[j] \in S
    PROVE  s \in Seq(S)
  OBVIOUS

LEMMA DraftsOnLines ==
    ASSUME DraftInv
    PROVE  /\ DOMAIN drafts = 1..Len(drafts) /\ Len(drafts) \in Nat
           /\ \A j \in DOMAIN drafts : drafts[j] \in Draft
  BY DEF DraftInv

LEMMA NewStepType == ASSUME NEW uid \in Nat PROVE NewStep(uid) \in Draft /\ NewStep(uid).uid = uid
  BY DEF NewStep, Draft

LEMMA AddStepKeeps == DraftInv /\ AddStep => DraftInv'
<1> SUFFICES ASSUME DraftInv, AddStep PROVE DraftInv'
  OBVIOUS
<1>1. /\ drafts' = Append(drafts, NewStep(nextUid)) /\ nextUid' = nextUid + 1
      /\ named' = named /\ error' = error
  BY DEF AddStep, pageVars
<1>2. drafts' \in Seq(Draft) /\ drafts' # <<>>
  BY <1>1, NewStepType DEF DraftInv
<1>3. /\ DOMAIN drafts' = DOMAIN drafts \cup {Len(drafts) + 1}
      /\ \A j \in DOMAIN drafts : drafts'[j] = drafts[j]
      /\ drafts'[Len(drafts) + 1].uid = nextUid
  BY <1>1, NewStepType DEF DraftInv
<1>4. \A j \in DOMAIN drafts : drafts[j].uid \in Nat
  BY DraftsOnLines DEF Draft
<1>5. UidsDistinct'
  BY <1>3, <1>4 DEF DraftInv, UidsDistinct
<1>6. \A j \in DOMAIN drafts' : drafts'[j].uid < nextUid'
  BY <1>1, <1>3, <1>4 DEF DraftInv
<1> QED
  BY <1>1, <1>2, <1>5, <1>6 DEF DraftInv

\* A patch keeps the uids where they are.
LEMMA UpdateStepKeeps ==
    ASSUME DraftInv, NEW i \in DOMAIN drafts, NEW field, NEW value,
           UpdateStep(i, field, value),
           \/ field = "label" /\ value \in Labels \cup {Blank}
           \/ field = "fits" /\ value \in BOOLEAN
    PROVE  DraftInv'
<1>1. UNCHANGED <<nextUid, named, error>>
  BY DEF UpdateStep, pageVars
<1>2. \A d \in Draft : /\ [d EXCEPT ![field] = value] \in Draft
                       /\ [d EXCEPT ![field] = value].uid = d.uid
  BY DEF Draft
<1>3. DOMAIN drafts' = DOMAIN drafts /\ DOMAIN drafts = 1..Len(drafts) /\ Len(drafts) \in Nat
  BY DraftsOnLines DEF UpdateStep
<1>4. \A j \in DOMAIN drafts : drafts[j] \in Draft
  BY DraftsOnLines
<1>5. \A j \in DOMAIN drafts :
         drafts'[j] \in {drafts[j], [drafts[j] EXCEPT ![field] = value]}
  BY DEF UpdateStep
<1>6. \A j \in DOMAIN drafts : drafts'[j] \in Draft /\ drafts'[j].uid = drafts[j].uid
  BY <1>2, <1>4, <1>5
<1>7. drafts' = [j \in 1..Len(drafts) |-> drafts'[j]]
  BY <1>3 DEF UpdateStep
<1>8. drafts' \in Seq(Draft)
  BY <1>3, <1>6, <1>7
<1>9. drafts' # <<>>
  BY <1>3, <1>8 DEF DraftInv
<1> QED
  BY <1>1, <1>3, <1>6, <1>8, <1>9 DEF DraftInv, UidsDistinct

LEMMA MoveStepKeeps == DraftInv /\ MoveStep => DraftInv'
<1> SUFFICES ASSUME DraftInv, NEW i \in DOMAIN drafts, i + 1 \in DOMAIN drafts,
                    drafts' = [drafts EXCEPT ![i] = drafts[i + 1], ![i + 1] = drafts[i]],
                    UNCHANGED <<nextUid, named, error>>
             PROVE  DraftInv'
  BY DEF MoveStep, pageVars
<1>1. i \in Nat /\ i + 1 # i /\ Len(drafts) \in Nat /\ DOMAIN drafts = 1..Len(drafts)
  BY DraftsOnLines
<1>2. DOMAIN drafts' = DOMAIN drafts
  OBVIOUS
<1>3. /\ drafts'[i] = drafts[i + 1] /\ drafts'[i + 1] = drafts[i]
      /\ \A j \in DOMAIN drafts \ {i, i + 1} : drafts'[j] = drafts[j]
  BY <1>1
<1>4. \A j \in DOMAIN drafts : drafts[j] \in Draft
  BY DraftsOnLines
<1>5. \A j \in DOMAIN drafts : drafts'[j] \in Draft /\ drafts'[j].uid < nextUid'
  BY <1>3, <1>4 DEF DraftInv
<1>6. drafts' = [j \in 1..Len(drafts) |-> drafts'[j]]
  BY <1>1
<1>7. \A j \in 1..Len(drafts) : drafts'[j] \in Draft
  BY <1>1, <1>5
<1>8. drafts' \in Seq(Draft) /\ drafts' # <<>>
  <2>1. drafts' \in Seq(Draft)
    BY <1>1, <1>6, <1>7, SeqOfValues
  <2>2. DOMAIN drafts' # {}
    BY <1>2
  <2> QED
    BY <2>1, <2>2
<1>9. UidsDistinct'
  BY <1>2, <1>3 DEF DraftInv, UidsDistinct
<1> QED
  BY <1>2, <1>5, <1>8, <1>9 DEF DraftInv

\* One draft goes, and there was another.
LEMMA RemoveStepKeeps == DraftInv /\ RemoveStep => DraftInv'
<1> SUFFICES ASSUME DraftInv, Len(drafts) > 1, NEW i \in DOMAIN drafts,
                    drafts' = Filter(drafts, Others(i)), UNCHANGED <<nextUid, named, error>>
             PROVE  DraftInv'
  BY DEF RemoveStep, pageVars
<1> DEFINE m == Cardinality(Others(i))
<1>1. DOMAIN drafts = 1..Len(drafts) /\ Len(drafts) \in Nat
  BY DraftsOnLines
<1>2. Others(i) \subseteq 1..Len(drafts)
  BY <1>1 DEF Others
<1>3. \E j \in DOMAIN drafts : j # i
  BY <1>1
<1>4. Others(i) # {}
  BY <1>3 DEF Others, DraftInv, UidsDistinct
<1>5. IsFiniteSet(Others(i)) /\ m \in Nat
  BY <1>1, <1>2, KeptFinite
<1>6. m # 0
  BY <1>4, <1>5, FS_EmptySet
<1>7. /\ drafts' \in Seq(Draft)
      /\ DOMAIN drafts' = 1..m
      /\ \E at \in [1..m -> Others(i)] :
            /\ \A k \in 1..m : drafts'[k] = drafts[at[k]]
            /\ \A k, l \in 1..m : at[k] = at[l] => k = l
  <2>1. drafts \in Seq(Draft) /\ Others(i) \in SUBSET DOMAIN drafts
    BY <1>1, <1>2 DEF DraftInv
  <2>2. drafts' = Filter(drafts, Others(i))
    OBVIOUS
  <2>3. drafts' \in Seq(Draft) /\ EachOnce(drafts', drafts, Others(i))
    BY <2>1, <2>2, FilterKeeps
  <2> QED
    BY <2>3 DEF EachOnce
<1> HIDE DEF m
<1>8. PICK at \in [1..m -> DOMAIN drafts] :
         /\ \A k \in 1..m : drafts'[k] = drafts[at[k]]
         /\ \A k, l \in 1..m : at[k] = at[l] => k = l
  BY <1>1, <1>2, <1>7
<1>9. drafts' # <<>>
  BY <1>5, <1>6, <1>7
<1>10. UidsDistinct'
  BY <1>7, <1>8 DEF DraftInv, UidsDistinct
<1>11. \A k \in DOMAIN drafts' : drafts'[k].uid < nextUid'
  BY <1>7, <1>8 DEF DraftInv
<1> QED
  BY <1>7, <1>9, <1>10, <1>11 DEF DraftInv

LEMMA DraftInvHolds == Spec => []DraftInv
<1>1. Init => DraftInv
  <2> SUFFICES ASSUME Init PROVE DraftInv
    OBVIOUS
  <2>1. named \in BOOLEAN /\ error \in BOOLEAN
    BY Zenon DEF Init
  <2>2. drafts = <<NewStep(1)>> /\ nextUid = 2
    BY DEF Init
  <2>3. drafts \in Seq(Draft) /\ drafts # <<>> /\ DOMAIN drafts = {1} /\ drafts[1].uid = 1
    BY <2>2, NewStepType
  <2> QED
    BY <2>1, <2>2, <2>3 DEF DraftInv, UidsDistinct
<1>2. DraftInv /\ [Next]_formVars => DraftInv'
  <2> SUFFICES ASSUME DraftInv, [Next]_formVars PROVE DraftInv'
    OBVIOUS
  <2>1. CASE SetName
    <3>1. named' \in BOOLEAN
      BY <2>1, Zenon DEF SetName
    <3>2. UNCHANGED <<drafts, nextUid, error>>
      BY <2>1 DEF SetName, pageVars
    <3> QED
      BY <3>1, <3>2 DEF DraftInv, UidsDistinct
  <2>2. CASE AddStep
    BY <2>2, AddStepKeeps
  <2>3. CASE Relabel
    BY <2>3, UpdateStepKeeps DEF Relabel
  <2>4. CASE Configure
    BY <2>4, UpdateStepKeeps DEF Configure
  <2>5. CASE MoveStep
    BY <2>5, MoveStepKeeps
  <2>6. CASE RemoveStep
    BY <2>6, RemoveStepKeeps
  <2>7. CASE Submit \/ Refuse \/ Failed
    <3>1. error' \in BOOLEAN
      BY <2>7, Zenon DEF Submit, Post, Refuse, Failed
    <3>2. UNCHANGED draftVars
      BY <2>7 DEF Submit, Post, Refuse, Failed
    <3> QED
      BY <3>1, <3>2, UnchangedDrafts
  <2>8. CASE CreateWorkflow \/ Created \/ Cancel \/ UNCHANGED formVars
    <3>1. UNCHANGED draftVars /\ error' = error
      BY <2>8 DEF CreateWorkflow, Created, Cancel, formVars, pageVars
    <3>2. error' \in BOOLEAN
      BY <3>1 DEF DraftInv
    <3> QED
      BY <3>1, <3>2, UnchangedDrafts
  <2> QED
    BY <2>1, <2>2, <2>3, <2>4, <2>5, <2>6, <2>7, <2>8 DEF Next
<1> QED
  BY <1>1, <1>2, PTL DEF Spec

\* No variable leaves its range, and the form never runs out of steps.
THEOREM FormTypeCorrect == Spec => []FormTypeOK
<1>1. DraftInv /\ PostInv => FormTypeOK
  BY DEF DraftInv, PostInv, PostTypes, FormTypeOK
<1> QED
  BY <1>1, DraftInvHolds, PostInvHolds, PTL

\* Each draft keeps a uid of its own, however steps are added, moved and removed.
THEOREM UidsStayDistinct == Spec => []UidsDistinct
<1>1. DraftInv => UidsDistinct
  BY DEF DraftInv
<1> QED
  BY <1>1, DraftInvHolds, PTL

\* Whatever a form is brought to send, two of its stages have the same key only
\* when one's slug is the other's with the number put behind it.
THEOREM SentKeysMeetOnlyThroughSuffix == Spec => []KeysCollideOnlyThroughSuffix
<1>1. DraftInv => KeysCollideOnlyThroughSuffix
  <2> SUFFICES ASSUME DraftInv, Valid PROVE KeysCollideThroughSuffix(LabelsOf(drafts))
    BY DEF KeysCollideOnlyThroughSuffix
  <2>1. DOMAIN drafts = 1..Len(drafts) /\ Len(drafts) \in Nat
    BY DraftsOnLines
  <2>2. \A i \in 1..Len(drafts) : drafts[i].label \in Labels
    <3> SUFFICES ASSUME NEW i \in DOMAIN drafts PROVE drafts[i].label \in Labels
      BY <2>1
    <3>1. drafts[i] \in Draft
      BY DraftsOnLines
    <3>2. drafts[i].label \in Labels \cup {Blank}
      BY <3>1 DEF Draft
    <3> QED
      BY <3>2 DEF Valid
  <2>3. LabelsOf(drafts) \in Seq(Labels)
    BY <2>1, <2>2 DEF LabelsOf
  <2> QED
    BY <2>3, KeysMeetOnlyThroughSuffix
<1> QED
  BY <1>1, DraftInvHolds, PTL
=============================================================================
