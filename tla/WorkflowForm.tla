---------------------------- MODULE WorkflowForm ----------------------------
(* The form that creates a workflow: the drafts of its steps, the stage keys *)
(* it derives from their labels, and the request it sends.                   *)
(*                                                                           *)
(* A label is known by its slug, a sequence of words and numbers: "Load" is  *)
(* <<load>>, "Load 2" is <<load, 2>>, and a label without a letter or digit  *)
(* has the empty slug.                                                       *)
EXTENDS Naturals, Sequences, FiniteSets

CONSTANTS
    Words,       \* what slugs are made of, besides numbers
    StepWord,    \* "step", the base of a label with an empty slug
    Labels,      \* labels that can be typed, other than blank ones
    Slug,        \* slugify
    Blank,       \* a label of white space
    MaxSteps,    \* bound on the drafts on the page
    MaxUids,     \* bound on the drafts ever made
    MaxPosts     \* bound on the workflows stored

ASSUME WorkflowFormAssumption ==
    /\ StepWord \in Words
    /\ Slug \in [Labels -> Seq(Words \cup Nat)]
    /\ Blank \notin Labels
    /\ MaxSteps \in Nat \ {0} /\ MaxUids \in Nat \ {0} /\ MaxPosts \in Nat

VARIABLES
    drafts,      \* the steps shown, in order
    nextUid,     \* the module's counter
    named,       \* the workflow has a name
    submitting, error, onPage,   \* the rest of the page's state
    waiting,     \* POSTs that have not reached the server
    stored,      \* POSTs it has answered, the answer being on its way
    created,     \* history: workflows the server has stored for this page
    unanswered   \* history: stored POSTs whose answer was lost

draftVars == <<drafts, nextUid, named>>
pageVars  == <<submitting, error, onPage>>
postVars  == <<waiting, stored, created, unanswered>>
formVars  == <<draftVars, pageVars, postVars>>

Draft == [uid : Nat, label : Labels \cup {Blank}, fits : BOOLEAN]

NewStep(uid) == [uid |-> uid, label |-> Blank, fits |-> TRUE]

----------------------------------------------------------------------------
(* toStageDefinitions.                                                       *)

\* slugify(s.label) || "step"; only labels that pass validate get here.
Base(label) == IF Slug[label] = <<>> THEN <<StepWord>> ELSE Slug[label]

\* The map `used`: how often the base has come up, this step included.
Count(labels, i) == Cardinality({j \in 1..i : Base(labels[j]) = Base(labels[i])})

\* Bug: a repeated base is not told apart from its first occurrence.
KeyIgnoresCount(labels, i) == Base(labels[i])

StageKey(labels, i) ==
    IF Count(labels, i) = 1 THEN Base(labels[i])
                            ELSE Append(Base(labels[i]), Count(labels, i))

LabelsOf(steps) == [i \in DOMAIN steps |-> steps[i].label]

----------------------------------------------------------------------------
Init ==
    /\ drafts = <<NewStep(1)>>
    /\ nextUid = 2
    /\ named = FALSE
    /\ submitting = FALSE
    /\ error = FALSE
    /\ onPage = TRUE
    /\ waiting = 0
    /\ stored = 0
    /\ created = 0
    /\ unanswered = 0

SetName ==
    /\ onPage
    /\ named' = ~named
    /\ UNCHANGED <<drafts, nextUid, pageVars, postVars>>

\* Bug: steps are numbered by their place on the page.
AddStepByPlace ==
    /\ onPage /\ Len(drafts) < MaxSteps /\ nextUid <= MaxUids
    /\ drafts' = Append(drafts, NewStep(Len(drafts) + 1))
    /\ nextUid' = nextUid + 1
    /\ UNCHANGED <<named, pageVars, postVars>>

AddStep ==
    /\ onPage /\ Len(drafts) < MaxSteps /\ nextUid <= MaxUids
    /\ drafts' = Append(drafts, NewStep(nextUid))
    /\ nextUid' = nextUid + 1
    /\ UNCHANGED <<named, pageVars, postVars>>

\* updateStep: every draft with the uid of the one on line i is patched.
UpdateStep(i, field, value) ==
    /\ onPage
    /\ drafts' = [j \in DOMAIN drafts |->
                     IF drafts[j].uid = drafts[i].uid THEN [drafts[j] EXCEPT ![field] = value]
                                                      ELSE drafts[j]]
    /\ UNCHANGED <<nextUid, named, pageVars, postVars>>

Relabel ==
    \E i \in DOMAIN drafts, label \in Labels \cup {Blank} :
        UpdateStep(i, "label", label)

\* The numbers of the open panel; of them only the order of the two durations
\* matters to validate.
Configure ==
    \E i \in DOMAIN drafts, fits \in BOOLEAN :
        UpdateStep(i, "fits", fits)

\* moveStep: a step changes places with the one below it.
MoveStep ==
    /\ onPage
    /\ \E i \in DOMAIN drafts :
          /\ i + 1 \in DOMAIN drafts
          /\ drafts' = [drafts EXCEPT ![i] = drafts[i + 1], ![i + 1] = drafts[i]]
    /\ UNCHANGED <<nextUid, named, pageVars, postVars>>

\* Array.filter: what is kept of s, in its order.
Filter(s, kept) ==
    [k \in 1..Cardinality(kept) |-> s[CHOOSE j \in kept : Cardinality(kept \cap 1..j) = k]]

\* The drafts that stay when the one on line i is removed.
Others(i) == {j \in DOMAIN drafts : drafts[j].uid # drafts[i].uid}

\* Bug: the button is not disabled for the only step.
RemoveOnlyStep ==
    /\ onPage
    /\ \E i \in DOMAIN drafts : drafts' = Filter(drafts, Others(i))
    /\ UNCHANGED <<nextUid, named, pageVars, postVars>>

\* The remove button filters by uid; it is disabled for the only step.
RemoveStep ==
    /\ onPage /\ Len(drafts) > 1
    /\ \E i \in DOMAIN drafts : drafts' = Filter(drafts, Others(i))
    /\ UNCHANGED <<nextUid, named, pageVars, postVars>>

\* validate.
Valid ==
    /\ named
    /\ drafts # <<>>
    /\ \A i \in DOMAIN drafts : drafts[i].label # Blank /\ drafts[i].fits

Post ==
    /\ waiting + created < MaxPosts
    /\ waiting' = waiting + 1
    /\ submitting' = TRUE
    /\ error' = FALSE
    /\ UNCHANGED <<draftVars, onPage, stored, created, unanswered>>

\* Bug: the button stays enabled while a POST runs.
SubmitAgain == onPage /\ Valid /\ Post

\* handleSubmit up to its await: the POST carries a stage definition with its
\* StageKey for each draft; the button is disabled while a POST runs.
Submit == onPage /\ ~submitting /\ Valid /\ Post

Refuse ==
    /\ onPage /\ ~submitting /\ ~Valid
    /\ error' = TRUE
    /\ UNCHANGED <<draftVars, submitting, onPage, postVars>>

\* POST /workflows: workflow_service.create_workflow stores what was sent.
CreateWorkflow ==
    /\ waiting > 0
    /\ waiting' = waiting - 1
    /\ stored' = stored + 1
    /\ created' = created + 1
    /\ UNCHANGED <<draftVars, pageVars, unanswered>>

\* The answer arrives and the page is left.
Created ==
    /\ onPage /\ stored > 0
    /\ stored' = stored - 1
    /\ onPage' = FALSE
    /\ UNCHANGED <<draftVars, submitting, error, waiting, created, unanswered>>

\* The POST fails, or only its answer is lost: to the page it is the same.
Failed ==
    /\ onPage
    /\ \/ /\ waiting > 0
          /\ waiting' = waiting - 1
          /\ UNCHANGED <<stored, unanswered>>
       \/ /\ stored > 0
          /\ stored' = stored - 1
          /\ unanswered' = unanswered + 1
          /\ UNCHANGED waiting
    /\ submitting' = FALSE
    /\ error' = TRUE
    /\ UNCHANGED <<draftVars, onPage, created>>

\* The page is left; a POST on its way is carried out all the same.
Cancel ==
    /\ onPage
    /\ onPage' = FALSE
    /\ UNCHANGED <<draftVars, submitting, error, postVars>>

Next ==
    \/ SetName \/ AddStep \/ Relabel \/ Configure \/ MoveStep \/ RemoveStep
    \/ Submit \/ Refuse \/ CreateWorkflow \/ Created \/ Failed \/ Cancel

Spec == Init /\ [][Next]_formVars

----------------------------------------------------------------------------
(* Properties.                                                               *)

\* Every variable stays in its range; the form never runs out of steps.
FormTypeOK ==
    /\ drafts \in Seq(Draft) /\ drafts # <<>>
    /\ nextUid \in Nat
    /\ named \in BOOLEAN
    /\ submitting \in BOOLEAN /\ error \in BOOLEAN /\ onPage \in BOOLEAN
    /\ waiting \in Nat /\ stored \in Nat /\ created \in Nat /\ unanswered \in Nat

\* Whatever is added, moved and removed, no two drafts have the same uid, by
\* which updateStep and the remove button find theirs.
UidsDistinct ==
    \A i, j \in DOMAIN drafts : drafts[i].uid = drafts[j].uid => i = j

Suffixed(labels, i, j) == Base(labels[i]) = Append(Base(labels[j]), Count(labels, j))

KeysCollideThroughSuffix(labels) ==
    \A i, j \in DOMAIN labels :
        /\ i # j
        /\ StageKey(labels, i) = StageKey(labels, j)
        => Suffixed(labels, i, j) \/ Suffixed(labels, j, i)

\* Two stages of a request have the same key only when the slug of one is the
\* slug of the other with the number that toStageDefinitions put behind it.
KeysCollideOnlyThroughSuffix == Valid => KeysCollideThroughSuffix(LabelsOf(drafts))

\* A page stores a second workflow only after the answer to the first was lost.
OneWorkflowPerAnswer == created <= unanswered + 1
=============================================================================
