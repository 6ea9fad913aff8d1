-------------------------- MODULE MCOrchestration --------------------------
(* Constants for model checking Orchestration.                               *)
EXTENDS Orchestration, TLC

CONSTANTS e1, w1, w2, extract, embed

\* One stage, or two, that may fail.
OneStage   == <<[key |-> extract, rate |-> "some"]>>
TwoStages  == <<[key |-> extract, rate |-> "some"], [key |-> embed, rate |-> "some"]>>
\* Only the first of two stages may fail.
MixedStages == <<[key |-> extract, rate |-> "some"], [key |-> embed, rate |-> "zero"]>>

Budget(kinds) == [k \in FaultKinds |-> IF k \in kinds THEN 1 ELSE 0]

NoFaults     == Budget({})
NoRedelivery == Budget({"childLost", "redis", "db", "api"})
Redelivery   == Budget({"crash", "disconnect"})
OneDrop      == Budget({"disconnect"})

WorkerSymmetry == Permutations(Workers)
=============================================================================
