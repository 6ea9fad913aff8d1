--------------------------- MODULE MCLiveProgress ---------------------------
(* Small instances of LiveProgress for TLC: one execution, one worker, and a *)
(* browser that opens its page at any moment.                                *)
EXTENDS LiveProgress

CONSTANTS e1, w1, extract

OneStage == <<[key |-> extract, rate |-> "some"]>>

NoFaults == [k \in FaultKinds |-> 0]
=============================================================================
