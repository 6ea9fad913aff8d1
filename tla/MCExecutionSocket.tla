-------------------------- MODULE MCExecutionSocket --------------------------
(* Small instances of ExecutionSocket for TLC.                               *)
EXTENDS ExecutionSocket

CONSTANTS e1, e2
=============================================================================
