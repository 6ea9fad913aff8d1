--------------------------- MODULE MCQueueMonitor ---------------------------
(* Small instances of QueueMonitor and Readiness for TLC.                    *)
EXTENDS Readiness, TLC

CONSTANTS t1, t2, w1, w2, p1, p2
=============================================================================
