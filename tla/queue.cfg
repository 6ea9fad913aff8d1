SPECIFICATION FairReadySpec

CONSTANTS
    None = None
    t1 = t1
    t2 = t2
    w1 = w1
    w2 = w2
    p1 = p1
    p2 = p2
    Tasks = {t1}
    Workers = {w1, w2}
    Polls = {p1, p2}
    MaxDeliveries = 2
    MaxMoves = 4
    MaxChanges = 1
    MaxFailures = 1
    MaxOutages = 4

CHECK_DEADLOCK FALSE

INVARIANTS
    QueueTypeOK
    DeliveriesListedOnce
    ReadinessWitnessed
PROPERTIES
    CleanupIsFinal
    CurrentInTheEnd
