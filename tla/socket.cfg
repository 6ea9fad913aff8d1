SPECIFICATION FairSpec

CONSTANTS
    e1 = e1
    e2 = e2
    Ids = {e1, e2}
    Missing = {e2}
    MaxReruns = 1
    MaxDrops = 6
    MaxUnread = 1

CHECK_DEADLOCK FALSE

INVARIANTS
    HookTypeOK
    LiveDotIsTrue
PROPERTIES
    NothingOpensAfterUnmount
    RefusalsBackOff
    TerminalStopsReconnecting
    PageLearnsOutcome
