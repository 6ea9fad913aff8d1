SPECIFICATION FairLiveSpec

CONSTANTS
    None = None
    e1 = e1
    w1 = w1
    extract = extract
    Executions = {e1}
    Workers = {w1}
    Keys = {extract}
    Stages <- OneStage
    MaxStageRetries = 1
    MaxAttempts = 2
    FaultBudget <- NoFaults
    Watched = e1
    MaxDrops = 0

PROPERTIES
    OutcomeReachesPage
