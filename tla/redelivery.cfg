SPECIFICATION Spec

CONSTANTS
    None = None
    e1 = e1
    w1 = w1
    w2 = w2
    extract = extract
    embed = embed
    Executions = {e1}
    Workers = {w1, w2}
    Keys = {extract, embed}
    Stages <- MixedStages
    MaxStageRetries = 2
    MaxAttempts = 4
    FaultBudget <- Redelivery

SYMMETRY WorkerSymmetry

INVARIANTS
    TypeOK
    StrandedOnlyByKnownCause
    StagesInOrder
    SucceededMeansAllStages
    AttemptsContiguous
    FailedOnlyAfterBudget
    CarryInv
PROPERTIES
    VerdictIsFinal
