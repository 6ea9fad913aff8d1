SPECIFICATION Spec

CONSTANTS
    None = None
    e1 = e1
    w1 = w1
    w2 = w2
    extract = extract
    embed = embed
    Executions = {e1}
    Workers = {w1}
    Keys = {extract, embed}
    Stages <- TwoStages
    MaxStageRetries = 3
    MaxAttempts = 3
    FaultBudget <- NoFaults

INVARIANTS
    ExhaustedIsFailed
