SPECIFICATION Spec
CONSTANTS
    c1 = c1
    Clients <- OneClient
    Versions <- MCVersions
    Annotated <- MCVersions
    LimitValues <- OneLimit
    Stored <- OneStored
    Foreign <- NoSets
    InfoLogging = FALSE
    Calls <- RollbackOnly
    Edits <- RolloutEdits
    MaxCalls = 1
    MaxEdits = 2
    MaxLosses = 1
CHECK_DEADLOCK FALSE
INVARIANTS
    RollbackSurvivesLoss
