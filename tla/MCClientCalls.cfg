SPECIFICATION FairSpec
CONSTANTS
    c1 = c1
    Clients <- OneClient
    Versions <- MCVersions
    Annotated <- MCAnnotated
    LimitValues <- MCLimitValues
    Stored <- MCStored
    Foreign <- NoSets
    InfoLogging = TRUE
    Calls <- EveryCall
    Edits <- EveryEdit
    MaxCalls = 1
    MaxEdits = 2
    MaxLosses = 1
CHECK_DEADLOCK FALSE
INVARIANTS
    TypeOK
    WritesBounded
    RollbackGoesBack
    SuccessIsReal
    WritesOnce
    FailureLeavesNoTrace
PROPERTIES
    RequestsRunOut
    CallsEnd
