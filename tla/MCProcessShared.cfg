SPECIFICATION FairSpec
CONSTANTS
    HealthServer = TRUE
    MaxMessages = 3
    MaxEntries = 3
    MaxRequests = 2
CHECK_DEADLOCK FALSE
INVARIANTS
    TypeOK
    LogsAreWhole
    OneMoreAtMost
    SignalIsHonoured
    StoreStaysInMemory
PROPERTIES
    StopEndsProcess
