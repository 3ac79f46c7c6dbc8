SPECIFICATION Spec
CONSTANTS
    w1 = w1
    w2 = w2
    Workers <- OneWorker
    Payloads <- SafetyPayloads
    Names <- MCNames
    Namespaces <- MCNamespaces
    RunbookIds <- MCIds
    AllowedActions <- MCAllowedActions
    AllowedNamespaces <- MCAllowedNamespaces
    TargetNamespace = "food-app"
    CooldownSeconds = 2
    RunbookDedupTTL = 2
    DryRunModes = {TRUE, FALSE}
    StopOnFailure = TRUE
    InfoLogging = TRUE
    LogMax = 3
    MaxPushes = 2
    MaxTime = 3
    MaxLives = 2
INVARIANTS
    TypeOK
    InHandIsHeld
    CooldownSpacing
    LastRunIsLastSuccess
    DedupSpacing
    HandledOnce
    RunsPlanInOrder
    OnlySafeActions
    LogBracketed
