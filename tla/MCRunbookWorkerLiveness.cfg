SPECIFICATION FairSpec
CONSTANTS
    w1 = w1
    w2 = w2
    Workers <- OneWorker
    Payloads <- LivenessPayloads
    Names <- MCNames
    Namespaces <- MCNamespaces
    RunbookIds <- MCIds
    AllowedActions <- MCAllowedActions
    AllowedNamespaces <- MCAllowedNamespaces
    TargetNamespace = "food-app"
    CooldownSeconds = 2
    RunbookDedupTTL = 2
    DryRunModes = {TRUE, FALSE}
    StopOnFailure = FALSE
    InfoLogging = TRUE
    LogMax = 1
    MaxPushes = 2
    MaxTime = 1
    MaxLives = 2
INVARIANTS
    RunsPlanInOrder
PROPERTIES
    EveryPayloadSettles
    StopsWhenAsked
