SPECIFICATION Spec
CONSTANTS
    w1 = w1
    w2 = w2
    Workers <- TwoWorkers
    Payloads <- SharedPayloads
    Names <- MCNames
    Namespaces <- MCNamespaces
    RunbookIds <- MCIds
    AllowedActions <- MCAllowedActions
    AllowedNamespaces <- MCAllowedNamespaces
    TargetNamespace = "food-app"
    CooldownSeconds = 2
    RunbookDedupTTL = 2
    DryRunModes = {FALSE}
    StopOnFailure = TRUE
    InfoLogging = TRUE
    LogMax = 3
    MaxPushes = 2
    MaxTime = 0
    MaxLives = 1
SYMMETRY WorkerSymmetry
INVARIANT ProcessedOnce
