SPECIFICATION Spec
CONSTANTS
    w1 = w1
    w2 = w2
    Workers <- TwoWorkers
    Payloads <- SharedPayloads
    Names <- MCNames
    Namespaces <- MCNamespaces
    RunbookIds <- MCIds
    AllowedActions <- MCAllowedActions
    AllowedNamespaces <- MCAllowedNamespaces
    TargetNamespace = "food-app"
    CooldownSeconds = 2
    RunbookDedupTTL = 2
    DryRunModes = {FALSE}
    StopOnFailure = TRUE
    InfoLogging = TRUE
    LogMax = 1
    MaxPushes = 2
    MaxTime = 1
    MaxLives = 2
SYMMETRY WorkerSymmetry
INVARIANTS
    InHandIsHeld
    CooldownInv
PROPERTIES
    DeliversAtMostOnce
    SettledForGood
