SPECIFICATION Spec
CONSTANTS
    Names <- MCNames
    Namespaces = {"food"}
    RunbookIds = {}
    Words <- MCWords
    NameIn <- MCNameIn
    Counting <- MCCounting
    Digits <- MCDigits
    ValueOf <- MCValueOf
    IntLimit <- MCIntLimit
    Kinds <- MCKinds
    Tails <- MCTails
    MaxWords = 7
CHECK_DEADLOCK FALSE
INVARIANTS
    ParsesToCommand
    LoggedCommandParses
    ParsesAsAsked
