SPECIFICATION FairSpec
CONSTANTS
    Buffer = 1
    CycleLength = 2
    StableConfirmations = 1
    StartHeight = 2
    Scenarios <- AllScenarios
INVARIANTS
    NetResultsKept
    TenuresMatchWins
PROPERTIES
    TipGetsTenure
CHECK_DEADLOCK FALSE
