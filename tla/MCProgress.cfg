SPECIFICATION MCFairSpec
CONSTANTS
    FirstBlockHeight = 0
    RewardCycleLength = 2
    PrepareLength = 1
    AnchorThreshold = 1
    FirstBurn = b0
    NoBlock = NoBlock
    b1 = b1
    b2 = b2
    b3 = b3
    b4 = b4
    b5 = b5
    c2 = c2
    a1 = a1
    c1 = c1
    Genesis = Genesis
    AllBlocks = {a1, b1, c1}
    Trees <- ProgressTrees
    c3 = c3
    BurnBlocks <- Tree
    BurnParent <- TreeParent
    BurnOrder <- TreeOrder
    MaxCrashes = 1
    Scenarios <- CatchUp
PROPERTIES
    SortitionsCatchUp
    ReadyIsProcessed
    OrphansAreCollected
CHECK_DEADLOCK FALSE
