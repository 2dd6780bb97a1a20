CONSTANTS
    FirstBlockHeight = 3
    RewardCycleLength = 3
    PrepareLength = 2
    AnchorThreshold = 2
    s1 = s1
    s2 = s2
    s3 = s3
    Slots = {s1, s2, s3}
    NoSlot = NoSlot
    MaxRewardSet = 3
    MaxHeight = 10
    FirstHeight = 1
    Txs <- MCTxs
    Lifetime = 1
    Uint256Max = 7
    U64Max = 6
    NoWinner = NoWinner
    MaxOps = 3
    MaxSnapshots = 5
SPECIFICATION MCSpec
INVARIANTS DrawsAreFair AnchorMatchesReference PoxOutputsFitAncestry SortitionsFollowBurns ForksAreSound
CHECK_DEADLOCK FALSE
SYMMETRY SlotSymmetry
