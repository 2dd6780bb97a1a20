SPECIFICATION MCFairSpec
CONSTANTS
  N = 4
  MaxTip = 4
  End = End
  Empty = Empty
  REORG_BATCH_SIZE = 3
  MaxHeight = 14
  Burn <- TreeBurn
  Genesis = 0
  Parent <- TreeParent
  Rank <- TreeRank
  CycleLength = 3
  MaxFailures = 0
  MaxCrashes = 0
  MaxTarget = 6
CHECK_DEADLOCK FALSE
INVARIANT
  ParentIsStored
