CONSTANTS
    sync = sync
    miner = miner
    relayer = relayer
    BurnAnnouncers = {sync}
    StacksAnnouncers = {miner, relayer}
    Waiters = {miner}
    MaxWork = 2
SPECIFICATION CommFairSpec
INVARIANTS NoLostWork
PROPERTIES WorkGetsDone StopStops
CHECK_DEADLOCK FALSE
