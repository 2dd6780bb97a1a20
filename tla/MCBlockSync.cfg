SPECIFICATION MCSpec
CONSTANTS
    nbr = nbr
    home = home
    p1 = p1
    p2 = p2
    Peers = {nbr}
    Us = home
    RewardCycleLength = 2
    GETPOXINV_MAX_BITLEN = 1
    Won = {3}
    Starts <- MCStarts
    MaxHeight = 4
    MaxChanges = 3
    Blocks = {1, 3}
    Parent <- MCParent
    Confirms = {3}
    Claims <- MCClaims
    Serves <- MCServes
    ServesStream <- MCStreams
    Announces <- MCAnnounces
    FirstTip = 2
    MaxTip = 3
    MaxInflight = 1
    MaxFailures = 1
INVARIANTS
    BitsAreTruthful
PROPERTIES
    ScansConverge
    DownloadsComplete
