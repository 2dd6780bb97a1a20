SPECIFICATION Spec
CONSTANTS
    alice = alice
    bob = bob
    vault = vault
    NoOne = NoOne
    Users = {alice, bob}
    Contracts = {vault}
    Grant <- MCGrant
    Keys <- AllKeys
    MaxUint = 3
    TotalSupply = 3
    LockPeriod = 1
    Coinbase = 4
    Maturity = 1
    Payments <- MCPayments
    Txs <- MCTxs
    MaxFrames = 4
    MaxTxs = 2
    MaxHeight = 4
INVARIANTS
    AssertionsHold
    OutflowIsLogged
    EventsExplainBalances
    CommittedAsAgreed
    AssetsAreConserved
PROPERTY
    KeepsViews
