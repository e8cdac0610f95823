SPECIFICATION WalletSpec
CONSTANTS
    Blocks <- MCBlocks
    Genesis = "g"
    None = None
    Prev <- MCPrev
    Height <- MCHeight
    ChainTrust <- MCHeight
    Txs <- MCTxs
    Vtx <- MCVtx
    Inputs <- MCInputs
    Value <- MCValue
    Kernel <- MCKernel
    Unsound = {"u3"}
    CoinAge <- MCCoinAge
    Maturity = 1
    Subsidy = 10
    MinFee = 0
    YearlyBlockCount = 100
    NonStandard = {}
    Free = {"t3"}
    Large = {}
    MaxOrphans = 2
    Mine <- MCMine
    ExtraMaturity = 1
    Repairs = TRUE
    RescanFrom = {"g"}
INVARIANTS
    PoolMapsAgree
    PoolAndChainDisjoint
    OrphanIndexAgrees
    WalletTypeOK
    WalletAgreesWithChain
    SpentCoinsFlagged
    FlaggedHasSpender
    StakesRefunded
PROPERTIES
    DependentsFollow
    OrphansRetried
    MessageHandled
