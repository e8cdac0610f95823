SPECIFICATION SpecDiskWorks
CONSTANTS
    Blocks <- MCBlocks
    Genesis = "g"
    None = None
    Prev <- MCPrev
    Height <- MCHeight
    ChainTrust <- MCChainTrust
    Txs <- MCTxs
    Vtx <- MCVtx
    Inputs <- MCInputs
    Value <- MCValue
    Kernel <- MCKernel
    Unsound = {}
    CoinAge <- MCCoinAge
    Maturity = 2
    Subsidy = 10
    MinFee = 1
    YearlyBlockCount = 100
    Flawed = {"b4"}
INVARIANTS
    MemoryAgreesWithDisk
