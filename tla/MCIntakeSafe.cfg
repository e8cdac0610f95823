SPECIFICATION IntakeSpec
CONSTANTS
    Blocks <- MCBlocks
    Genesis = "g"
    None = None
    Prev <- MCPrev
    Height <- MCHeight
    ChainTrust <- MCChainTrust
    Mode = "STRICT"
    Signed = {"a1", "x2", "y2"}
    HasMasterKey = TRUE
    MasterDepth = 1
    Refused = {"z2"}
    Doubtful = {"y2"}
    Stake <- MCStake
    Weak = {"x2"}
    Downloading = {TRUE}
INVARIANTS
    IntakeTypeOK
    OrphanMapsAgree
PROPERTIES
    SyncInMainChain
    SyncAccepted
    SyncOnlyAdvances
    ImplementsSyncCheckpoint
