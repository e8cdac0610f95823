SPECIFICATION IntakeLiveSpec
CONSTANTS
    Blocks <- MCBlocks
    Genesis = "g"
    None = None
    Prev <- MCPrev
    Height <- MCHeight
    ChainTrust <- MCHeight
    Mode = "STRICT"
    Signed = {"y2", "y3"}
    HasMasterKey = TRUE
    MasterDepth = 1
    Refused = {}
    Doubtful = {"y3"}
    Stake <- MCStake
    Weak = {}
    Downloading = {FALSE}
INVARIANTS
    HeldOnlyForMissingParent
    NoCheckpointForgotten
PROPERTY
    OrphansResolved
