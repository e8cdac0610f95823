SPECIFICATION IntakeLiveSpec
CONSTANTS
    Blocks <- MCBlocks
    Genesis = "g"
    None = None
    Prev <- MCPrev
    Height <- MCHeight
    ChainTrust <- MCHeight
    Mode = "STRICT"
    Signed = {}
    HasMasterKey = FALSE
    MasterDepth = 1
    Refused = {}
    Doubtful = {"y2"}
    Stake <- MCStake
    Weak = {}
    Downloading = {FALSE}
INVARIANT
    HeldOnlyForMissingParent
