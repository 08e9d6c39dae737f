SPECIFICATION TablesSpec
CONSTANTS
    Idle = Idle
    Key <- MCKey
    Kind <- MCKind
    Content <- MCContent
    Prefix <- MCPrefix
    Placements <- MCPlacements
    Mid <- MCMid
    Safe <- MCSafe
    Scripts <- WeakScripts
    Readers = {"r1", "r2"}
    MinSize = 2
    FlatLimit <- MCFlatLimit
    CountMid = 4
    MaxChainEq = 2
    MaxChain <- MCMaxChain
    InitialLimit = 1
    InitialChain = 2
    HighestLimit = 7
    Crowded <- MCCrowded
    FixedShift = 4
    TagBits = 1
    LowTagBits = 2
    WordBits = 8
    Unroll = 4
INVARIANT ChainedGrowsFromNew
CHECK_DEADLOCK FALSE
