SPECIFICATION Main
CONSTANTS
    NodeSize = 8
    DataSize = 12
    NUM_ITERATE = 2
    MaxNodes = 7
    val = 2
    WORD = 16384
    Seeds = {7, 17}
    Words <- MCWords
    BitXor <- MCXor
    BitOr <- MCOr
    BlkSizes <- MCBlkSizes
    Lists <- MCLists
    Blocks <- MCBlocks
    Layers <- MCLayers
    Setups <- MCSetups
INVARIANTS
    TypeOK
    InBlock
    NoSharedData
    Chained
    HandedOver
    NoNodeLost
    RunsSorted
    UsesBlock
    ProductRight
    FitsBlock
    ConvRight
PROPERTIES
    ImplementsOrder
    Terminates
CHECK_DEADLOCK FALSE
