SPECIFICATION Spec
CONSTANTS
    Layouts <- MCLayouts
    RamLength = 76
    StackSize = 16
    InitArrays <- MCInitArrays
    Chars <- MCChars
    Inputs <- MCInputs
    Error = 1000
    Name <- Heisenberg
    Slide = 11
    BufSize = 12
    Tails <- MCTails
    Setups <- MCSetups
    Fates <- MCFates
    Placements <- MCPlacements
    Word = 1024
    Junk = 77
    MaxTyped = 1
INVARIANT
    EndIsNoError
CHECK_DEADLOCK FALSE
