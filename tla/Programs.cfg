SPECIFICATION Spec
CONSTANTS
    Layouts <- MCLayouts
    RamLength = 76
    StackSize = 16
    InitArrays <- MCInitArrays
    Chars <- MCChars
    Inputs <- MCInputs
    Error = 1000
    Name <- Heisenberg
    Slide = 11
    BufSize = 12
    Tails <- MCTails
    Setups <- MCSetups
    Fates <- MCFates
    Placements <- MCPlacements
    Word = 1024
    Junk = 77
    MaxTyped = 3
INVARIANTS
    ImageAtMain
    StackIsMapped
    LineIsJudged
    MockSpellsName
    ExitsAsWritten
PROPERTY
    Ends
CHECK_DEADLOCK FALSE
