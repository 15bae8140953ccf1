SPECIFICATION GradeSpec
CONSTANTS
    Places = {1, 2, 3}
    MaxTrue = 3
    MaxPred = 2
    MaxHeaders = 2
    Inputs1 <- MCInputs1
    Inputs2 <- RelInputs2
    Program <- CutProgram
    Kinds <- AllKinds
    Requests <- AllRequests
    Absent = None
    TextBase <- SegText
    DataBase <- SegData
    Setups <- MCSetups
INVARIANTS
    PairsAgree
    NoLostMatch
    OutputSorted
    NothingDropped
    CrashOnlyOnEmpty
    FaithfulScoresAll
    FullMarks
    ReadOrZero
    ExactOnOneEach
    ExchangesExactly
    NoStaleRelocations
PROPERTIES
    ImplementsJoin
    Ends
CHECK_DEADLOCK FALSE
