SPECIFICATION Spec
CONSTANTS
    None = None
    MaxHeaders = 2
    TextBase <- SegText
    DataBase <- SegData
    TruthTables <- SegLinked
    PredTables <- SegLinked
INVARIANT
    PassMeansIdentical
CHECK_DEADLOCK FALSE
