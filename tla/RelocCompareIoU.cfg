SPECIFICATION CmpSpec
CONSTANTS
    Places = {1, 2}
    MaxTrue = 2
    MaxPred = 2
    Inputs1 <- RelInputs1
    Inputs2 <- RelInputs2
INVARIANT
    EqualSetsScoreOne
CHECK_DEADLOCK FALSE
