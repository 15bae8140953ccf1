SPECIFICATION Spec
CONSTANTS
    MaxRuns = 1
    Invocations <- MCCheck
    CoarseClock = FALSE
INVARIANT
    MisbehaviourOnlyDivides
CHECK_DEADLOCK FALSE
