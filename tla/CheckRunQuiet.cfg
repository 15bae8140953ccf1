SPECIFICATION Spec
CONSTANTS
    MaxRuns = 1
    Invocations <- MCQuietCheck
    CoarseClock = FALSE
INVARIANT
    QuietChecksToo
CHECK_DEADLOCK FALSE
