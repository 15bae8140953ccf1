SPECIFICATION Spec
CONSTANTS
    MaxRuns = 2
    Invocations <- MCInvocations
    CoarseClock = FALSE
INVARIANTS
    GradesThisRun
    OneSubject
    StripAtLevel
    ScoreLaw
    AbortsOnlyOnFault
PROPERTY
    GradingEnds
CHECK_DEADLOCK FALSE
