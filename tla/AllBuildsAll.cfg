SPECIFICATION BuildSpec
CONSTANTS
    Targets <- MCTargets
    ObjectsOf <- MCObjectsOf
    FlagsOf <- MCFlagsOf
    Nested <- MCNested
    GoalLists <- MCGoalLists
    Builds = {"debug"}
    MaxEdits = 0
    MaxMakes = 1
INVARIANT
    AllBuildsAll
CHECK_DEADLOCK FALSE
