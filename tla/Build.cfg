SPECIFICATION BuildSpec
CONSTANTS
    Targets <- MCTargets
    ObjectsOf <- MCObjectsOf
    FlagsOf <- MCFlagsOf
    Nested <- MCNested
    GoalLists <- MCGoalLists
    Builds = {"debug", "release"}
    MaxEdits = 1
    MaxMakes = 2
INVARIANTS
    FreshElf
    OwnFlags
CHECK_DEADLOCK FALSE
