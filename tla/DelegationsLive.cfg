SPECIFICATION FairSpec
CONSTANTS
    Child = {a, b}
    Roots = {"routine"}
    Call = {k1, k2}
    MaxDepth = 2
    MaxPerParent = 2
    MaxGlobal = 2
    MaxAttempts = 1
    MaxTurns = 0
    MaxCancels = 0
    MaxActs = 1
    MaxCrashes = 1
INVARIANT RoutineEndsLast
PROPERTIES
    CancelSettles
CHECK_DEADLOCK FALSE
