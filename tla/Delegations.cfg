SPECIFICATION Spec
CONSTANTS
    Child = {a, b}
    Roots = {"chat"}
    Call = {k1, k2}
    MaxDepth = 2
    MaxPerParent = 1
    MaxGlobal = 2
    MaxAttempts = 2
    MaxTurns = 3
    MaxCancels = 2
    MaxActs = 0
    MaxCrashes = 2
SYMMETRY MCSymmetry
INVARIANTS
    WithinLimits
    NoSlotIsLeaked
    SlotOutlivesTurn
    CancelReachesTree
CHECK_DEADLOCK FALSE
