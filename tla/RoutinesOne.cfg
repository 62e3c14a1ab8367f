SPECIFICATION Spec
CONSTANTS
    a = a
    b = b
    RoutineIds = {a}
    Schedules <- AllKinds
    NoOverlap = {a}
    CatchUp = 0
    Endings <- AllEndings
    RecoveryWindow = 0
    Horizon = 2
    MaxRevision = 2
    MaxToggles = 1
    MaxManual = 1
    MaxRestarts = 1
    MaxRefusals = 0
INVARIANTS
    OccurrencesInOrder
    LiveRunHasExecutor
    PausedUntilAnswered
PROPERTIES
    OutcomeIsFinal
CHECK_DEADLOCK FALSE
