SPECIFICATION Spec
CONSTANTS
    a = a
    b = b
    RoutineIds = {a, b}
    Schedules <- TwiceOnly
    NoOverlap = {a}
    CatchUp = 0
    Endings <- SuccessOnly
    RecoveryWindow = 0
    Horizon = 2
    MaxRevision = 1
    MaxToggles = 0
    MaxManual = 0
    MaxRestarts = 1
    MaxRefusals = 1
INVARIANTS
    OneLiveRun
    NotifiedOnce
PROPERTIES
    DueIsHandled
    EveryRunIsReported
CHECK_DEADLOCK FALSE
