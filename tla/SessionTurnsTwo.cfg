SPECIFICATION Spec
CONSTANTS
    r1 = r1
    r2 = r2
    r3 = r3
    t1 = t1
    t2 = t2
    Requests = {r1, r2}
    Turns = {t1, t2}
    TurnOf <- TwoTurns
    None = None
    AutoSleep = TRUE
    ProviderSteers = TRUE
    MaxRestarts = 2
INVARIANTS
    AcceptedTurnIsStored
    NoLeftoverRow
    DroppedForCause
    QueuedOrderIsStrict
PROPERTIES
    StoppedIsNeverSent
    SuspendDeletesNothing
    ImplementsTurnLedger
    EveryRequestSettles
CHECK_DEADLOCK FALSE
