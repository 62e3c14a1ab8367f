SPECIFICATION Spec
CONSTANTS
    r1 = r1
    r2 = r2
    r3 = r3
    t1 = t1
    t2 = t2
    Requests = {r1, r2, r3}
    Turns = {t1, t2}
    TurnOf <- ResentTurn
    None = None
    AutoSleep = FALSE
    ProviderSteers = TRUE
    MaxRestarts = 1
INVARIANTS
    SentOnce
    ShownOnce
CHECK_DEADLOCK FALSE
SYMMETRY CopySymmetry
