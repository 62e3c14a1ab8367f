SPECIFICATION Spec
CONSTANTS
    s1 = s1
    s2 = s2
    Sessions = {s1, s2}
    Windows = {"five_hour", "weekly"}
    MaxSleep = 2
    ResumeBuffer = 1
    RecheckInterval = 1
    SkipFallback = 1
    Events <- SomeEvents
    Readings <- SomeReadings
    MaxTime = 4
    MaxSignals = 3
INVARIANTS
    CapHolds
    ResumeHolds
    ResumeSurvives
PROPERTIES
    EveryTurnGetsBy
CHECK_DEADLOCK FALSE
