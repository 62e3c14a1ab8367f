SPECIFICATION Spec
CONSTANTS
    Sessions = {"s"}
    Clients = {c1, c2, c3}
    None = None
    SessionOf <- MCSessionOf
    Cap = 3
    MaxProcs = 2
    MaxOut = 5
    Idles = TRUE
INVARIANTS
    NoStrayProcess
    ReplayIsTail
PROPERTIES
    UnwatchedEnds
CHECK_DEADLOCK FALSE
