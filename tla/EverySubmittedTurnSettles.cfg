SPECIFICATION TurnsSpec
CONSTANTS
    Requests = {"a", "b"}
    Updates = {"u1", "u2"}
    Mixes <- MCMixes
    Chats = {"A"}
    ChatOf <- MCChat
    None = None
    MaxSize = 2
    Ttl = 1
    MaxTime = 2
    MaxMishaps = 2
PROPERTY EverySubmittedTurnSettles
CHECK_DEADLOCK FALSE
