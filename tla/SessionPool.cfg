SPECIFICATION Spec
CONSTANTS
    Requests = {"a", "b"}
    Updates = {"u1", "u2"}
    Mixes <- MCMixes
    Chats = {"A"}
    ChatOf <- MCChat
    None = None
    MaxSize = 2
    Ttl = 2
    MaxTime = 3
    MaxMishaps = 1
INVARIANTS
    OneOwner
    HolderIsAlone
    InstallerWaits
PROPERTIES
    PoolReopens
CHECK_DEADLOCK FALSE
