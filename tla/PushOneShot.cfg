SPECIFICATION Spec
CONSTANTS
    Event <- MCEvents
    Device = {d1}
    Source = {"p", "q"}
    PolicyOf <- MCPolicyOf
    SourceOf <- MCSourceOf
    Attention <- MCEvents
    Revs <- MCOneRev
    Retries = 1
    Modes = {"default", "notify_once"}
    Keen = {}
    Quick = 1
    MaxMoves = 2
    MaxCrashes = 1
INVARIANT TypeOK
PROPERTIES
    OneShotIsForOneEvent
    RevokedIsNotUsed
CHECK_DEADLOCK FALSE
