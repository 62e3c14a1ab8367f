SPECIFICATION FairSpec
CONSTANTS
    Event <- MCEvents
    Device = {d1}
    Source = {"p", "q"}
    PolicyOf <- MCPolicyOf
    SourceOf <- MCSourceOf
    Attention <- MCNone
    Revs <- MCOneRev
    Retries = 1
    Modes = {}
    Keen = {d1}
    Quick = 0
    MaxMoves = 1
    MaxCrashes = 1
PROPERTIES
    ReceivedIsNotResent
    EventuallySettled
CHECK_DEADLOCK FALSE
