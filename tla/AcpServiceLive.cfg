SPECIFICATION FairSpec
CONSTANTS
    Calls = {c1, c2, c3}
    None = None
    Methods = {"spawn", "send", "cancel", "close", "stop"}
    MaxSessions = 2
    AgentWrites = {}
    StoreYields = TRUE
CHECK_DEADLOCK FALSE
PROPERTIES
    StopEnds
    TimeoutEnds
