SPECIFICATION Spec
CONSTANTS
    Calls = {c1, c2, c3, c4}
    None = None
    Methods = {"spawn", "send", "cancel", "close", "delete", "reattach", "stop"}
    MaxSessions = 2
    AgentWrites = {"blocked"}
    StoreYields = FALSE
SYMMETRY CallSymmetry
CHECK_DEADLOCK FALSE
INVARIANTS
    TypeOK
    TrackedAlive
    EscalationArmed
    Settled
PROPERTIES
    TrackingHandover
    NoSignalAfterClose
    NoResurrection
