SPECIFICATION Spec
CONSTANTS
    Prompts = {p1, p2}
    Sessions = {s1}
    AgentIds = {a1}
    None = None
    Messages <- Answers
    MaxLines = 3
    OutputCap = 2
    Wide = FALSE
SYMMETRY StreamSymmetry
CHECK_DEADLOCK FALSE
INVARIANTS
    ChunkingInvisible
    StoppedCarriesAnswer
    FailureReported
