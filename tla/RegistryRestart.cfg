SPECIFICATION Spec
CONSTANTS
  None = None
  Sessions = {1, 2}
  Workers = {1}
  Goal = 0
  Repo = TRUE
  Emitted = {"complete", "stopped", "touch", "replaced"}
  Verdicts = {"pass", "revise", "escalate"}
  UserActs = {"pause", "stop", "resume", "archive", "reopen", "shutdown"}
  Calls = {1, 2, 3}
  MaxEvents = 1
  MaxActs = 1
  MaxCrashes = 1
CHECK_DEADLOCK FALSE
INVARIANTS NoGhosts
PROPERTIES RunningIsHeld
