SPECIFICATION Spec
CONSTANTS
  None = None
  Sessions = {s1}
  Tasked = {s1}
  Dirs = {d1}
  MaxSessions = 1
  MaxRetries = 0
  MaxAge = 1
  MaxTicks = 1
  MaxEvents = 2
CHECK_DEADLOCK FALSE
INVARIANTS AssessedIsKept
