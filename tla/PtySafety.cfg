SPECIFICATION FairSpec
CONSTANTS
  None = None
  Sessions = {s1, s2}
  Tasked = {s1}
  Dirs = {d1, d2}
  MaxSessions = 2
  MaxRetries = 1
  MaxAge = 1
  MaxTicks = 1
  MaxEvents = 2
CHECK_DEADLOCK FALSE
INVARIANTS Prepared NothingLeft EndIsTold FedIsKept
PROPERTIES SpawnSettles RecoveryEnds
