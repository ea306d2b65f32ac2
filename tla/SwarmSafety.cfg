SPECIFICATION Spec
CONSTANTS
  KindOf <- MCKindOf
  None = None
  Sessions = {1, 2}
  Clients = {1}
  Prompts = {"plain", "other", "unsafe"}
  Levels = {"confirm"}
  Acceptances = {"accepted", "pending"}
  Verdicts = {"revise"}
  Validated = {}
  KeepAlive = {}
  Emitted = {"blocked", "task_complete", "error"}
  MaxAutoResponses = 1
  MaxIdleChecks = 2
  MaxRetries = 1
  MaxRecoveries = 0
  Jobs = {j1, j2}
  MaxEvents = 2
  MaxUserActs = 1
SYMMETRY MCSymmetry
CHECK_DEADLOCK FALSE
INVARIANTS CompletedReleasesSession
PROPERTIES BufferedIsAttended EndIsFollowedUp
