SPECIFICATION FairSpec
CONSTANTS
  KindOf <- MCKindOf
  None = None
  Sessions = {1, 2}
  Clients = {1}
  Prompts = {"plain", "routine", "depleted", "auto", "login", "unsafe"}
  Levels = {"autonomous", "notify"}
  Acceptances = {"accepted", "failed"}
  Verdicts = {"pass", "escalate"}
  Validated = {1}
  KeepAlive = {}
  Emitted = {"blocked", "task_complete", "error", "login_required", "tool_running"}
  MaxAutoResponses = 1
  MaxIdleChecks = 2
  MaxRetries = 1
  MaxRecoveries = 1
  Jobs = {1, 2}
  MaxEvents = 1
  MaxUserActs = 1
CHECK_DEADLOCK FALSE
PROPERTIES TaskEnds LockReleased
