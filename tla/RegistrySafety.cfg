SPECIFICATION Spec
CONSTANTS
  None = None
  Sessions = {1, 2}
  Workers = {1, 2}
  Goal = 0
  Repo = TRUE
  Emitted = {"complete", "error", "stopped", "touch"}
  Verdicts = {"pass"}
  UserActs = {}
  Calls = {1, 2}
  MaxEvents = 2
  MaxActs = 0
  MaxCrashes = 0
CHECK_DEADLOCK FALSE
INVARIANTS RecordFollowsMemory ThreadFollowsSessions AcceptedIsProven
PROPERTIES  AcceptanceOnce AnnouncedIsRecorded
