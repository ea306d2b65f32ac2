SPECIFICATION FairSpec
CONSTANTS
  None = None
  MaxAgents = 3
  MaxLaunched = 2
  Kinds = {"scratch", "repo", "spawn_agent", "api", "provision", "finalize", "remove"}
  Labels = {l}
  Policies = {"ephemeral", "pending_decision", "persistent"}
  Names = {1, 2}
  Slots = {1, 2}
  MaxActs = 2
  MaxStarts = 1
CHECK_DEADLOCK FALSE
INVARIANTS MapsAgree KeptIsThere DecisionIsComing
PROPERTIES LaunchEnds
