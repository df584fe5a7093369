CONSTANTS
  c1 = c1
  c2 = c2
  Coords = {c1, c2}
  NumNodes = 2
  Conditions = {"down", "ok", "gap"}
  TTL = 2
  Cooldown = 1
  FailThreshold = 1
  MaxApplied = 0
  MaxChanges = 1
  MaxFaults = 1
  MaxRequests = 0
  Timely = TRUE
  None = None
SPECIFICATION FairSpec
INVARIANT OneLeader
PROPERTY MasterReplaced
