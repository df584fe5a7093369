CONSTANTS
  c1 = c1
  Coords = {c1}
  NumNodes = 3
  Conditions = {"down", "ok", "lagging", "degraded", "gap"}
  TTL = 1
  Cooldown = 1
  FailThreshold = 1
  MaxApplied = 1
  MaxChanges = 1
  MaxFaults = 1
  MaxRequests = 0
  Timely = FALSE
  None = None
SPECIFICATION Spec
PROPERTY FreshestTakesOver
