CONSTANTS
  c1 = c1
  c2 = c2
  Coords = {c1, c2}
  NumNodes = 3
  Conditions = {"down", "ok"}
  TTL = 0
  Cooldown = 1
  FailThreshold = 1
  MaxApplied = 0
  MaxChanges = 1
  MaxFaults = 0
  MaxRequests = 1
  Timely = FALSE
  None = None
SPECIFICATION Spec
SYMMETRY CoordSymmetry
INVARIANT TypeOK
INVARIANT HistoryIsChain
PROPERTY CooldownBetweenFailovers
