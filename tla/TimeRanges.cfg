SPECIFICATION Spec
CONSTANTS
    d1 = d1
    d2 = d2
    Docs = {d1, d2}
    MaxTime = 3
    MaxShards = 3
    MaxWrites = 3
    MaxFaults = 2
    MaxCrashes = 1
SYMMETRY DocSymmetry
INVARIANTS
    TypeOK
    ReadsEveryAnswer
CHECK_DEADLOCK FALSE
