SPECIFICATION FairSpec
CONSTANTS
    s1 = s1
    s2 = s2
    c1 = c1
    c2 = c2
    Shards = {s1, s2}
    Clients = {c1, c2}
    MaxRequests = 3
    MaxEntries = 1
    MaxFaults = 1
INVARIANTS
    TypeOK
    OneOwner
    DeletedStaysDeleted
PROPERTIES
    CloseReturns
    AppendedIsConsumed
CHECK_DEADLOCK FALSE
