SPECIFICATION FairSpec
CONSTANTS
    m1 = m1
    m2 = m2
    m3 = m3
    m4 = m4
    NoMsg = none
    Msgs = {m1, m2, m3, m4}
    Size <- SizesTwoTooLarge
    IDBytes = 1
    HeaderBytes = 1
    MaxBytes = 6
    MaxPayload = 3
    PeekMax = 2
    MaxFaults = 2
    MaxDisconnects = 1
    MaxExpiries = 1
    MaxCrashes = 1
INVARIANTS
    TypeOK
    AcceptedKept
    NoOvertaking
PROPERTY FittingReachStream
CHECK_DEADLOCK FALSE
