SPECIFICATION Spec
CONSTANTS
    r1 = r1
    r2 = r2
    Indexes = {1, 2}
    IndexOf <- Alternate
    Requests = {r1, r2}
    MaxMsgs = 2
    MaxFailures = 1
    MaxEvents = 2
INVARIANTS
    TypeOK
    ArchiveNotBehind
    ArchiveIsStreamState
    PauseAsFound
    RestoredComplete
CHECK_DEADLOCK FALSE
