SPECIFICATION Spec
CONSTANTS
    Docs = {d1, d2}
    BatchSize = 2
    MaxBatchSize = 3
    Word = 1024
    MaxShards = 2
    MaxCopies = 3
    MaxWrites = 3
    MaxFaults = 2
    MaxCrashes = 1
    PowerLoss = TRUE
INVARIANTS
    UncommittedRetained
    CommittedFindable
CHECK_DEADLOCK FALSE
