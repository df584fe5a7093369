SPECIFICATION FairStreamSpec
CONSTANTS
    Docs = {d1, d2}
    BatchSize = 2
    MaxBatchSize = 3
    Word = 1024
    MaxShards = 2
    MaxCopies = 3
    MaxWrites = 4
    MaxFaults = 2
    MaxCrashes = 1
    PowerLoss = FALSE
INVARIANTS
    TypeOK
    CommittedDocsExact
PROPERTIES
    CommitsAreContiguous
    VersionsOnlyGrow
    EntriesEventuallyCommitted
CHECK_DEADLOCK FALSE
