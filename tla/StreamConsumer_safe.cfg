SPECIFICATION Spec
CONSTANTS
    d1 = d1
    d2 = d2
    x1 = x1
    x2 = x2
    Docs = {d1, d2}
    Indexes = {x1, x2}
    IndexOf <- TwoIndexes
    Messages <- TwoIndexMessages
    Batch = 2
    AllowGap = FALSE
    SafeRetention = TRUE
    PowerLoss = TRUE
    LossyDelivery = FALSE
    MaxMsgs = 3
    MaxTrims = 1
    MaxFailures = 2
INVARIANTS
    TypeOK
    DurableNotBehind
PROPERTIES
    ImplementsReplica
