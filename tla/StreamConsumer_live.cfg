SPECIFICATION FairSpec
CONSTANTS
    d1 = d1
    d2 = d2
    x1 = x1
    x2 = x2
    Docs = {d1}
    Indexes = {x1}
    IndexOf <- OneIndex
    Messages <- OneIndexMessages
    Batch = 2
    AllowGap = TRUE
    SafeRetention = FALSE
    PowerLoss = FALSE
    LossyDelivery = TRUE
    MaxMsgs = 5
    MaxTrims = 1
    MaxFailures = 1
INVARIANT
    OnlyDroppedAreMissed
PROPERTIES
    PauseReturns
    CatchesUp
