SPECIFICATION Spec
CONSTANTS
    MaxCpus = 1
    SendBuffer = 20
    MaxTransfer = 2
    BodySizes = {1}
    PoolSize = 2
    MaxRequests = 1
    MaxTags = 1
INVARIANTS
    JustCloses
CHECK_DEADLOCK FALSE
