SPECIFICATION Spec
CONSTANTS
    MaxCpus = 1
    SendBuffer = 20
    MaxTransfer = 2
    BodySizes = {3}
    PoolSize = 2
    MaxRequests = 1
    MaxTags = 1
INVARIANTS
    TagsInOrder
CHECK_DEADLOCK FALSE
