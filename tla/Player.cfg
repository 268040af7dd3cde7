SPECIFICATION FairSpec
CONSTANTS
    MaxCpus = 2
    SendBuffer = 3
    MaxTransfer = 2
    BodySizes = {1, 3}
    PoolSize = 2
    MaxRequests = 2
    MaxTags = 2
INVARIANTS
    OutputInv
    InFlightNotPooled
    NoUseAfterFree
    MuxerDiesOutsideLoop
    AnsweredInFull
PROPERTIES
    AnswerCloses
CHECK_DEADLOCK FALSE
