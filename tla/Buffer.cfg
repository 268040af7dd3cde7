SPECIFICATION Spec
CONSTANTS
    InitialSize = 4
    kSocketReadSize = 2
    kMaxCacheSize = 9
    Word = 2
    MaxBytes = 13
INVARIANTS
    BufferInv
    ReadHasRoom
    LimitEnforced
    DecodedIntact
PROPERTIES
    RefinesQueue
CHECK_DEADLOCK FALSE
