SPECIFICATION FairSpec
CONSTANTS
    Readers = {r1, r2}
    MaxPackets = 4
    max_size = 1
    kMinPacketCacheSize = 2
    IoThreads = 3
INVARIANTS
    IndInv
    CacheIsLiveTail
    NoGapNoDuplicate
    NoOrphanViewer
PROPERTIES
    RefinesChannel
    DetachedOnlyAtEnd
    ViewersEventuallyReleased
    NewClientServed
CHECK_DEADLOCK FALSE
