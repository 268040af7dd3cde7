SPECIFICATION FairSpec
CONSTANTS
    Publishers = {p1, p2}
    Viewers = {v1}
    Keys = {k1, k2}
    MaxSources = 2
    MaxConnects = 1
    IoThreads = 2
INVARIANTS
    RegistryInv
    RegisteredStaysListed
    ListedIsServable
    StaleEntryOnlyAfterRename
    MetadataAlive
    PushesIntoOwnSource
PROPERTIES
    SourcesEventuallyFreed
CHECK_DEADLOCK FALSE
