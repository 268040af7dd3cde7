SPECIFICATION Spec
CONSTANTS
    ShortIds = {a}
    MediumIds = {}
    LongIds = {b}
    Lens = {0, 3}
    ChunkSizes = {1}
    kDefaultChunkLength = 2
    kC1HandshakeSize = 1
    kHeaderLength <- SmallHeaders
    kExtendedLength = 1
    ControlLen = 2
    Mark = 2
    TsMod = 3
    MaxWire = 2
INVARIANTS
    ParserInv
    NothingStuck
PROPERTIES
    RefinesStream
CONSTRAINT TwoPlain
CHECK_DEADLOCK FALSE
