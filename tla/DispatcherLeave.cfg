SPECIFICATION Spec
CONSTANTS
    Readers = {r1, r2}
    MaxPackets = 3
    max_size = 2
    kMinPacketCacheSize = 1
    IoThreads = 1
INVARIANTS
    LeaveReleasesReader
SYMMETRY ReaderSymmetry
CHECK_DEADLOCK FALSE
