SPECIFICATION FairSpec
CONSTANTS
    Servers = {rtmp, http}
    Sessions = {s1, s2}
    MaxWrites = 2
    MaxThrows = 2
INVARIANTS
    SessionInv
    OpenIsRead
    StillAccepting
PROPERTIES
    DetachedIsReclaimed
CHECK_DEADLOCK FALSE
