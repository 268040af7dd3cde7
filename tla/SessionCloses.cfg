SPECIFICATION Spec
CONSTANTS
    Servers = {rtmp, http}
    Sessions = {s1, s2}
    MaxWrites = 1
    MaxThrows = 1
PROPERTIES
    OnlyManagerCloses
SYMMETRY Symmetry
CHECK_DEADLOCK FALSE
