CONSTANTS
    NoPc = NoPc
    NPc = 8
    LineLen = 4
    Vec = 4
    Programs <- mcLikelySlot
    Mapped = {}
    FqEntries = 2
    DqEntries = 2
    RobEntries = 3
    MaxXflush = 0
SPECIFICATION Spec
INVARIANT InOrder
