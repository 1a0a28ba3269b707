CONSTANTS
    NoPc = NoPc
    NPc = 8
    LineLen = 4
    Vec = 4
    Programs <- mcPrograms
    Mapped = {3}
    FqEntries = 2
    DqEntries = 2
    RobEntries = 3
    MaxXflush = 1
SPECIFICATION Spec
INVARIANTS InOrder PreciseException ColourIsEra NonSpeculativeEffect CacheOpPerformed
