CONSTANTS
    X = X
    Y = Y
    Z = Z
    a = a
    b = b
    Line = {X, Y, Z}
    Colour = {a, b}
    Val = {0, 1}
    v0 = 0
    NSets = 2
    L2Lines = 2
    SetOf <- mcSetOf
    ColourOf <- mcColourOf
    L2Of <- mcL2Of
    PaColour <- mcPaColour
    PgLines = 2
    PgLine <- mcPgLine
    ValOf <- mcAccVal
    CpuOps = {"load", "store", "CHWB", "CHINV", "uload", "ustore"}
    CachedVA <- mcCached
    UncachedVA <- mcUncached
    StoreLine = {X, Y}
    IFetch <- mcUncFetch
    FlushOps = {}
    DmaInvalLine = {}
    DmaXfers = {}
    MaxDma = 0
SPECIFICATION Spec
INVARIANTS TypeOK Presence NoSynonym Coherent ResponseTaken ReloadOnce
