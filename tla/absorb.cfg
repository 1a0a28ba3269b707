CONSTANTS
    X = X
    Y = Y
    Z = Z
    a = a
    b = b
    Line = {X, Y, Z}
    Colour = {a, b}
    Val = {0, 1}
    v0 = 0
    NSets = 2
    L2Lines = 2
    SetOf <- mcSetOf
    ColourOf <- mcColourOf
    L2Of <- mcL2Of
    PaColour <- mcPaColour
    PgLines = 2
    PgLine <- mcPgLine
    ValOf <- mcValOf
    CpuOps = {"load", "store"}
    CachedVA <- mcXZa
    UncachedVA = {}
    StoreLine = {X}
    IFetch <- mcFetch
    FlushOps = {}
    DmaInvalLine = {}
    DmaXfers <- mcSnoopIn
    MaxDma = 1
SPECIFICATION Spec
INVARIANT SettledCoherent
