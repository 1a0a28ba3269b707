CONSTANTS
    X = X
    Y = Y
    Z = Z
    a = a
    b = b
    Line = {X, Y}
    Colour = {a, b}
    Val = {0, 1}
    v0 = 0
    NSets = 2
    L2Lines = 2
    SetOf <- mcSetOf
    ColourOf <- mcColourOf
    L2Of <- mcL2Of
    PaColour <- mcPaColour
    PgLines = 1
    PgLine <- mcPgLine1
    ValOf <- mcValOf
    CpuOps = {"load", "store", "CHWB"}
    CachedVA <- mcLiveVA
    UncachedVA = {}
    StoreLine = {X}
    IFetch <- mcFetch
    FlushOps = {"cl", "all"}
    DmaInvalLine = {}
    DmaXfers <- mcLiveDma
    MaxDma = 1
SPECIFICATION FairSpec
PROPERTIES AccessCompletes FetchCompletes SnoopCompletes FlushEnds
