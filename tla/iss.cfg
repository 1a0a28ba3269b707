SPECIFICATION Spec
CONSTANTS
    WPP = 2
    PGS = 2
    MMax = 1
    XMax = 0
    N = 2
    FIELD = 4
    Asid = {0, 1}
    PageSize = {1}
    Pfn = {0, 1}
    UTLB_SZ = 2
    WPL = 2
    Mips4 = "full"
    os_mode = TRUE
    MaxSteps = 3
    RandomWrites = {3}
    WiredWrites = {1, 3}
    HiWrites <- mcHi
    LoWrites <- mcLo
    Boot <- mcBoot
    CodeVA <- mcCode
    DataVA <- mcData
    Targets <- mcTargets
    SrWrites <- mcSr
    BootSr <- mcBootSr
INVARIANTS TypeOK UtlbExact ResumePoint LinkSound
PROPERTY AbstractSpec
