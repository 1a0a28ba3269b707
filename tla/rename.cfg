CONSTANTS
    None = None
    LReg <- mcLReg
    PReg <- mcPReg
    LFile <- mcLFile
    PFile <- mcPFile
    MemBank <- mcMemBank
    Reset <- mcReset
    Uops <- mcUops
    RobEntries = 3
SPECIFICATION Spec
INVARIANTS Ownership RetiredOwnership OperandHeld SourceCurrent NeverWedged RenameInv
