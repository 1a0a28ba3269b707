SPECIFICATION Spec
CONSTANTS
    BB = 1
    MemBytes = 16
    Operands <- mcOperands
    Imm = {0, 1, 2, 3}
    Shamt = {0, 1, 3}
    GprInit <- mcGpr
    MemInit <- mcMem
    FprInit <- mcFpr
    EL = FALSE
    Mips4 = TRUE
    FpWords = {0, 9}
    NCC = 2
    FcsrWrites <- mcFcsr
    MaxOps = 2
INVARIANTS SignExtended ResultExact SinglesHeld FccViews
PROPERTY UnalignedPair
