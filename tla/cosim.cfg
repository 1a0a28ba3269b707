SPECIFICATION Spec
CONSTANTS
  CmdLines <- mcCmdLines
  RtlVec = {10, 11, 12}
  SimVec = {10, 11, 12}
  VecPc = 10
  Lost <- mcLost
  GMax = 2
  WATCHDOG = 2
  SNOOPQ = 1
  Lat = {1, 2}
  MaxReq = 3
  Lines <- mcLines
  EeBits = 2
  TdRob = 2
  TdCycles = 6
  TdOps = 2
  TdKinds = {"alu", "load", "nop"}
  pipestart = 0
  pipeend = 1
  Skew = 1
INVARIANTS Lockstep DivergenceReported MemoryPorts ProfileExact
