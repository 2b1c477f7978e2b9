SPECIFICATION MPSpec
CONSTANTS
  VirtRegs <- ManyRegs
  PhysRegs <- MCPhysRegs
  zeroReg = "x0"
  Blocks <- MCBlocks
  Word = 64
  ImmBits = 3
  Funcs <- PursuitOnly
  Allocatable = {"a0", "a1", "s1", "s2"}
  Threshold = 8
  ExactLimit = 4
  Inputs <- MCInputs
  Steps = 12
INVARIANTS
  BackendPreserves
CHECK_DEADLOCK TRUE
