SPECIFICATION MPSpec
CONSTANTS
  VirtRegs <- MCVirtRegs
  PhysRegs <- MCPhysRegs
  zeroReg = "x0"
  Blocks <- MCBlocks
  Word = 64
  ImmBits = 3
  Funcs <- MCFuncs
  Allocatable = {"a0", "a1", "s1", "s2"}
  Threshold = 4
  ExactLimit = 4
  Inputs <- MCInputs
  Steps = 12
INVARIANTS
  BackendPreserves
  PrintedPreserves
  BestOrder
PROPERTY
  BackendTerminates
CHECK_DEADLOCK TRUE
