SPECIFICATION NXSpec
CONSTANTS
  VirtRegs <- MCVirtRegs
  PhysRegs <- MCPhysRegs
  Blocks <- MCBlocks
  Preserved <- MCPreserved
  Idx <- MCIdx
  Funcs <- MCFuncs
INVARIANTS
  BlocksSolved
  LivenessExact
  GivesUpOnlyIfStuck
  NXReadsAgree
CHECK_DEADLOCK FALSE
