SPECIFICATION LXSpec
CONSTANTS
  VirtRegs <- MCVirtRegs
  PhysRegs <- MCPhysRegs
  Blocks <- MCBlocks
  Preserved <- MCPreserved
  Idx <- MCIdx
  Funcs <- MCFuncs
INVARIANTS
  LSTypeOK
  NoSharing
  PhysRegsKept
  NeverAborts
  ReservedUntouched
  ReadsAgree
PROPERTY
  ImplementsAssignment
  AllocatorReturns
CHECK_DEADLOCK FALSE
