SPECIFICATION GXSpec
CONSTANTS
  VirtRegs <- MCVirtRegs
  PhysRegs <- MCPhysRegs
  Blocks <- MCBlocks
  Preserved <- MCPreserved
  Idx <- MCIdx
  Funcs <- MCFuncs
  Temps <- MCTemps
INVARIANTS
  GCTypeOK
  GraphCoversClashes
  CandidatesApart
  ColoringSound
  GXReadsAgree
PROPERTY GCReturns
CHECK_DEADLOCK FALSE
