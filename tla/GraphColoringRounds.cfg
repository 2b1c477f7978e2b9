SPECIFICATION GXSpec
CONSTANTS
  VirtRegs <- MCVirtRegs
  PhysRegs <- FewRegs
  Blocks <- MCBlocks
  Preserved <- FewPreserved
  Idx <- FewIdx
  Funcs <- Spilling
  Temps <- MCTemps
INVARIANT RoundsSound
CHECK_DEADLOCK FALSE
