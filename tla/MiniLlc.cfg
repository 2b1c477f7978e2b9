SPECIFICATION Spec
CONSTANTS
  IntBits = 6
  ArgRegs = 2
  Steps = 64
  Texts <- MCTexts
  Inputs <- MCInputs
INVARIANTS
  RoundTrip
  AcceptedReadsBack
  CompiledPreserves
  FrameSound
CHECK_DEADLOCK FALSE
