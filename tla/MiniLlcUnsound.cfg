SPECIFICATION Spec
CONSTANTS
  IntBits = 6
  ArgRegs = 2
  Steps = 64
  Texts <- UnsoundTexts
  Inputs <- MCInputs
INVARIANTS
  CompiledPreserves
CHECK_DEADLOCK FALSE
