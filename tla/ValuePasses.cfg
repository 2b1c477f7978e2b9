SPECIFICATION Spec
CONSTANTS
  IntBits = 6
  Programs <- MCPrograms
  Inputs <- MCInputs
INVARIANTS
  DivisionsReplaced
PROPERTIES
  RewritesRefine
  ValuePassesEnd
CHECK_DEADLOCK FALSE
