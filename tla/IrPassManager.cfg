SPECIFICATION Spec
CONSTANTS
  Programs <- MCPrograms
  MainArguments <- MCArguments
  Steps = 24
  TailThreshold = 3
  CalleeThreshold = 8
  CallerThreshold = 30
INVARIANTS
  TypeOK
  PassesKeepWellFormed
  BehaviourPreserved
  FixedPoint
PROPERTIES
  MotionNeverDeepens
  PassManagerTerminates
