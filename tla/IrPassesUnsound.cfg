SPECIFICATION Spec
CONSTANTS
  Programs <- Unsound
  MainArguments <- MCArguments
  Steps = 24
  TailThreshold = 3
  CalleeThreshold = 8
  CallerThreshold = 30
INVARIANT PassesSound
