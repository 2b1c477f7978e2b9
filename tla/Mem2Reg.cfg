SPECIFICATION MRSpec
CONSTANT Funcs <- MCFuncs
INVARIANTS
  SemidominatorsFound
  TreeMeansDominance
  PromotedWellFormed
  PromotionPreserves
PROPERTY PromotionEnds
CHECK_DEADLOCK FALSE
