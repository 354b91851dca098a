SPECIFICATION Spec
CONSTANTS
  Plants <- ThreePlants
  Lists <- MCLists
  Readings <- MCReadings
  Fallbacks <- MCFallbacks
INVARIANTS
  TypeOK
  AdviceOnlySaves
  AdvisedAreTheWorse
CHECK_DEADLOCK FALSE
