CONSTANTS
  Programs <- AllPrograms
  MaxThreads = 3
  MaxDepth = 2
  Objects = {1, 2}
SPECIFICATION Spec
INVARIANTS
  RegionsSingleEntry
  InterferenceFound
  HeldCovered
  ForksMatchedWhereDistinct
CHECK_DEADLOCK FALSE
