CONSTANTS
  N = 60
  UNKNOWN = 5
  Programs = {}
  Limits = {0}
  FieldSensitivity = 5
  Modules <- MCModules
  Instances = 2
  Depth = 3
  Questions = 3
SPECIFICATION LLVMSpec
INVARIANTS PointersFound CallsFound AccessesCovered OverwritesExact
CHECK_DEADLOCK FALSE
