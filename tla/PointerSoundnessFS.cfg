CONSTANTS
  N = 8
  UNKNOWN = 3
  Programs <- MCPrograms
  Limits = {0, 1}
  FieldSensitivity = 3
  Instances = 2
SPECIFICATION SoundSpec
INVARIANT SoundFS
CHECK_DEADLOCK FALSE
