SPECIFICATION Spec
CONSTANTS
  LastPage = 1
  Threshold = 2
  Size = 2
  Fielded = {2}
  Attempts = 2
  WriteTries = 2
  MaxFailures = 1
  Batch = 1
  MissLimit = 1
  Behaviours = {"good"}
  MaxMishaps = 2
CHECK_DEADLOCK FALSE
INVARIANT NeverBootsCorrupted
