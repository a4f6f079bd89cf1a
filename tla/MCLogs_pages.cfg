SPECIFICATION LogsSpec
CONSTANTS
  Filter <- Forms
  Limit = {1, 2}
  Happening <- Writes
  Scenarios <- Tours
  PerDay = 2
  none = none
CHECK_DEADLOCK FALSE
INVARIANTS PagesTellTruth WalkLosesNothing
