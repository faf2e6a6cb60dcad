CONSTANTS
  Counts = {0, 1, 2, 3}
  MaxRuns = 6
SPECIFICATION Spec
INVARIANTS TypeOK Ordered KeepsRecent
PROPERTY OnlyOldestDropped
CHECK_DEADLOCK FALSE
