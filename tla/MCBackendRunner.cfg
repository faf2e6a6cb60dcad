CONSTANTS
  main = main
  t1 = t1
  Threads = {main, t1}
  Callers = {main}
  Cap = 2
  MaxBatch = 2
  Options <- Programs
  None = None
SPECIFICATION Spec
INVARIANTS TypeOK RetiredEmpty ShutdownDrains
CHECK_DEADLOCK FALSE
