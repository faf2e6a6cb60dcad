CONSTANTS
  main = main
  t1 = t1
  Threads = {main, t1}
  Callers = {main}
  Cap = 1
  MaxBatch = 1
  Options <- Panicking
  None = None
SPECIFICATION Spec
INVARIANT ShutdownDrains
CHECK_DEADLOCK FALSE
