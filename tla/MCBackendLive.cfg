CONSTANTS
  main = main
  t1 = t1
  Threads = {main, t1}
  Callers = {main}
  Cap = 1
  MaxBatch = 1
  Options <- Programs
  None = None
SPECIFICATION FairSpec
PROPERTIES NoStarvation ShutdownReturns RegistryConverges
CHECK_DEADLOCK FALSE
