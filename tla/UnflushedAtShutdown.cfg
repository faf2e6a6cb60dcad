CONSTANTS
  Levels = {1, 2}
  SinkLevels <- MCSingleSink
  MaxRecords = 2
SPECIFICATION FairSpec
PROPERTY FlushedAtShutdown
CHECK_DEADLOCK FALSE
