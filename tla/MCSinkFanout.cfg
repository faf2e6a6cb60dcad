CONSTANTS
  Levels = {1, 2}
  SinkLevels <- MCSinkLevels
  MaxRecords = 2
SPECIFICATION FairSpec
INVARIANTS TypeOK EffectiveLevel OrderedOutput NoSilentLoss
PROPERTY EveryRecordHandled
CHECK_DEADLOCK FALSE
