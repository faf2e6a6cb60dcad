SPECIFICATION Spec
CONSTANTS
  Char <- MCChar
  Patterns <- MCPatterns
  RecordsFor <- MCRecordsFor
  Existing <- MCExisting
  MaxUsize = 31
  TwoBytes = TwoBytes
  None = None
  ScanLength = 6
  SpecLength = 4
  MessageLength = 5
INVARIANTS Lossless PlaceholdersFollowGrammar MessagePositional TimeShown
PROPERTIES PadsAround
CHECK_DEADLOCK FALSE
