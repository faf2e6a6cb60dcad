SPECIFICATION Spec
CONSTANTS
  Base = 32
  PtrSize = 4
  Utf8 <- MCUtf8
  DecoderAccepts <- MCDecoderAccepts
  Sites <- MCSites
  SiteLevel <- MCSiteLevel
  SiteArgs <- MCSiteArgs
  Yields <- MCYields
  Calls <- MCCalls
  None <- MCNone
  LoggerLevel = 2
  HeaderSize = 2
  Capacity = 24
  MaxCalls = 1
  Stable = FALSE
INVARIANT InsideReservation
CHECK_DEADLOCK FALSE
