SPECIFICATION Spec
CONSTANTS
  Options <- Correlated
  ChanSize = 1
  SizeLimit = 2
  MaxPackets = 3
  MaxSecrets = 2
PROPERTIES
  NothingLeftToFlush
CHECK_DEADLOCK FALSE
