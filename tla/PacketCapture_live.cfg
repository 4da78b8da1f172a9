SPECIFICATION FairSpec
CONSTANTS
  Options <- Correlated
  ChanSize = 1
  SizeLimit = 2
  MaxPackets = 2
  MaxSecrets = 0
PROPERTIES
  CaptureEnds
  StoppersExit
CHECK_DEADLOCK FALSE
