SPECIFICATION FairSpec
CONSTANTS
  ChanSize = 2
  SizeLimit = 2
  MaxFlows = 5
INVARIANTS
  OutputsAgree
  ForegroundStopsAtLimit
PROPERTIES
  LateRecordEndsCapture
  AcknowledgedIsWritten
CHECK_DEADLOCK FALSE
