SPECIFICATION Spec
CONSTANTS
  Options <- WithKeylog
  ChanSize = 1
  SizeLimit = 2
  MaxPackets = 3
  MaxSecrets = 2
INVARIANTS
  WriterExclusive
CHECK_DEADLOCK FALSE
