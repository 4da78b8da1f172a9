SPECIFICATION FairSpec
CONSTANTS
  Captures <- AllCaptures
  KeepCount = 2
  WirePacketKeepCount = 1
  PlaintextKeepCount = 2
  DefaultShowCount = 2
  LeastShowCount = 2
  Records <- SomeRecords
  MaxFlows = 3
  MaxShowCount = 3
  MaxRegexes = 1
INVARIANTS
  TableInOrder
  RefreshSettles
PROPERTIES
  NewestShown
  AppendedIsShown
CHECK_DEADLOCK FALSE
