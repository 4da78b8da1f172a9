SPECIFICATION FairSpec
CONSTANTS
  Addrs = {"c", "s"}
  NoAddr = "none"
  Filters <- NoFilters
  Window = 2
  WireRecords <- TwoConnections
  PlaintextRecords <- AnyRecords
  TrustAnyTuple = TRUE
  MaxBuffered = 2
  MaxPackets = 2
  MaxPlaintexts = 1
  Horizon = 2
INVARIANTS
  CompetitorsRemembered
PROPERTIES
  AmbiguityIsFinal
  PacketsEventuallyWritten
  PlaintextEventuallyExported
CHECK_DEADLOCK FALSE
