SPECIFICATION Spec
CONSTANTS
  Addrs = {"c", "s"}
  NoAddr = "none"
  Filters <- NoFilters
  Window = 2
  WireRecords <- FullWire
  PlaintextRecords <- FullRecords
  TrustAnyTuple = FALSE
  MaxBuffered = 2
  MaxPackets = 3
  MaxPlaintexts = 2
  Horizon = 2
INVARIANTS
  PcapInArrivalOrder
  PlaintextExportedOnce
  OutputsAgree
  AnnotationNamesConnection
  BufferBounded
  CloseFlushesAll
PROPERTIES
  LedgerRefinement
CHECK_DEADLOCK FALSE
