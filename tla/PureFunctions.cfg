SPECIFICATION FunctionsSpec
CONSTANTS
  Addrs = {"c", "s", "d"}
  NoAddr = "none"
  Filters <- PeerFilter
  Window = 30
  N = 3
  MaxScore = 4
  Margin = 1
  NumColors = 2
  Wires <- SomeWires
  Competitors <- SomeCompetitors
  Records <- SomeRecords
  ReceiveTimes = {8}
  Flows <- SomeFlows
  Answers <- SomeAnswers
INVARIANTS
  EvidenceNeeded
  TierDecides
  ScanFindsUnrivalled
  FlowsFit
  SeriesInPlace
  ProfilesHonoured
  ConfigMapConcrete
CHECK_DEADLOCK FALSE
