SPECIFICATION Spec
CONSTANTS
  Options <- AllOptions
  ChanSize = 1
  SizeLimit = 2
  MaxPackets = 3
  MaxSecrets = 2
INVARIANTS
  TypeOK
  CompletionAfterFlush
  StopWaits
  SecretsInOrder
CHECK_DEADLOCK FALSE
