SPECIFICATION Spec
CONSTANTS
  u1 = u1
  u2 = u2
  Users <- TwoUsers
  NoOne = NoOne
SYMMETRY Symmetric
INVARIANTS
  SessionCleans
  AgentsFindTLSConfig
PROPERTIES
  SeenIsSpared
  CopiedBeforeDeleted
