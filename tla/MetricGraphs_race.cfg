SPECIFICATION Spec
CONSTANTS
  a = a
  b = b
  Panels <- MCPanels
  Durations = {"5m", "1h"}
  MaxSelected = 1
  MaxWorkers = 2
  FollowRaces = TRUE
INVARIANT StaleAnswersSkipped
CHECK_DEADLOCK FALSE
