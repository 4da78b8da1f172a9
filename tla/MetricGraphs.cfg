SPECIFICATION FairSpec
CONSTANTS
  a = a
  b = b
  Panels <- MCPanels
  Durations = {"5m", "1h"}
  MaxSelected = 1
  MaxWorkers = 2
  FollowRaces = FALSE
INVARIANTS AnswersFindTheirGraph
PROPERTIES PausedStandsStill GraphsSettle EndsInTime
CHECK_DEADLOCK FALSE
