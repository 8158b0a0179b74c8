CONSTANTS
  MaxLevel = 2
  Settings <- MiddleLevel
  MaxPots = 1
  MaxRuns = 1
  MaxMoves = 0
  MaxQueue = 1
SPECIFICATION FairSpec
PROPERTIES StopStops
CHECK_DEADLOCK FALSE
