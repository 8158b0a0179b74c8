CONSTANTS
  MaxLevel = 2
  Settings <- MiddleLevel
  MaxPots = 2
  MaxRuns = 2
  MaxMoves = 1
  MaxQueue = 1
SPECIFICATION FairSpec
INVARIANTS TypeOK LabelAgrees
PROPERTIES WetStops DryStarts PumpRests
CHECK_DEADLOCK FALSE
