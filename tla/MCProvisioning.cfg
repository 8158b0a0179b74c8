CONSTANTS
  e1 = e1
  e2 = e2
  Ep = {e1, e2}
  NoEp = NoEp
  MaxScans = 2
  MaxFaults = 1
SPECIFICATION FairSpec
INVARIANTS ConfiguredIfAccepted NameIsListed NotForgotten
PROPERTIES ScanEnds LinkComesUp
CHECK_DEADLOCK FALSE
