CONSTANTS
  p1 = p1
  p2 = p2
  Page = {p1, p2}
  Labels = {}
  Toggles = {}
  Actions = {alarm}
  NoControl = NoControl
  MaxChange = 0
  MaxSelects = 1
SPECIFICATION FairSpec
INVARIANTS TypeOK NoticesAgree
PROPERTIES PageCatchesUp
CHECK_DEADLOCK FALSE
