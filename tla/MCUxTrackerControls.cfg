CONSTANTS
  p1 = p1
  p2 = p2
  Page = {p1}
  Labels = {label}
  Toggles = {toggle}
  Actions = {}
  NoControl = NoControl
  MaxChange = 1
  MaxSelects = 2
SPECIFICATION FairSpec
INVARIANTS NothingUntold
PROPERTIES PageCatchesUp
CHECK_DEADLOCK FALSE
