CONSTANTS
  v1 = v1
  v2 = v2
  n1 = n1
  b1 = b1
  b2 = b2
  x = x
  y = y
  Var = {v1, v2}
  Value = {x, y}
  NoValue = NoValue
  UniqueOnly = {v1}
  Name = {n1}
  NoName = NoName
  Callback = {b1, b2}
  MaxId = 1
  MaxSent = 5
SPECIFICATION Spec
INVARIANTS TypeOK Informed NamesAgree ReadableSoon
PROPERTIES ImplementsSnapshot
CHECK_DEADLOCK FALSE
