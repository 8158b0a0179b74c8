CONSTANTS
  c1 = c1
  c2 = c2
  c3 = c3
  Id = {c1, c2}
  NoId = NoId
  Base = {hub}
  MaxSuffix = 1
  Unnamed = Unnamed
  Types = {t1}
  Requests <- DirectedRoles
SPECIFICATION Spec
INVARIANTS CurrentMappingsForwarded
CHECK_DEADLOCK FALSE
