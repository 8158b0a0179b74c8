CONSTANTS
  c1 = c1
  c2 = c2
  c3 = c3
  Id = {c1, c2, c3}
  NoId = NoId
  Base = {hub}
  MaxSuffix = 1
  Unnamed = Unnamed
  Types = {t1}
  Requests <- UxRoles
SPECIFICATION Spec
INVARIANTS AllSubscribersKnowNames
PROPERTIES AllMeansAll ImplementsNameService
CHECK_DEADLOCK FALSE
