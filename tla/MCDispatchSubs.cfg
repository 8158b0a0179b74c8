CONSTANTS
  c1 = c1
  c2 = c2
  c3 = c3
  Id = {c1, c2, c3}
  NoId = NoId
  Base = {hub}
  MaxSuffix = 2
  Unnamed = Unnamed
  Types = {t1}
  Requests <- SubscriberRoles
SPECIFICATION Spec
INVARIANTS TypeOK DirectoryExact Lifecycle ReceiversIntroduced SubscribersKnowTypes TerminationFinal
PROPERTIES NoSilentLoss
CHECK_DEADLOCK FALSE
