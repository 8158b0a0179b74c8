CONSTANTS
  c1 = c1
  t1 = t1
  t2 = t2
  Id = {c1}
  Types = {t1, t2}
  Receiver = Receiver
  Checker = Checker
  NoThread = NoThread
  MaxSent = 2
  MaxQueued = 3
SPECIFICATION Spec
INVARIANTS TypeOK SelfIntroducedHeard DrainedKnown
PROPERTIES TerminationForgets
CHECK_DEADLOCK FALSE
