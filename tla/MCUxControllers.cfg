CONSTANTS
  d1 = d1
  d2 = d2
  pot = pot
  Id = {d1, d2}
  NameOf <- Namesakes
  Unnamed = Unnamed
  Request = {r}
  Receiver = Receiver
  Checker = Checker
  NoObject = NoObject
  MaxCrashes = 1
SPECIFICATION FairSpec
INVARIANTS TypeOK ListedAreKnown OthersSpared
PROPERTIES DevicesAppear LeaversVanish
CHECK_DEADLOCK FALSE
