CONSTANTS
  Callers = {"c1", "c2"}
  Sessions = {"s1"}
  Makers = {"m1", "m2"}
  Messages = {"x"}
  Drivers <- MCDrivers
  NoMaker = NoMaker
  NoMessage = NoMessage
  MaxCalls = 4
  MaxRestarts = 1
SPECIFICATION FairSpec
INVARIANTS
  TypeOK
  StopTellsTheTruth
  InReachUnlessRespawned
  NothingDropped
PROPERTY StopEndsTheMaker
CHECK_DEADLOCK FALSE
