CONSTANTS
  Authenticated = TRUE
  Writers = {"agent", "unsigned", "maker"}
  Agents = {"agent", "unsigned"}
  AgentRoster = {"agent", "unsigned"}
  MakerRoster = {"agent", "unsigned"}
  Trusted = {"agent", "maker"}
  FileStore = TRUE
  Expiring = {1}
  MaxSent = 3
  MaxCrashes = 2
  MaxRaises = 1
SPECIFICATION FairSpec
INVARIANTS
  TypeOK
  AcksTellTheTruth
  SignalsFollowOrder
PROPERTIES
  AppliedAtMostOnce
  HaltIsHonoured
CHECK_DEADLOCK FALSE
