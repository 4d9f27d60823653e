CONSTANTS
  Authenticated = TRUE
  Writers = {"agent", "unsigned", "maker"}
  Agents = {"agent", "unsigned"}
  AgentRoster = {"agent", "unsigned"}
  MakerRoster = {"agent", "unsigned"}
  Trusted = {"agent", "maker"}
  FileStore = TRUE
  Expiring = {}
  MaxSent = 2
  MaxCrashes = 0
  MaxRaises = 1
SPECIFICATION FairSpec
PROPERTY HaltTakesEffect
CHECK_DEADLOCK FALSE
