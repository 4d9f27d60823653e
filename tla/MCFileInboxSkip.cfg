CONSTANTS
  s1 = s1
  s2 = s2
  Senders <- MCSenders
  MaxPuts = 2
  MaxCrashes = 0
SPECIFICATION Spec
INVARIANT NothingSkipped
