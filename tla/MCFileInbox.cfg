CONSTANTS
  s1 = s1
  s2 = s2
  Senders <- MCSenders
  MaxPuts = 4
  MaxCrashes = 1
SPECIFICATION FairSpec
INVARIANTS
  TypeOK
  LostOnlyIfOvertaken
PROPERTIES
  InOrderAtMostOnce
  EventuallyHanded
