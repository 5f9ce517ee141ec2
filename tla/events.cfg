SPECIFICATION FairSpec
CONSTANTS
  Events = {e1}
  MaxTime = 6
  MaxCount = 4
  MaxFaults = 4
  Nil = Nil
CHECK_DEADLOCK FALSE
INVARIANTS
  InOrderOnce
  LastIsLogged
PROPERTIES
  LoggedAtLast
