SPECIFICATION FairSpec
CONSTANTS
  Worker = {w1, w2}
  MaxClock = 7
  MaxRequests = 4
INVARIANTS
  TypeOK
  ServedInTurn
  StaleBounded
PROPERTIES
  RefreshSpaced
  NobodyLockedOut
CHECK_DEADLOCK FALSE
