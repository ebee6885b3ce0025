SPECIFICATION FairSpec
CONSTANTS
  x1 = x1
  x2 = x2
  Ids <- TwoIds
  Budget <- TightBudget
  MaxRetries = 1
  MaxQueue = 2
  MaxThrottle = 1
  MaxReopen = 1
  MaxRaise = 1
INVARIANTS
  TypeOK
  RateIsolated
  NoCompounding
  DutyKept
PROPERTIES
  ExitDischarged
CHECK_DEADLOCK FALSE
