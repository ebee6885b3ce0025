SPECIFICATION Spec
CONSTANTS
  w1 = w1
  w2 = w2
  Workers <- TwoWorkers
  FirstWriter = w1
  NLines = 1
  Prior = 0
  MaxCrash = 1
  MaxUnauth = 0
  MaxOrders = 1
  MaxEpoch = 3
INVARIANTS
  RuntimeTypeOK
  NoOverlap
  EveryLineAccepted
PROPERTIES
  OnlyAuthorityPasses
CHECK_DEADLOCK FALSE
