SPECIFICATION Spec
CONSTANTS
  w1 = w1
  Workers <- OneWorker
  NLines = 3
  Prior = 1
  MaxCrash = 2
  MaxUnauth = 2
INVARIANTS
  TypeOK
  AckIsBacked
PROPERTIES
  TerminalNeverResent
  GapIsForGood
CHECK_DEADLOCK FALSE
