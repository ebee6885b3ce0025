SPECIFICATION Spec
CONSTANTS
  w1 = w1
  w2 = w2
  a1 = a1
  a2 = a2
  NoWorker = NoWorker
  Workers <- OneWorker
  Attempts <- TwoAttempts
  Lot = 2
  MaxRev = 3
  MaxLate = 1
  MaxReopen = 1
SYMMETRY AttemptSymmetry
INVARIANTS
  TypeOK
  NeverOversells
  SubmissionsCovered
  UnknownIsQueried
  NothingStranded
CHECK_DEADLOCK FALSE
