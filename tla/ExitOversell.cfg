SPECIFICATION Spec
CONSTANTS
  w1 = w1
  w2 = w2
  a1 = a1
  a2 = a2
  NoWorker = NoWorker
  Workers <- TwoWorkers
  Attempts <- TwoAttempts
  Lot = 2
  MaxRev = 1
  MaxLate = 0
  MaxReopen = 0
SYMMETRY AttemptSymmetry
INVARIANTS
  SubmissionsCovered
CHECK_DEADLOCK FALSE
