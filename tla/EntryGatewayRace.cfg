\* Two gateway processes race on one economic key.
SPECIFICATION Spec
CONSTANTS
  c1 = c1
  c2 = c2
  s1 = s1
  s2 = s2
  s3 = s3
  p1 = p1
  p2 = p2
  p3 = p3
  k1 = k1
  k2 = k2
  NoSeal = NoSeal
  NoPermit = NoPermit
  NoKey = NoKey
  Clients = {c1, c2}
  Seals = {s1, s2}
  Permits = {p1, p2}
  Keys = {k1}
  Cash = 2
  IssueDeadline = 0
  SendDeadline = 1
  Expiry = 2
  MaxNow = 2
  MaxTruth = 1
SYMMETRY Symmetry
INVARIANTS
  TypeOK
  ClaimBacked
  CancelledIsDead
  OnePermitPerSeal
