SPECIFICATION Spec
CONSTANTS
  Students = {s1, s2, s3}
  Admins = {a1}
  Workers = {w1, w2}
  CheckerCodes = {c1}
  HideAfter = 2
  Ops <- RaceOps
  MaxVersions = 3
  MaxFaults = 0
  Nobody = Nobody
SYMMETRY Symmetric
INVARIANT DraftsArePrivate
INVARIANT HiddenByEnough
PROPERTY AnsweredOnce
CHECK_DEADLOCK FALSE
