SPECIFICATION FairSpec
CONSTANTS
  Students = {s1, s2}
  Admins = {a1}
  Workers = {w1, w2}
  CheckerCodes = {c1}
  HideAfter = 2
  Ops <- CheckRaceOps
  MaxVersions = 3
  MaxFaults = 0
  Nobody = Nobody
INVARIANT LiveIsCleared
PROPERTY ReportedComesDown
CHECK_DEADLOCK FALSE
