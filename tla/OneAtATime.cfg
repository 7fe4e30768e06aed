SPECIFICATION Spec
CONSTANTS
  Students = {s1, s2}
  Admins = {a1, a2}
  Workers = {w1}
  CheckerCodes = {c1}
  HideAfter = 2
  Ops <- SerialOps
  MaxVersions = 3
  MaxFaults = 1
  Nobody = Nobody
SYMMETRY Symmetric
INVARIANT LiveIsCleared
PROPERTY MovesAreLegal
CHECK_DEADLOCK FALSE
