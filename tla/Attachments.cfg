SPECIFICATION Spec
CONSTANTS
  Students = {s1}
  Workers = {w1, w2}
  Files = {f1, f2}
  SlotChoices = {1}
  Ops <- FileOps
  MaxFaults = 1
  s1 = s1
  w1 = w1
  w2 = w2
  f1 = f1
  f2 = f2
  Nobody = Nobody
  NoFile = NoFile
SYMMETRY Symmetry
INVARIANTS
  NoOrphanUpload
  ViewedToldOnce
PROPERTIES
  OwnFilesSurvive
CHECK_DEADLOCK FALSE
