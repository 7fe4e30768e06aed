SPECIFICATION Spec
CONSTANTS
  Students = {s1}
  Workers = {w1, w2}
  Files = {}
  SlotChoices = {1}
  Ops <- ExtendOps
  MaxFaults = 0
  s1 = s1
  w1 = w1
  w2 = w2
  Nobody = Nobody
  NoFile = NoFile
PROPERTIES
  FilledListingStaysClosed
CHECK_DEADLOCK FALSE
