SPECIFICATION FairSpec
CONSTANTS
  Tabs = {t1, t2, t3}
  MaxSignIns = 1
  MaxKept = 1
INVARIANTS
  RestoredDoNotVouch
PROPERTIES
  OpenTabIsHeard
  HiddenPageResolves
CHECK_DEADLOCK FALSE
