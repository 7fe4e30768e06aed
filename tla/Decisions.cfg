SPECIFICATION FairSpec
CONSTANTS
  Students = {s1, s2}
  Workers = {w1, w2}
  Files = {}
  SlotChoices = {1, 2}
  Ops <- DecisionOps
  MaxFaults = 1
  s1 = s1
  s2 = s2
  w1 = w1
  w2 = w2
  Nobody = Nobody
  NoFile = NoFile
INVARIANTS
  NoCircularWait
  LockedReadsHold
  AnnouncedIsDecided
PROPERTIES
  ImplementsAwardLedger
  RequestsFinish
  DecisionsAnnounced
CHECK_DEADLOCK FALSE
