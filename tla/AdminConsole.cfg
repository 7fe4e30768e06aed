SPECIFICATION Spec
CONSTANTS
  Rows = {r1, r2, r3}
  MaxTransitions = 4
INVARIANTS
  LitIsTheAddress
  ExpandedIsTrue
  DrawerLeavesWideScreen
  SendsWhatItSays
