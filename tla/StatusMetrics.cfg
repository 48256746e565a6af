SPECIFICATION FairSpec
CONSTANTS
  Texts = {"t1", "t2"}
  MaxEdits = 2
  MaxFaults = 2
INVARIANTS TypeOK OneSeries
PROPERTIES InfoForgets StatusIsShown
CHECK_DEADLOCK FALSE
