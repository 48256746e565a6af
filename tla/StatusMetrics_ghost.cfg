SPECIFICATION FairSpec
CONSTANTS
  Texts = {"t1", "t2"}
  MaxEdits = 1
  MaxFaults = 0
PROPERTIES SeriesForgets
CHECK_DEADLOCK FALSE
