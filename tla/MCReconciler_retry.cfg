SPECIFICATION FairSpec
CONSTANTS
  Objects = {"web"}
  KindOf <- KindByName
  MaxLevel = 1
  AppSpecs <- WholeSpec
  MaxEdits = 0
  FaultyCalls = {"sleep"}
  MaxFaults = 1
PROPERTIES SleepIsRetried
CHECK_DEADLOCK FALSE
