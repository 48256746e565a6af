SPECIFICATION FairSpec
CONSTANTS
  Objects = {"web", "api"}
  KindOf <- KindByName
  MaxLevel = 1
  AppSpecs <- WholeSpec
  MaxEdits = 1
  FaultyCalls = {"sleep"}
  MaxFaults = 1
PROPERTIES WakesUpRegardless
CHECK_DEADLOCK FALSE
