SPECIFICATION FairSpec
CONSTANTS
  Objects = {"web", "api"}
  KindOf <- KindByName
  MaxLevel = 1
  AppSpecs <- WholeSpec
  MaxEdits = 2
  FaultyCalls = {}
  MaxFaults = 0
PROPERTIES OthersAreWoken
CHECK_DEADLOCK FALSE
