SPECIFICATION TwoAppsSpec
CONSTANTS
  Objects = {"web"}
  KindOf <- KindByName
  MaxLevel = 1
  AppSpecs <- WholeSpec
  MaxEdits = 2
  FaultyCalls = {}
  MaxFaults = 0
CONSTRAINTS Explored
INVARIANTS GivenBackWhenCrossed
CHECK_DEADLOCK FALSE
