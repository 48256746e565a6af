SPECIFICATION TwoAppsSpec
CONSTANTS
  Objects = {"web"}
  KindOf <- KindByName
  MaxLevel = 1
  AppSpecs <- WholeSpec
  MaxEdits = 2
  FaultyCalls = {"crash", "save", "wake", "purge"}
  MaxFaults = 1
CONSTRAINTS Explored
INVARIANTS TwoAppsTypeOK EachRecoverable GivenBackWhenNested
CHECK_DEADLOCK FALSE
