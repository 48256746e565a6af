SPECIFICATION Spec
CONSTANTS
  Objects = {"web"}
  KindOf <- KindByName
  MaxLevel = 1
  AppSpecs <- WholeSpec
  MaxEdits = 1
  FaultyCalls = {"crash"}
  MaxFaults = 1
INVARIANTS NeverLost
CHECK_DEADLOCK FALSE
