SPECIFICATION Spec
CONSTANTS
  Objects = {"web"}
  KindOf <- KindByName
  MaxLevel = 1
  AppSpecs <- WholeSpec
  MaxEdits = 2
  FaultyCalls = {}
  MaxFaults = 0
PROPERTIES WakeNeverSleeps
CHECK_DEADLOCK FALSE
