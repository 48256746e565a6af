SPECIFICATION Spec
CONSTANTS
  Objects = {"web"}
  KindOf <- KindByName
  MaxLevel = 1
  AppSpecs <- FlagSpecs
  MaxEdits = 0
  FaultyCalls = {}
  MaxFaults = 0
INVARIANTS ForceWakeWakes
CHECK_DEADLOCK FALSE
