SPECIFICATION Spec
CONSTANTS
  Objects = {"web", "job"}
  KindOf <- KindByName
  MaxLevel = 1
  AppSpecs <- ScopeSpecs
  MaxEdits = 2
  FaultyCalls = {"crash", "save"}
  MaxFaults = 1
INVARIANTS Recoverable
CHECK_DEADLOCK FALSE
