SPECIFICATION Spec
CONSTANTS
  Objects = {"web", "api"}
  KindOf <- KindByName
  MaxLevel = 1
  AppSpecs <- ScopeSpecs
  MaxEdits = 2
  FaultyCalls = {"crash", "save", "sleep", "wake", "purge"}
  MaxFaults = 1
INVARIANTS Recoverable Custody Fidelity SleepersAreKept
PROPERTIES RecordStable ImplementsCustodian
CHECK_DEADLOCK FALSE
