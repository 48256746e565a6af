SPECIFICATION FairSpec
CONSTANTS
  Objects = {"web"}
  KindOf <- KindByName
  MaxLevel = 2
  AppSpecs <- FlagSpecs
  MaxEdits = 2
  FaultyCalls = {"crash", "create", "status", "list", "sleep", "wake", "save", "purge"}
  MaxFaults = 1
INVARIANTS TypeOK Recoverable NotForgotten
PROPERTIES RestoresWhatWasTaken WakesUp EverySleeperSaved
CHECK_DEADLOCK FALSE
