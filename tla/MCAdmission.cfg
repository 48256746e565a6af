SPECIFICATION FairSpec
CONSTANTS
  Objects = {}
  KindOf <- NoKinds
  NamespaceOf <- NoNamespaces
  Refs = {"", "web", ".*", "^$"}
  Matched <- NothingMatched
  Malformed = {"("}
  KronosApps = {"a", "b"}
  ClockLiterals = {"18:00", "08:00"}
  Zones = {"UTC"}
  SpecsWritten <- AllSpecs
  MaxEdits = 5
INVARIANTS TypeOK AdmittedSchedules AdmittedDays
PROPERTIES EveryAppServed
CHECK_DEADLOCK FALSE
