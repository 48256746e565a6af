SPECIFICATION Spec
CONSTANTS
  Objects = {}
  KindOf <- NoKinds
  NamespaceOf <- NoNamespaces
  Refs = {"", "web", ".*", "^$"}
  Matched <- NothingMatched
  Malformed = {"("}
  KronosApps = {"a", "b"}
  ClockLiterals = {"18:00", "08:00"}
  Zones = {"UTC"}
  SpecsWritten <- NoNamespace
  MaxEdits = 1
INVARIANTS DefaultsAreStored
CHECK_DEADLOCK FALSE
