SPECIFICATION Spec
CONSTANTS
  Objects = {}
  KindOf <- NoKinds
  NamespaceOf <- NoNamespaces
  Refs = {"", "web", ".*", "^$"}
  Matched <- NothingMatched
  Malformed = {"("}
  KronosApps = {"a", "b"}
  ClockLiterals = {"18:00", "08:00"}
  Zones = {"UTC"}
  SpecsWritten <- NoWeekdays
  MaxEdits = 1
INVARIANTS DefaultsAreAdmitted
CHECK_DEADLOCK FALSE
