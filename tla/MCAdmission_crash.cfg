SPECIFICATION FairSpec
CONSTANTS
  Objects = {}
  KindOf <- NoKinds
  NamespaceOf <- NoNamespaces
  Refs = {"", "web", ".*", "^$"}
  Matched <- NothingMatched
  Malformed = {"("}
  KronosApps = {"a", "b"}
  ClockLiterals = {"18:00", "08:00"}
  Zones = {"UTC"}
  SpecsWritten <- EqualRefs
  MaxEdits = 2
PROPERTIES OthersAreServed
CHECK_DEADLOCK FALSE
