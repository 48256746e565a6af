SPECIFICATION Spec
CONSTANTS
  Objects <- AllObjects
  KindOf <- KindByName
  NamespaceOf <- NamespaceByName
  Refs <- Patterns
  Matched <- MatchedByName
  Malformed = {"("}
  IncludedLists <- TwoNamespaces
  MaxChanges = 0
INVARIANTS EveryEntryCounts
CHECK_DEADLOCK FALSE
