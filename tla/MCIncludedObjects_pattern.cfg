SPECIFICATION Spec
CONSTANTS
  Objects <- AllObjects
  KindOf <- KindByName
  NamespaceOf <- NamespaceByName
  Refs <- Patterns
  Matched <- MatchedByName
  Malformed = {"("}
  IncludedLists <- SamePattern
  MaxChanges = 0
INVARIANTS NeverPanics
CHECK_DEADLOCK FALSE
