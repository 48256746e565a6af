SPECIFICATION Spec
CONSTANTS
  Objects <- AllObjects
  KindOf <- KindByName
  NamespaceOf <- NamespaceByName
  Refs <- Patterns
  Matched <- MatchedByName
  Malformed = {"("}
  IncludedLists <- IncludeOnly
  MaxChanges = 0
INVARIANTS IncludeRefIncludes
CHECK_DEADLOCK FALSE
