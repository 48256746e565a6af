SPECIFICATION Spec
CONSTANTS
  Objects <- AllObjects
  KindOf <- KindByName
  NamespaceOf <- NamespaceByName
  Refs <- Patterns
  Matched <- MatchedByName
  Malformed = {"("}
  IncludedLists <- KindAlone
  MaxChanges = 0
INVARIANTS NoOtherKind
CHECK_DEADLOCK FALSE
