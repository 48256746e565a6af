SPECIFICATION Spec
CONSTANTS
  Objects <- AllObjects
  KindOf <- KindByName
  NamespaceOf <- NamespaceByName
  Refs <- Patterns
  Matched <- MatchedByName
  Malformed = {"("}
  IncludedLists <- SomeLists
  MaxChanges = 1
INVARIANTS TypeOK FindsWhatIsMeant NothingForeign LastEntryCounts HandledIsAsleep
CHECK_DEADLOCK FALSE
