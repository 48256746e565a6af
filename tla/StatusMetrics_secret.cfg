SPECIFICATION Spec
CONSTANTS
  Texts = {"t1", "t2"}
  MaxEdits = 1
  MaxFaults = 0
INVARIANTS MissingSecretIsNoticed
CHECK_DEADLOCK FALSE
