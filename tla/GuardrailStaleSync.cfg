CONSTANTS
  Specs = {"A", "B"}
  Refused = {}
  UniqueNames = FALSE
  OutsideDeletes = FALSE
  MaxLag = 1
  MaxEdits = 2
  MaxFaults = 2
SPECIFICATION Spec
INVARIANT SyncedIsCurrent
CHECK_DEADLOCK FALSE
