CONSTANTS
  Specs = {"A"}
  Refused = {}
  UniqueNames = TRUE
  MaxLag = 1
  MaxEdits = 3
  MaxFaults = 0
  MaxLate = 1
SPECIFICATION Spec
INVARIANTS RecordedIsOwn
CHECK_DEADLOCK FALSE
