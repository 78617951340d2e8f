CONSTANTS
  Specs = {"A", "B"}
  Refused = {}
  UniqueNames = FALSE
  OutsideDeletes = FALSE
  MaxLag = 1
  MaxEdits = 1
  MaxFaults = 0
SPECIFICATION Spec
PROPERTY CreateOnlyWithoutId
CHECK_DEADLOCK FALSE
