CONSTANTS
  Specs = {"A", "B"}
  Refused = {}
  UniqueNames = TRUE
  MaxLag = 1
  MaxEdits = 2
  MaxFaults = 0
  MaxLate = 1
SPECIFICATION Spec
PROPERTIES StatusMovesOn
CHECK_DEADLOCK FALSE
