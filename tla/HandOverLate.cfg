CONSTANTS
  Specs = {"A"}
  Refused = {}
  UniqueNames = TRUE
  MaxLag = 1
  MaxEdits = 3
  MaxFaults = 0
  MaxLate = 1
SPECIFICATION Spec
INVARIANTS TypeOK DeleteBeforeRelease
PROPERTY LiveGuardrailKept
CHECK_DEADLOCK FALSE
