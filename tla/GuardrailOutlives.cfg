CONSTANTS
  Specs = {"A", "B"}
  Refused = {}
  UniqueNames = TRUE
  OutsideDeletes = FALSE
  MaxLag = 1
  MaxEdits = 2
  MaxFaults = 1
SPECIFICATION Spec
INVARIANT NoGuardrailOutlivesPolicy
CHECK_DEADLOCK FALSE
