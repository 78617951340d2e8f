CONSTANTS
  Specs = {"good", "bad"}
  Broken = {"bad"}
  MaxLag = 1
  MaxEdits = 3
  MaxFaults = 0
SPECIFICATION Spec
INVARIANT ReadyMeansValid
CHECK_DEADLOCK FALSE
