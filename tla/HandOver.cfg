CONSTANTS
  Specs = {"A"}
  Refused = {}
  UniqueNames = TRUE
  MaxLag = 1
  MaxEdits = 3
  MaxFaults = 0
  MaxLate = 0
SPECIFICATION FairSpec
INVARIANTS TypeOK DeleteBeforeRelease
PROPERTIES LiveGuardrailKept EventuallyInSync DeletionCompletes
CHECK_DEADLOCK FALSE
