CONSTANTS
  Specs = {"A", "B"}
  Refused = {"B"}
  UniqueNames = TRUE
  OutsideDeletes = TRUE
  MaxLag = 1
  MaxEdits = 3
  MaxFaults = 2
SPECIFICATION FairSpec
INVARIANTS TypeOK DeleteBeforeRelease RecordedIsOwn
PROPERTIES IsFinalizedObject StatusMovesOn LiveGuardrailKept EventuallyInSync DeletionCompletes
CHECK_DEADLOCK FALSE
