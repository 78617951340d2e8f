CONSTANTS
  Specs = {"A", "B"}
  Refused = {"B"}
  UniqueNames = FALSE
  OutsideDeletes = FALSE
  MaxLag = 1
  MaxEdits = 3
  MaxFaults = 1
SPECIFICATION FairSpec
INVARIANTS TypeOK DeleteBeforeRelease RecordedIsOwn
PROPERTIES StatusMovesOn EventuallyInSync DeletionCompletes
CHECK_DEADLOCK FALSE
