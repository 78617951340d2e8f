CONSTANTS
  Specs = {"good", "bad"}
  Broken = {"bad"}
  MaxLag = 1
  MaxEdits = 3
  MaxFaults = 1
SPECIFICATION FairSpec
INVARIANT TypeOK
PROPERTIES IsFinalizedObject StatusMovesOn EventuallyTrue DeletionCompletes
CHECK_DEADLOCK FALSE
