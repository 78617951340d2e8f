CONSTANTS
  Models <- MCModels
  Keys <- MCKeys
  Specs <- TwoSpecs
  Outages = {"denied"}
  MaxLag = 1
  MaxEdits = 3
  MaxFaults = 1
SPECIFICATION FairSpec
INVARIANTS TypeOK NothingLeftBehind
PROPERTIES IsFinalizedObject StatusMovesOn HealthReported ServiceRestored DeletionCompletes
CHECK_DEADLOCK FALSE
