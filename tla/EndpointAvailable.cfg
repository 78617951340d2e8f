CONSTANTS
  Models <- MCModels
  Keys <- MCKeys
  Specs <- OneSpec
  Outages = {"denied", "throttled"}
  MaxLag = 1
  MaxEdits = 3
  MaxFaults = 1
SPECIFICATION Spec
INVARIANT AvailableMatchesCondition
CHECK_DEADLOCK FALSE
