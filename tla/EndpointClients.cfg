CONSTANTS
  Models <- MCModels
  Keys <- MCKeys
  Specs <- TwoSpecs
  Outages = {"denied"}
  MaxLag = 1
  MaxEdits = 2
  MaxFaults = 0
SPECIFICATION Spec
INVARIANT ClientsFollowSpec
CHECK_DEADLOCK FALSE
