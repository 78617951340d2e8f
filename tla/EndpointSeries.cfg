CONSTANTS
  Models <- MCModels
  Keys <- MCKeys
  Specs <- TwoSpecs
  Outages = {"denied"}
  MaxLag = 1
  MaxEdits = 3
  MaxFaults = 0
SPECIFICATION Spec
INVARIANT NoSeriesOutlivesEndpoint
CHECK_DEADLOCK FALSE
