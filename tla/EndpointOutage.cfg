CONSTANTS
  Models <- MCModels
  Keys <- MCKeys
  Specs <- OneSpec
  Outages = {"denied"}
  MaxLag = 1
  MaxEdits = 1
  MaxFaults = 0
SPECIFICATION FairSpec
PROPERTY OutageReported
CHECK_DEADLOCK FALSE
