CONSTANTS
  Pods = {p1, p2}
  Requests = {r1}
  MaxRollouts = 1
  MaxFaults = 0
  Specs <- SomeSpecs
  MaxEdits = 0
  EnableWebhooks = TRUE
SPECIFICATION Spec
PROPERTY CleanShutdown
CHECK_DEADLOCK FALSE
