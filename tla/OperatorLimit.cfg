CONSTANTS
  Pods = {p1, p2}
  Requests = {r1}
  MaxRollouts = 0
  MaxFaults = 0
  Specs <- SomeSpecs
  MaxEdits = 3
  EnableWebhooks = TRUE
SPECIFICATION Spec
PROPERTY LimitAlways
CHECK_DEADLOCK FALSE
