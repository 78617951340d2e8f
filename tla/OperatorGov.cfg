CONSTANTS
  Pods = {p1, p2}
  Requests = {r1}
  MaxRollouts = 0
  MaxFaults = 0
  Specs <- SomeSpecs
  MaxEdits = 0
  EnableWebhooks = TRUE
SPECIFICATION Spec
INVARIANT AcceptedIsStorable
CHECK_DEADLOCK FALSE
