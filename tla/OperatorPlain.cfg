CONSTANTS
  Pods = {p1, p2}
  Requests = {r1}
  MaxRollouts = 2
  MaxFaults = 2
  Specs <- SomeSpecs
  MaxEdits = 3
  EnableWebhooks = FALSE
SPECIFICATION FairSpec
INVARIANTS TypeOK OneAtWork
PROPERTIES NewestServes CaredForUnlessRefused
CHECK_DEADLOCK FALSE
