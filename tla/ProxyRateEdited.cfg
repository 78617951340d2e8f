CONSTANTS
  Requests = {r1, r2}
  Limits = {10, 20}
  Caps = {0}
  Asks = {0}
  Variables <- NoVariables
  Pricing <- SomePricing
  Models <- OneModel
  Uses <- OneUse
  TickSeconds = 3
  MaxTicks = 0
  MaxEdits = 1
SYMMETRY Symmetry
SPECIFICATION Spec
INVARIANT RateFromSpec
CHECK_DEADLOCK FALSE
