CONSTANTS
  Requests = {r1, r2}
  Limits = {20}
  Caps = {0}
  Asks = {0}
  Variables <- MixedVariables
  Pricing <- SomePricing
  Models <- OneModel
  Uses <- OneUse
  TickSeconds = 3
  MaxTicks = 0
  MaxEdits = 0
SYMMETRY Symmetry
SPECIFICATION Spec
INVARIANT DefaultsUsed
CHECK_DEADLOCK FALSE
