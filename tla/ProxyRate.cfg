CONSTANTS
  Requests = {r1, r2, r3}
  Limits = {0, 5, 20}
  Caps = {0}
  Asks = {0}
  Variables <- MixedVariables
  Pricing <- SomePricing
  Models <- SomeModels
  Uses <- OneUse
  TickSeconds = 6
  MaxTicks = 2
  MaxEdits = 2
SYMMETRY Symmetry
SPECIFICATION Spec
INVARIANTS TypeOK WithinRate InvokesCounted SpendTracked
PROPERTY RejectsOnlyExcess
CHECK_DEADLOCK FALSE
