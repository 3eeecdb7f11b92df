SPECIFICATION Spec
CONSTANTS
  MaxPushes = 1
  MaxStops = 0
  Faults = {}
  Disabled = TRUE
INVARIANT DisabledSendsNothing
