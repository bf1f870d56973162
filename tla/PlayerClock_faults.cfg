CONSTANTS
  Targets = {0, 1, 4}
  MaxNow = 4
  Faults = TRUE
SPECIFICATION Spec
INVARIANTS
  NeverSilent
PROPERTIES
  IsStopwatch
CHECK_DEADLOCK FALSE
