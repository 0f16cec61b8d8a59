SPECIFICATION Spec
CONSTANTS
  Schedules <- FirstMonday
  Delays = {0}
  MaxSteps = 1000
  LastDay <- March2025
CHECK_DEADLOCK FALSE
INVARIANT ForeverNeverEnds
