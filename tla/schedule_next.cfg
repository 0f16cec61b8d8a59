SPECIFICATION Spec
CONSTANTS
  Schedules <- RegularSchedules
  Delays = {0, 1, 33, 70}
  MaxSteps = 40
  LastDay <- March2025
CHECK_DEADLOCK FALSE
INVARIANT TypeOK
PROPERTY NextIsFirst
