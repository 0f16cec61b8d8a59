SPECIFICATION Spec
CONSTANTS
  Divisions = 2
  Division = 2
  MaxTime = 16
CHECK_DEADLOCK FALSE
INVARIANTS TypeOK CountedOnce WindowIsComplete
