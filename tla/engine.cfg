SPECIFICATION Spec
CONSTANTS
  s1 = s1  s2 = s2
  j1 = j1  j2 = j2
  mail = mail  report = report
  jobs1 = jobs1  jobs2 = jobs2
  Servers = {s1, s2}
  Members = {s2}
  None = None
  Jobs = {j1, j2}
  AllSorted <- NineTypes
  TypeOf <- SomeTypes
  Tables <- TwoTables
  TableOf <- TheirTables
  Runners <- SomeRunners
  BatchSize = 2
  Loads = {0}
  MaxRetries = 1
  Repeating = {j1}
  Cycles = 2
  ResetLimit = 1
  ResetCycles = 2
  MaxEvents = 1
CHECK_DEADLOCK FALSE
INVARIANTS TypeOK OwnedIsServed
PROPERTIES RoutedRight ResetIsComplete
