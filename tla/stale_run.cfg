SPECIFICATION Spec
CONSTANTS
  e1 = e1  e2 = e2
  r1 = r1  r2 = r2  r3 = r3
  j1 = j1  j2 = j2
  Executors = {e1, e2}
  None = None
  LostDeadline = 3
  ProgressDeadline = 1
  SelfAdoptPush = 5
  MaxRetries = 1
  Exponent = 2
  BackoffAt <- OneRetry
  Occurrences = 0
  Endless = {FALSE}
  Period = 3
  Jobs = {j1}
  Runs = {r1, r2}
  Skew <- NoSkew
  Targets = {1}
  Results = {0}
  PushbackDelay = 2
  ResetBatch = 1
  Latency = 1
  MaxTime = 7
  MaxFaults = 1
SYMMETRY RunSymmetry
CHECK_DEADLOCK FALSE
PROPERTY StaleRunLeavesJobAlone
