SPECIFICATION Spec
CONSTANTS
  e1 = e1  e2 = e2
  r1 = r1  r2 = r2  r3 = r3
  j1 = j1  j2 = j2
  Executors = {e1, e2}
  None = None
  LostDeadline = 1
  ProgressDeadline = 1
  SelfAdoptPush = 5
  MaxRetries = 1
  Exponent = 2
  BackoffAt <- OneRetry
  Occurrences = 1
  Endless = {FALSE}
  Period = 1
  Jobs = {j1, j2}
  Runs = {r1, r2}
  Skew <- SkewByTwo
  Targets = {2}
  Results = {0}
  PushbackDelay = 1
  ResetBatch = 1
  Latency = 1
  MaxTime = 2
  MaxFaults = 1
SYMMETRY RunAndJobSymmetry
PROPERTY NoEarlySteal
CHECK_DEADLOCK FALSE
INVARIANTS TypeOK RetryLedger OwnedIsReachable
