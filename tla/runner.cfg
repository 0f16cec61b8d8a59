SPECIFICATION FairSpec
CONSTANTS
  me = me  other = other
  r1 = r1  r2 = r2
  Executors = {me, other}
  None = None
  LostDeadline = 3
  ProgressDeadline = 1
  SelfAdoptPush = 5
  MaxRetries = 1
  Exponent = 2
  BackoffAt <- OneRetry
  Occurrences = 0
  Endless = {TRUE, FALSE}
  Period = 4
  Mails = {TRUE, FALSE}
  Runs = {r1}
  Me = me
  MaxCalls = 2
  MaxPushbacks = 2
  MaxFaults = 1
CHECK_DEADLOCK FALSE
INVARIANTS TypeOK RacingIsTimed 
PROPERTIES LateWritesOnlyRenew RunEnds TimersDie
