SPECIFICATION Spec
CONSTANTS
  me = me  other = other
  r1 = r1  r2 = r2
  Executors = {me, other}
  None = None
  LostDeadline = 3
  ProgressDeadline = 1
  SelfAdoptPush = 5
  MaxRetries = 1
  Exponent = 2
  BackoffAt <- OneRetry
  Occurrences = 0
  Endless = {FALSE}
  Period = 4
  Mails = {FALSE}
  Runs = {r1}
  Me = me
  MaxCalls = 1
  MaxPushbacks = 1
  MaxFaults = 0
CHECK_DEADLOCK FALSE
INVARIANT NothingUnhandled
