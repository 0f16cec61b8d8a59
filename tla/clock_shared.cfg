SPECIFICATION FairSpec
CONSTANTS
  a1 = a1  a2 = a2
  i1 = i1
  Calls = {a1, a2}
  Intervals = {i1}
  Delays = {0, 2}
  Periods = {1, 3}
  Strides = {1, 3}
  Jumps = {0}
  MaxTime = 5
  MaxSeq = 2
INVARIANTS TypeOK NoneOverdue IntervalsTick
PROPERTY AdvanceReturns
