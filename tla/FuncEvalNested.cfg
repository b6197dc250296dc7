SPECIFICATION FairSpec
CONSTANTS
  Callers = {main}
  Workers = {w1, w2}
  NoTask = none
  Last = 1
  Nested = {0, 1}
  Limits = {2}
PROPERTY LoopReturns
CHECK_DEADLOCK FALSE
