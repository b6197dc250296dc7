SPECIFICATION FairSpec
CONSTANTS
  Callers = {main}
  Workers = {w1, w2}
  NoTask = none
  Last = 2
  Nested = {1}
  Limits <- MCLimits
INVARIANTS TypeOK ActiveExact CtrlAlive
PROPERTIES KeepsPromise SparedLoopReturns
CHECK_DEADLOCK FALSE
