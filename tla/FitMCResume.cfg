SPECIFICATION CrashSpec
CONSTANTS
  Workers = {w1, w2}
  None = none
  Threads = {2}
  Orders = {TRUE}
  NData = 2
  MaxN = 3
  MaxRng = 0
INVARIANT InOrder
