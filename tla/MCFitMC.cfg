SPECIFICATION MCFairSpec
CONSTANTS
  Workers = {w1, w2, w3}
  DyingWorkers = {w1, w2}
  None = none
  Threads = {1, 2}
  Orders = {TRUE, FALSE}
  NData = 2
  MaxN = 4
  MaxDying = 3
  MaxRng = 2
INVARIANTS TypeOK MCInOrder IndexAccount MCComplete ResumesInOrder SavedContinues
  NoDrawUsedTwice
PROPERTIES MCIsSerial RunEnds
