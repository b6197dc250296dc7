SPECIFICATION MCSpec
CONSTANTS
  Half = 2
  Threads = {1}
  PoolSize = 2
  Position <- MCPosition
  Own = {15}
  Blank <- MCBlank
  None = None
  Blocks <- MCBlocks
  Partner <- MCPartner
  Accepts <- MCAccepts
  Move <- MCMove
  Prior <- MCPrior
  DrawnFrom <- MCDrawnFrom
  MaxShort = 2
  MaxLong = 3
  MaxEnsembles = 3
  MaxOwn = 0
  MaxRng = 1
INVARIANT ContinuesWhereItStopped
CHECK_DEADLOCK FALSE
