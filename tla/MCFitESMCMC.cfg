SPECIFICATION MCSpec
CONSTANTS
  Half = 2
  Threads = {1, 2}
  PoolSize = 2
  Position <- MCPosition
  Own <- MCOwn
  Blank <- MCBlank
  None = None
  Blocks <- MCBlocks
  Partner <- MCPartner
  Accepts <- MCAccepts
  Move <- MCMove
  Prior <- MCPrior
  DrawnFrom <- MCDrawnFrom
  MaxShort = 2
  MaxLong = 3
  MaxEnsembles = 3
  MaxOwn = 5
  MaxRng = 1
INVARIANTS TypeOK ThetaInCatalog AcceptCount RowsValid GeneratorAhead
PROPERTIES IsEnsembleRun RunEnds
CHECK_DEADLOCK FALSE
