SPECIFICATION AllSpec
CONSTANTS
  Files = {f1, f2}
  None = none
  SplitFile = f1
  NChains = 2
  MaxKept = 4
  MaxDraw = 5
  MaxLength = 5
INVARIANTS TypeOK IdsMatch MCRowsAgree SyncCannotFail MCUninterrupted
  ChainsHoldRows MCNoRowTwice MCEnsemblesHoldRows
PROPERTY OpenJoins
CHECK_DEADLOCK FALSE
