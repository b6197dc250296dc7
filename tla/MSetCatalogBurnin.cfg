SPECIFICATION BurninSpec
CONSTANTS
  Files = {f1}
  None = none
  NChains = 1
  MaxDraw = 3
  MaxLength = 3
INVARIANT RowsAgree
CHECK_DEADLOCK FALSE
