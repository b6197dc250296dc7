SPECIFICATION MCSpec
CONSTANTS
  Files = {f1, f2}
  None = none
  SplitFile = f1
  NChains = 2
  MaxKept = 4
  MaxDraw = 5
  MaxLength = 5
INVARIANT ChainsFollowIds
CHECK_DEADLOCK FALSE
