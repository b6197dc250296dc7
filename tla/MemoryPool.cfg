SPECIFICATION FairSpec
CONSTANTS
  Users = {u1, u2, u3}
  Owner = owner
  NoThread = none
  MaxLen = 2
INVARIANTS TypeOK Exclusive CountExact NoUseAfterFree PoolBounded
PROPERTY FreeEnds
