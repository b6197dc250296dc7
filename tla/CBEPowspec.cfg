SPECIFICATION Spec
CONSTANTS
  Cosmo = {c1, c2}
  Prim = {p1, p2}
  Reion = {r1}
  Value = {v1, v2}
  None = None
  Depth = {z1, z2}
  MaxChanges = 3
SYMMETRY MCSymmetry
INVARIANT PowspecFresh
CHECK_DEADLOCK FALSE
