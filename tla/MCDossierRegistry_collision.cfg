SPECIFICATION Spec
CONSTANTS
  r1 = r1
  r2 = r2
  i1 = i1
  i2 = i2
  Request = {r1, r2}
  Inn = {i1, i2}
  FirstYear = 1
  LastYear = 2
  MaxBackfill = 2
  QuietRollover = FALSE
  None = None
SYMMETRY RequestSymmetry
INVARIANT AllocatedIdIsFresh
CHECK_DEADLOCK FALSE
