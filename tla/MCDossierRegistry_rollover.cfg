SPECIFICATION RolloverSpec
CONSTANTS
  r1 = r1
  r2 = r2
  r3 = r3
  i1 = i1
  i2 = i2
  Request = {r1, r2, r3}
  Inn = {i1, i2}
  FirstYear = 1
  LastYear = 3
  MaxBackfill = 2
  QuietRollover = FALSE
  None = None
INVARIANT OnlyStragglersCollide
INVARIANT NewestCaseShowsItsBorrower
PROPERTY EveryRequestEnds
CHECK_DEADLOCK FALSE
