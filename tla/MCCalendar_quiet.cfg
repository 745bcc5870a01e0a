SPECIFICATION CalendarSpec
CONSTANTS
  r1 = r1
  r2 = r2
  r3 = r3
  i1 = i1
  i2 = i2
  Request = {r1, r2, r3}
  Inn = {i1, i2}
  FirstYear = 1
  LastYear = 3
  MaxBackfill = 1
  QuietRollover = TRUE
  None = None
  Health = {"health"}
  Collector = "collector"
  LastDate = 1
INVARIANT AllocatedIdIsFresh
PROPERTY ImplementsRegister
PROPERTY OnlyStaleOkDeescalates
PROPERTY HealthIsAnswered
PROPERTY FaultIsRecorded
CHECK_DEADLOCK FALSE
