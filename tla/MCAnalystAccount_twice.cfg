SPECIFICATION Spec
CONSTANTS
  r1 = r1
  r2 = r2
  r3 = r3
  p1 = p1
  Request = {r1, r2, r3}
  Kind <- SecondFactorOnly
  Password = {p1}
  NCodes = 2
  Overlap = TRUE
  Old = Old
  None = None
SYMMETRY RequestSymmetry
INVARIANT BackupCodeOnce
CHECK_DEADLOCK FALSE
