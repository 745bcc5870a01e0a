SPECIFICATION Spec
CONSTANTS
  r1 = r1
  r2 = r2
  r3 = r3
  p1 = p1
  p2 = p2
  Request = {r1, r2, r3}
  Kind <- EveryEndpoint
  Password = {p1, p2}
  NCodes = 2
  Overlap = TRUE
  Old = Old
  None = None
SYMMETRY RequestSymmetry
INVARIANT FailedLoginIsAudited
CHECK_DEADLOCK FALSE
