SPECIFICATION AccountsSpec
CONSTANTS
  r1 = r1
  r2 = r2
  r3 = r3
  r4 = r4
  p1 = p1
  Request = {r1, r2, r3, r4}
  Kind <- SecondFactorOnly
  Password = {p1}
  NCodes = 2
  Overlap = FALSE
  Old = Old
  None = None
  Login = {"login1", "login2"}
  Email <- Addresses
  BreakGlass <- OnTheList
  NoAccount = NoAccount
SYMMETRY RequestSymmetry
INVARIANT EnrollmentIsWhole
INVARIANT CodeSpentOnce
PROPERTY ImplementsLifecycle
INVARIANT BreakGlassStaysLocal
PROPERTY LoginBringsRowUpToDate
CHECK_DEADLOCK FALSE
