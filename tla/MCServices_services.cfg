SPECIFICATION ServicesSpec
CONSTANTS
  c1 = c1
  c2 = c2
  c3 = c3
  t0 = t0
  Request = {c1, c2, c3}
  Kind <- EveryEndpoint
  NCodes = 2
  Overlap = TRUE
  Call = {c1, c2, c3}
  Reader = {c1, c2, c3}
  Upload = {c1, c2, c3}
  First = {t0}
  Life = 2
  LastTick = 5
  RedisMayFail = TRUE
  None = None
  Absent = Absent
  LastDay = 2
  MaxRates = 2
  NoQuote = NoQuote
  Draft = {"draft"}
  Put = {"put1", "put2"}
  Payload = {"form1", "form2"}
  NoRow = NoRow
  Ttl_Days = 2
  LastTime = 4
  Borrower = {"borrower"}
  LastInstant = 2
  Cell = {"draft", "name"}
  Text = {"text1", "text2"}
  Worker = {"worker1", "worker2"}
  Later = 5
  Password = {"password1", "password2"}
  Old = Old
  Down = 6
SYMMETRY CallSymmetry
INVARIANT EnrollmentIsAudited
PROPERTY OnlyPasswordCallsChangeThePassword
PROPERTY OnlyVerifyTurnsOn
PROPERTY TurningOffIsAudited
INVARIANT DeniedOncePerLife
INVARIANT LoggedOutTokenIsDead
INVARIANT StoredAnswersAgree
INVARIANT AnswerIsNotOlder
PROPERTY StoredRateIsFinal
INVARIANT ShownOnlyAsPromised
PROPERTY PutIsKeptUnlessOvertaken
PROPERTY LatestNeverGoesBack
INVARIANT RowsStayReadable
CHECK_DEADLOCK FALSE
