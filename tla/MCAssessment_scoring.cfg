SPECIFICATION AssessmentSpec
CONSTANTS
  FlagCounts <- TriedFlags
  SourceCounts <- TriedSources
  CoreCounts <- TriedCore
  Unknown = Unknown
  Junk = Junk
  YearLength = 2
  Offered <- OfferedTried
  Pages <- PagesTried
  Cards <- CardsTried
  Loans <- LoansTried
  FirstDay = 850
  LastDay = 1150
  DayStep = 150
  MaxItems <- MostTried
  Folders <- FoldersTried
  MaxFiles = 3
  Typed <- TypedValues
INVARIANT NeverApprovedBlind
INVARIANT RecommendationFitsScore
INVARIANT RejectStands
PROPERTY MoreFlagsNeverMilder
PROPERTY MoreDataNeverLowersCoverage
INVARIANT ReplayAgrees
INVARIANT ScreenAgreesWithFlags
INVARIANT ReportBearsOutFlags
PROPERTY TimeOnlyClearsFlags
PROPERTY EvidenceIsNotBuried
PROPERTY AskingMoreNeverHelps
INVARIANT MarkedFieldsAreTrue
INVARIANT OwnReportIsShown
PROPERTY ReadinessNeverFalls
CHECK_DEADLOCK FALSE
