SPECIFICATION Spec
CONSTANTS
  FlagCounts <- TriedFlags
  SourceCounts <- TriedSources
  CoreCounts <- TriedCore
INVARIANT InsufficientDataIsReviewed
CHECK_DEADLOCK FALSE
