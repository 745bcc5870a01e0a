SPECIFICATION UptimeSpec
CONSTANTS
  Health = {"health"}
  Collector = "collector"
  LastDate = 0
PROPERTY StatusOnlyEscalates
