SPECIFICATION FairSpec
CONSTANTS
  Symbols = {"S"}
  Macros = {"M"}
  Topical = "topical"
  Items <- MCItems
  Whitelist = {}
  Domain <- MCDomain
  Similar <- MCSimilar
  Models = {"m1", "m2"}
  Retention = 1
  RssLookback = 1
  DupWindow = 1
  BodyMaxAge = 1
  MaxAttempts = 2
  PerRun = 2
  PerDomain = 2
  PauseAfter = 1
  Limit = 2
  BatchSize = 1
  MaxDay = 3
  MaxId = 3
INVARIANTS VectorsTrue
PROPERTIES EmbedReports EmbedEnds
