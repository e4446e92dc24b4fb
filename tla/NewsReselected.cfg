SPECIFICATION Spec
CONSTANTS
  Symbols = {"S"}
  Macros = {}
  Topical = "topical"
  Items <- OneItem
  Whitelist = {"d"}
  Domain <- OneDomain
  Similar <- MCSimilar
  Models = {}
  Retention = 1
  RssLookback = 1
  DupWindow = 1
  BodyMaxAge = 1
  MaxAttempts = 2
  PerRun = 2
  PerDomain = 2
  PauseAfter = 1
  Limit = 2
  BatchSize = 1
  MaxDay = 3
  MaxId = 3
INVARIANTS NeverReselected
