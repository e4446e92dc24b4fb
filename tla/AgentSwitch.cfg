SPECIFICATION FairSpec
CONSTANTS
  s1 = s1  s2 = s2
  Sessions = {s1, s2}
  Limit = 1
  HistoryWindow = 3
  TokenAge = 1
  EpistemicLimit = 1
  MaxViolations = 2
  MaxTurns = 2
  MaxInterrupts = 1
  MaxLate = 1
  MaxKills = 0
  MaxTypos = 1
  MaxGarbled = 0
CHECK_DEADLOCK FALSE
INVARIANTS ConsentIsFresh BoundNotClosedIfNamed
PROPERTIES TurnEnds
