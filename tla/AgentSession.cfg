SPECIFICATION Spec
CONSTANTS
  s1 = s1  s2 = s2
  Sessions = {s1}
  Limit = 2
  HistoryWindow = 3
  TokenAge = 0
  EpistemicLimit = 1
  MaxViolations = 2
  MaxTurns = 3
  MaxInterrupts = 1
  MaxLate = 1
  MaxKills = 1
  MaxTypos = 0
  MaxGarbled = 1
CHECK_DEADLOCK FALSE
INVARIANTS
  TypeOK QuestionsAnswered AnswersStand SnapshotFresh EvidenceOnDisk
  AbortedIsSilent BudgetAborts WritesOnRecord
PROPERTIES AbortIsTerminal
