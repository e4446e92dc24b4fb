CONSTANTS
  p1 = p1  p2 = p2
  Procs <- MCProcs
  Listings <- MCListings
  Answers <- MCAnswers
  Venue <- MCVenue
  IndexTyped = {"HSI.INDX"}
  Seeds = {"HSI.INDX"}
  OldVersion = 5
  OldRows <- MCOldRows
  OldWatch <- MCOldWatch
  ActiveCap = 1
  Cap = 2
  FundCost = 2
  MaxDay = 2
  MaxItems = 2
  MaxCommands = 3
  MaxKills = 1
SYMMETRY MCSymmetry
SPECIFICATION Spec
INVARIANTS TypeOK StampedComplete LimitsNearlyHeld WatchInScope
CHECK_DEADLOCK FALSE
