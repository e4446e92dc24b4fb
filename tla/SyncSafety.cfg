SPECIFICATION Spec
CONSTANTS
  ix = ix  a = a  b = b
  Indices = {ix}
  Watch = {a}
  Calendar <- MCCalendar
  Order <- MCOrder
  MaxDay = 4
  TradingDays <- MCTradingWeek
  Holes <- MCFirstDayHole
  Cap = 5
  FundCost = 3
  WatchCap = 1
  FundsServed = TRUE
  ForceFunds = FALSE
  MaxMidnights = 1
  MaxFaults = 1
  MaxCrashes = 1
  MaxLosses = 1
  MaxEdits = 1
INVARIANTS
  TypeOK CursorBacked FilledGapHasBars NoDataTakesThreeDays GapShareHonoured
PROPERTIES ImplementsBudget
