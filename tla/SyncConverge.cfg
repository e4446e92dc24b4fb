SPECIFICATION FairSpec
CONSTANTS
  ix = ix  a = a  b = b
  Indices = {ix}
  Watch = {a, b}
  Calendar <- MCCalendar
  Order <- MCOrder
  MaxDay = 4
  TradingDays <- MCTradingWeek
  Holes <- MCNoHoles
  Cap = 12
  FundCost = 1
  WatchCap = 2
  FundsServed = FALSE
  ForceFunds = FALSE
  MaxMidnights = 0
  MaxFaults = 1
  MaxCrashes = 0
  MaxLosses = 0
  MaxEdits = 2
INVARIANTS GapsBehindCursor
PROPERTIES IndicesIngestedDaily Converges
