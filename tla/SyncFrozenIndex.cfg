SPECIFICATION Spec
CONSTANTS
  ix = ix  a = a  b = b
  Indices = {ix}
  Watch = {a}
  Calendar <- MCCalendar
  Order <- MCOrder
  MaxDay = 4
  TradingDays <- MCTradingWeek
  Holes <- MCHoles
  Cap = 4
  FundCost = 2
  WatchCap = 1
  FundsServed = FALSE
  ForceFunds = FALSE
  MaxMidnights = 0
  MaxFaults = 0
  MaxCrashes = 1
  MaxLosses = 0
  MaxEdits = 1
PROPERTIES IndicesIngestedDaily
