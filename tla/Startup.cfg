CONSTANTS
  p1 = p1  p2 = p2
  Procs <- MCProcs
  Indices = {"HSI"}
  Watchlist = {"0700"}
  Exchange <- MCExchange
  Sessions <- MCSessions
  MaxDay = 3
  MaxStarts = 3
  Weekend = {1}
SYMMETRY MCSymmetry
SPECIFICATION Spec
INVARIANTS TypeOK Settles QuietHonest
CHECK_DEADLOCK FALSE
