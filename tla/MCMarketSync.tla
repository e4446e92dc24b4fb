---- MODULE MCMarketSync ----
(* MarketSync with one benchmark index, up to two symbols and small calendars. *)
EXTENDS MarketSync
CONSTANTS ix, a, b
MCCalendar == [s \in Symbols |-> ix]
MCOrder == [s \in Symbols |-> IF s = b THEN 1 ELSE 0]
MCTradingDays == Days \ {4}
MCTradingWeek == Days \ {3}
MCHoles == {<<a, 2>>}
MCFirstDayHole == {<<a, 1>>}
MCNoHoles == {}
====
