---- MODULE MCStartup ----
(* Two terminals, the Hong Kong calendar index and one listing; day 1 is a *)
(* weekend, day 2 a holiday, day 3 a session again.                        *)
EXTENDS Startup, TLC

CONSTANTS p1, p2
MCProcs == {p1, p2}
MCSymmetry == Permutations(MCProcs)
MCExchange == [s \in {"HSI", "0700"} |-> "HK"]
MCSessions == [x \in {"HK", "US"} |-> IF x = "HK" THEN {0, 3} ELSE {0, 2, 3}]
====
