---- MODULE MCDataRoot ----
(* Two terminals; a Hong Kong, a US and a secondary listing and an index;   *)
(* the old store has a secondary listing an older build had verified, and a *)
(* Hong Kong listing whose exchange it spelled HKEX.                        *)
EXTENDS DataRoot, TLC

CONSTANTS p1, p2
MCProcs == {p1, p2}
MCSymmetry == Permutations(MCProcs)
MCListings == {"0700.HK", "AAPL.US", "BABA.MX", "HSI.INDX"}
MCVenue == [s \in MCListings |-> CASE s = "0700.HK" -> "HK" [] s = "AAPL.US" -> "US"
                                   [] s = "BABA.MX" -> "other" [] OTHER -> "INDX"]
MCAnswers == {{"0700.HK", "BABA.MX"}, {"AAPL.US"}}
Was(exchange, verified) == [verified |-> verified, index |-> exchange = "INDX", exchange |-> exchange, name |-> "official"]
MCOldRows == [s \in MCListings |-> CASE s = "0700.HK" -> Was("HKEX", TRUE) [] s = "AAPL.US" -> Was("US", TRUE)
                                     [] s = "BABA.MX" -> Was("other", TRUE) [] OTHER -> Was("INDX", TRUE)]
MCOldWatch == [s \in MCListings |-> CASE s = "BABA.MX" -> "active" [] s = "HSI.INDX" -> "absent" [] OTHER -> "removed"]
====
