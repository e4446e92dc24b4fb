---- MODULE MCPostCheck ----
(* PostCheck with seven results about three companies and an index, and      *)
(* answers of no, one or two sentences from a set of phrases.                *)
EXTENDS PostCheck

T == "0700.HK"
B == "1211.HK"
X == "1698.HK"
HSI == "HSI.INDX"

\* Evidence.  Days 1 and 2 are of year 1, day 3 of year 2.
MCYearOf == [d \in 1 .. 3 |-> IF d < 3 THEN 1 ELSE 2]
Leaf(f, v, cur) == [declared |-> f, guess |-> "unknown", v |-> v, unit |-> None, currency |-> cur,
                    sessions |-> 0, counted |-> FALSE]
Change(v, n) == [Leaf("price_change", v, None) EXCEPT !.sessions = n]
Length(f, n) == [Leaf(None, n * 10000, None) EXCEPT !.guess = f, !.counted = TRUE]
Row(tool, symbol, word, leaves) ==
  [tool |-> tool, symbol |-> symbol, word |-> word, leaves |-> leaves, times |-> {},
   windows |-> {}, digits |-> {}, texts |-> {}, missing |-> {},
   codes |-> IF symbol = T THEN {"0700"} ELSE {}]
At(day, min) == [level |-> IF min = 0 THEN 3 ELSE 4, day |-> day, minute |-> min, second |-> 0]

QuoteT == [Row("market.quote", T, "Tencent", {Leaf("close", 756000, "HKD"), Leaf("open", 749000, "HKD")})
             EXCEPT !.times = {At(2, 0)}]
QuoteB == [Row("market.quote", B, "BYD", {Leaf("close", 802500, "HKD"), Leaf("unknown", 488, None)})
             EXCEPT !.times = {At(3, 600)}, !.missing = {"revenue"}]
ChangesT == [Row("market.performance", T, "Tencent", {Change(-48800, 20), Change(-106000, 60), Leaf("net_margin", 1250, None),
                                                     Leaf("sessions", 200000, None), Leaf("sessions", 600000, None)})
               EXCEPT !.windows = {<<1, 2>>}, !.times = {At(1, 0), At(2, 0)}]
ChangeIx == Row("market.performance", HSI, None, {Change(-31900, 20), Leaf("sessions", 200000, None)})
Other == Row("symbol.search", X, "Tencent", {})
OtherData == Row("market.quote", X, "Tencent", {Leaf("close", 125000, "USD")})
News == [Row("news.search", B, "BYD", {Length("news_count", 3)})
           EXCEPT !.digits = {50000}, !.texts = {"headline"}, !.codes = {"0700"}]
MCResults == {QuoteT, QuoteB, ChangesT, ChangeIx, Other, OtherData, News}

\* Tokens.
Tok(kind) == [t |-> kind, glued |-> FALSE]
Word(role) == [t |-> "word", k |-> role, glued |-> FALSE]
Name(w) == [t |-> "name", w |-> w, f |-> None, glued |-> FALSE]
Cue(f) == [t |-> "cue", f |-> f, glued |-> FALSE]
Num(v, d) == [t |-> "num", v |-> v, d |-> d, scale |-> 1, unit |-> None, currency |-> None, noun |-> None,
              words |-> FALSE, code |-> None, quote |-> None, cell |-> NoCell, glued |-> FALSE]
Pct(v, d) == [Num(v, d) EXCEPT !.unit = "percent"]
Hkd(v, d) == [Num(v, d) EXCEPT !.currency = "HKD"]
Count(n, noun) == [Num(n * 10000, 0) EXCEPT !.noun = noun]
Day(d) == [t |-> "time", level |-> 3, day |-> d, minute |-> 0, second |-> 0, quote |-> None, cell |-> NoCell, glued |-> FALSE]
Time(m) == [Day(0) EXCEPT !.level = 4, !.minute = m]
Year(y, frame) == [t |-> "year", year |-> y, frame |-> frame, v |-> y * 10000, d |-> 0, scale |-> 1, unit |-> None,
                   currency |-> None, noun |-> None, words |-> FALSE, code |-> None, quote |-> None,
                   cell |-> NoCell, glued |-> FALSE]

\* "Tencent closed at HKD 75.6", "BYD fell 4.88% over 20 sessions", and so on.
Leads == {
  <<Name("Tencent"), Cue("close"), Word("level"), Hkd(756000, 1)>>,
  <<Name("BYD"), Cue("close"), Num(756000, 1)>>,
  <<Name("Tencent"), Word("fell"), Pct(48800, 2), Count(20, "sessions")>>,
  <<Name("BYD"), Pct(48800, 2)>>,
  <<Name("Tencent"), Word("fell"), Pct(49000, 1), Word("versus"), Tok("index"), Pct(31900, 2)>>,
  <<Name("Tencent"), Word("and"), Name("BYD"), Cue("close"), Num(756000, 1), Word("and"), Num(803000, 1), Word("respectively")>>}
Tails == {
  <<Cue("open"), Num(756000, 1)>>,
  <<[Num(50000, 0) EXCEPT !.quote = "headline"], Num(50000, 0)>>}
Facts == Leads \union Tails \union {
  <<Name("Tencent"), [Num(7000000, 0) EXCEPT !.code = "0700"], Word("rose"), Pct(48800, 2)>>,
  <<Name("BYD"), Cue("close"), [Num(756000, 1) EXCEPT !.glued = TRUE], Num(802500, 2)>>,
  <<Name("BYD"), Cue("revenue"), Num(50000, 0), Word("versus"), Num(756000, 1)>>,
  <<Name("Tencent"), Cue("net_margin"), Pct(125000, 1), Day(3)>>,
  <<Name("BYD"), Day(3), Word("and"), Time(600), Year(2, "cue"), Count(3, "news_count")>>,
  <<[t |-> "index", glued |-> FALSE], Word("range"), Num(749000, 1), Tok("link"), Num(756000, 1)>>}
Opinions == {
  <<Word("predict"), Num(50000, 0)>>, <<Word("hedge"), Word("but"), Word("predict")>>, <<Word("said"), Word("that"), Word("predict")>>,
  <<Word("hedge"), Word("predict"), Num(749000, 1)>>, <<Tok("foreign"), Num(90000, 0)>>}

\* No answer, white space, one phrase, two sentences, one of two clauses.
MCCandidates == {<<>>, <<Line>>} \union Facts \union Opinions
  \union {a \o <<Tok("stop")>> \o b : a \in Leads, b \in Facts \union Opinions}
  \union {a \o <<Tok("clause")>> \o b : a \in Leads, b \in Tails \union Opinions}
MCPreludes == {<<>>, <<Name("BYD"), Num(90000, 0), Tok("stop")>>}
MCRewrites == Facts \union Opinions
====
