----------------------------- MODULE PostCheck -----------------------------
(***************************************************************************)
(* The post-check of an answer (agent/guardrail.py, guardrail_claims.py)   *)
(* and the part of a turn that decides from its verdict what reaches the   *)
(* screen and what a report may store (agent/loop.py).                     *)
(*                                                                         *)
(* A text is a sequence of tokens, as the scanner's patterns cut it: a     *)
(* number ("num"), a date or time ("time"), a four-digit year ("year"), a  *)
(* company's name ("name"), a listing's symbol ("subject"), "the index",   *)
(* the word of a field ("cue"), a word with a role ("word"), an exempt     *)
(* identifier, or a break: clause, line, stop, para.  The patterns are not *)
(* modelled, what is done with their matches is; distances are counted in  *)
(* tokens.  Values are integers in units of 1/10000.                       *)
(*                                                                         *)
(* Definitions named Wrong... are mistakes this code has made or could     *)
(* make, one for each property: with it in place of the definition that    *)
(* follows it, TLC finds the property violated.                            *)
(***************************************************************************)
EXTENDS Integers, FiniteSets, Sequences, FiniteSetsExt, SequencesExt

CONSTANTS
  Results,       \* what the tools may return, one record per result row
  Indices,       \* the symbols of indices (HSI.INDX)
  YearOf,        \* day -> its year
  Preludes,      \* what the model may write before its tool calls
  Candidates,    \* what it may answer
  Rewrites,      \* what it may answer when asked to rewrite
  EpistemicLimit,  \* violations of INV-002 a session survives (2)
  MaxTurns       \* bound: turns, each with at most one new result

\* A text is a sequence of tokens whose last word ends with it; the values of
\* its numbers and of the results are integers, so a number has at most four
\* decimals.  A rewrite without text is the original, not a rewrite.
ASSUME TextsAssumption ==
  \A x \in Preludes \union Candidates \union Rewrites :
    /\ x \in Seq({x[j] : j \in DOMAIN x})
    /\ x # <<>> => ~x[Len(x)].glued
    /\ \A j \in DOMAIN x : x[j].t \in {"num", "year"} =>
         x[j].v \in Int /\ x[j].d \in 0 .. 4 /\ x[j].scale \in Nat \ {0}

ASSUME ResultsAssumption ==
  \A r \in Results :
    /\ "none" \notin r.texts \union r.codes
    /\ \A leaf \in r.leaves : leaf.v \in Int

ASSUME TurnsAssumption == MaxTurns \in Nat /\ EpistemicLimit \in Nat

None == "none"
NoCell == [row |-> None, col |-> None]
The(S) == CHOOSE e \in S : TRUE
Abs(n) == IF n < 0 THEN -n ELSE n

-----------------------------------------------------------------------------
(* The evidence index: what the session's tool results say.                *)

PriceFields == {"open", "high", "low", "close", "adjusted_close"}
FractionFields == {"volatility", "drawdown", "net_margin", "gross_margin", "revenue_growth"}

\* A tool's declaration of a key goes before the guess from the key's name.
FieldClass(leaf) == IF leaf.declared = None THEN leaf.guess ELSE leaf.declared

\* Every number of a result, and the length of a list that counts something.
EntryOf(r, leaf) ==
  LET f == FieldClass(leaf) IN
  [v |-> leaf.v, field |-> f, subject |-> r.symbol, unit |-> leaf.unit,
   currency |-> IF f \in PriceFields THEN leaf.currency ELSE None,
   window |-> IF f = "price_change" THEN leaf.sessions ELSE 0,
   derived |-> leaf.counted]

Entries(L) == UNION {{EntryOf(r, leaf) : leaf \in r.leaves} : r \in L}
Instants(L) == UNION {{[time |-> i, subject |-> r.symbol] : i \in r.times} : r \in L}
Windows(L) == UNION {{[from |-> w[1], to |-> w[2], subject |-> r.symbol] : w \in r.windows} : r \in L}
FreeDigits(L) == UNION {r.digits : r \in L}
Texts(L) == UNION {r.texts : r \in L}
Codes(L) == UNION {r.codes : r \in L}
Unavailable(L) == UNION {{<<r.symbol, f>> : f \in r.missing} : r \in L}
Subjects(L) == {r.symbol : r \in L} \ {None}
HasChanges(L) == \E e \in Entries(L) : e.field = "price_change"

\* The company a word names: the only listing of that name, or the only one
\* of them a tool other than the search returned data for.
NameOf(word, L) ==
  LET found == {r.symbol : r \in {q \in L : q.word = word}}
      data == {r.symbol : r \in {q \in L : q.tool # "symbol.search"}}
  IN CASE Cardinality(found) = 1 -> The(found)
       [] Cardinality(found) > 1 /\ Cardinality(found \intersect data) = 1 -> The(found \intersect data)
       [] OTHER -> None

-----------------------------------------------------------------------------
(* The structure of a text.                                                *)

SentenceBreaks == {"stop", "line", "para"}
ClauseBreaks == SentenceBreaks \union {"clause"}

\* The positions no break stands between them and i.
Around(x, i, breaks) ==
  {j \in DOMAIN x : \A k \in j .. i - 1 : x[k].t \notin breaks}
    \intersect {j \in DOMAIN x : \A k \in i .. j - 1 : x[k].t \notin breaks}
SentenceAt(x, i) == Around(x, i, SentenceBreaks)
ClauseAt(x, i) == Around(x, i, ClauseBreaks)
ParagraphAt(x, i) == Around(x, i, {"para"})

\* The subject a token mentions: a symbol always does, a name when the ledger
\* has its company, "the index" when the ledger has one index.
Mentioned(tok, L) ==
  CASE tok.t = "subject" -> tok.s
    [] tok.t = "name" -> NameOf(tok.w, L)
    [] tok.t = "index" -> LET known == Indices \intersect Subjects(L) IN
                          IF Cardinality(known) = 1 THEN The(known) ELSE None
    [] OTHER -> None
Mentions(x, L) == {j \in DOMAIN x : Mentioned(x[j], L) # None}

\* The field a token is a cue of; a ledger company's name is none.
CueOf(tok, L) ==
  CASE tok.t = "cue" -> tok.f
    [] tok.t = "name" /\ NameOf(tok.w, L) = None -> tok.f
    [] OTHER -> None

IsWord(x, j, roles) == j \in DOMAIN x /\ x[j].t = "word" /\ x[j].k \in roles
IsNum(x, j) == j \in DOMAIN x /\ x[j].t = "num"

-----------------------------------------------------------------------------
(* Claims: the dates, times and numbers a text states.                     *)

\* Years joined by a dash or a word like it are judged together.
YearGroup(x, i) ==
  {j \in DOMAIN x : \A k \in Min({i, j}) .. Max({i, j}) : x[k].t \in {"year", "link"}}
    \intersect {j \in DOMAIN x : x[j].t = "year"}

\* A bare year is a date in a temporal frame, at the head of its sentence
\* before a verb, or in a cell labelled with a time; else it is a number.
Framed(x, i) == x[i].frame = "cue"
DatedYear(x, i) ==
  \/ /\ \A j \in YearGroup(x, i) : x[j].frame # "value"
     /\ \E j \in YearGroup(x, i) : Framed(x, j)
  \/ x[i].frame = "head" /\ (i = 1 \/ x[i - 1].t \in SentenceBreaks)
  \/ x[i].frame # "value" /\ "time" \in {x[i].cell.row, x[i].cell.col}

\* The code of a listing that any string of the ledger mentions is a
\* reference, not a number.
Structural(x, i, L) == x[i].code \in Codes(L)

IsTime(x, i) == \/ x[i].t = "time"
                \/ x[i].t = "year" /\ DatedYear(x, i)
IsQuantity(x, i, L) == \/ x[i].t = "num" /\ ~Structural(x, i, L)
                       \/ x[i].t = "year" /\ ~DatedYear(x, i)
Quantities(x, L) == {i \in DOMAIN x : IsQuantity(x, i, L)}
Claims(x, L) == {i \in DOMAIN x : IsTime(x, i) \/ IsQuantity(x, i, L)}

\* A table cell's labels: the subject one of them names, the column's first,
\* and the field one of them names, the row's first.
LabelSubject(cell, L) ==
  LET named(w) == IF w = None THEN None ELSE NameOf(w, L) IN
  IF named(cell.col) # None THEN named(cell.col) ELSE named(cell.row)
LabelFields == PriceFields \union FractionFields \union {"price_change", "revenue"}
LabelField(cell) ==
  IF cell.row \in LabelFields THEN cell.row
  ELSE IF cell.col \in LabelFields THEN cell.col ELSE None

\* The subject of a claim: its cell's label, the one in its place before
\* "respectively", the last mention before it in the sentence, the first
\* after it, the last before it in the paragraph.
SubjectOf(x, i, L) ==
  LET here == SentenceAt(x, i)
      said == Mentions(x, L) \intersect here
      first == {m \in said : ~\E n \in said : n < m /\ Mentioned(x[n], L) = Mentioned(x[m], L)}
      counts == Quantities(x, L) \intersect here
      place == {m \in first : Cardinality({n \in first : n <= m}) = Cardinality({q \in counts : q <= i})}
      before == {m \in said : m < i}
      after == {m \in said : m > i}
      earlier == {m \in Mentions(x, L) \intersect ParagraphAt(x, i) : m < i}
      inTurn == /\ \E j \in here : IsWord(x, j, {"respectively"})
                /\ Cardinality(first) = Cardinality(counts) /\ i \in counts
  IN IF LabelSubject(x[i].cell, L) # None THEN LabelSubject(x[i].cell, L)
     ELSE IF inTurn THEN Mentioned(x[The(place)], L)
     ELSE IF before # {} THEN Mentioned(x[Max(before)], L)
     ELSE IF after # {} THEN Mentioned(x[Min(after)], L)
     ELSE IF earlier # {} THEN Mentioned(x[Max(earlier)], L) ELSE None

-----------------------------------------------------------------------------
(* What a number claims: its sign, its field, its window.                  *)

HasDigits(tok) == tok.t \in {"num", "time", "year", "subject", "exempt"}

Declines == {"fell", "drop"}   \* verbs and nouns
Rises == {"rose", "gain"}

\* The direction a change word gives the number: one of the last four words
\* since the previous number, or the noun after it.  A number after "to",
\* "at" or "from" is a level, and a counted noun has no direction.
Sign(x, i) ==
  LET lead == {j \in ClauseAt(x, i) : /\ j < i /\ i - j <= 4
                                      /\ \A k \in j .. i - 1 : ~HasDigits(x[k])}
      signs == /\ x[i].noun = None \/ x[i].words
               /\ ~IsWord(x, i - 1, {"level"})
      next(cue) == i + 1 \in DOMAIN x /\ x[i + 1].t = "cue" /\ x[i + 1].f = cue
  IN IF signs /\ \E j \in lead : IsWord(x, j, Declines) THEN "decline"
     ELSE IF signs /\ \E j \in lead : IsWord(x, j, Rises) THEN "rise"
     ELSE IF x[i].noun = None /\ (IsWord(x, i + 1, {"drop"}) \/ next("drawdown")) THEN "decline"
     ELSE IF x[i].unit = "percent" /\ IsWord(x, i + 1, {"gain"}) THEN "rise" ELSE None

\* A number compared with an earlier one takes the direction of the last
\* change word before it in its sentence.
ComparedSign(x, i, L) ==
  LET here == {j \in SentenceAt(x, i) : j < i}
      previous == Claims(x, L) \intersect here
      changes == {j \in here : IsWord(x, j, Declines \union Rises)}
  IN IF /\ previous # {}
        /\ \E j \in Max(previous) .. i - 1 : IsWord(x, j, {"versus"})
        /\ changes # {}
     THEN IF x[Max(changes)].k \in Declines THEN "decline" ELSE "rise" ELSE None

\* The nearest field cue of the clause.  One before governs every number
\* after it; one after belongs to the nearest number before it and does not
\* reach across a conjunction.
NearestCue(x, i, L) ==
  LET level == IsWord(x, i - 1, {"level"})
      blocked(j) == \E k \in i + 1 .. j - 1 : IsQuantity(x, k, L) \/ IsWord(x, k, {"and", "but", "versus"})
      cues == {j \in ClauseAt(x, i) \ {i} :
                 /\ CueOf(x[j], L) # None
                 /\ ~(level /\ CueOf(x[j], L) = "revenue_growth")
                 /\ ~blocked(j)}
      far(j) == 2 * Abs(j - i) + (IF j > i THEN 1 ELSE 0)
  IN IF cues = {} THEN None
     ELSE CueOf(x[CHOOSE j \in cues : \A k \in cues : far(j) <= far(k)], L)

\* _resolve_field: a tool key right before the number, a stated window, the
\* noun it counts, the labels of its cell, the cues of its clause.
ResolveField(x, i, L) ==
  LET changeOver == /\ x[i].unit = "percent" /\ HasChanges(L)
                    /\ IsWord(x, i - 1, {"window"}) /\ IsNum(x, i - 2) /\ x[i - 2].noun = "sessions"
  IN IF i > 1 /\ x[i - 1].t = "key" THEN x[i - 1].f
     ELSE IF changeOver THEN "price_change"
     ELSE IF x[i].noun # None THEN x[i].noun
     ELSE IF x[i].cell # NoCell THEN LabelField(x[i].cell) ELSE NearestCue(x, i, L)

\* A percent is never a price: with a direction, or beside the cue of a
\* price, it is a price change where the ledger holds one.
Narrowed(name, x, i, L) ==
  LET percent == x[i].unit = "percent"
      directed == Sign(x, i) # None \/ x[i].v < 0 \/ ComparedSign(x, i, L) # None
  IN CASE name = "revenue" /\ percent /\ (Sign(x, i) # None \/ IsWord(x, i + 1, {"drop", "gain"})) -> "revenue_growth"
       [] name = None /\ percent /\ HasChanges(L) /\ directed -> "price_change"
       [] name \in PriceFields \union {"price"} /\ percent /\ HasChanges(L) -> "price_change"
       [] OTHER -> name

\* "A-B range" and "range of A to B" are a low and a high.
RangeEnd(x, i) ==
  LET dash(j) == j \in DOMAIN x /\ x[j].t = "link"
      joined(j) == dash(j) \/ IsWord(x, j, {"level"})
      range(j) == IsWord(x, j, {"range"})
  IN IF dash(i + 1) /\ IsNum(x, i + 2) /\ range(i + 3) THEN "low"
     ELSE IF dash(i - 1) /\ IsNum(x, i - 2) /\ range(i + 1) THEN "high"
     ELSE IF range(i - 1) /\ joined(i + 1) /\ IsNum(x, i + 2) THEN "low"
     ELSE IF range(i - 3) /\ IsNum(x, i - 2) /\ joined(i - 1) THEN "high" ELSE None

FieldAlone(x, i, L) ==
  IF x[i].unit = None /\ ~x[i].words /\ RangeEnd(x, i) # None THEN RangeEnd(x, i)
  ELSE Narrowed(ResolveField(x, i, L), x, i, L)

\* The field of every number; one that is compared ("versus 75.6") inherits
\* the field of the last number before it that has one.
Fields(x, L) ==
  LET f[i \in DOMAIN x] ==
        LET alone == FieldAlone(x, i, L)
            earlier == {j \in SentenceAt(x, i) : j < i /\ f[j] # None}
        IN IF ~IsQuantity(x, i, L) THEN None
           ELSE IF alone = None /\ IsWord(x, i - 1, {"versus"}) /\ earlier # {} THEN f[Max(earlier)]
           ELSE alone
  IN f

\* The session count stated with a change, if any: the nearest after it up
\* to the next percent, or before it back to the previous one.
StatedWindow(x, i, L) ==
  LET scope == IF x[i].cell # NoCell THEN SentenceAt(x, i) ELSE ClauseAt(x, i)
      percents == {p \in Quantities(x, L) \intersect scope : p # i /\ x[p].unit = "percent"}
      preceded == \E p \in percents : p < i
      between(j, p) == p \in (j + 1 .. i - 1) \union (i + 1 .. j - 1)
      changed(j) == \E k \in j .. i : IsWord(x, k, Declines \union Rises)
      counts == {j \in scope : /\ IsNum(x, j) /\ x[j].noun = "sessions" /\ j # i
                               /\ ~\E p \in percents : between(j, p)
                               /\ ~(j < i /\ preceded /\ changed(j))}
      far(j) == 2 * Abs(j - i) + (IF j < i THEN 1 ELSE 0)
  IN IF counts = {} THEN 0
     ELSE x[CHOOSE j \in counts : \A k \in counts : far(j) <= far(k)].v \div 10000

-----------------------------------------------------------------------------
(* Verification of one claim against the evidence.                         *)

\* The last decimal of a number with d of them; it is rounded to half of it.
Ulp(d) == CASE d = 0 -> 10000 [] d = 1 -> 1000 [] d = 2 -> 100 [] d = 3 -> 10 [] OTHER -> 1

\* An evidence value in the unit the claim is written in.
Interpretations(tok, e) ==
  LET fraction == e.field \in FractionFields \/ e.unit \in {"fraction", "ratio"}
      unknown == e.field = "unknown"
  IN CASE tok.unit = "percent" ->
            (IF fraction \/ unknown THEN {100 * e.v} ELSE {})
              \union (IF unknown \/ e.unit = "percent" \/ e.field = "price_change" THEN {e.v} ELSE {})
       [] tok.unit = "bps" -> {10000 * e.v}
       [] OTHER -> {e.v}

Close(tok, a, b) == 2 * Abs(a - b) <= Ulp(tok.d) * tok.scale

\* An interpretation c of the evidence is the number claimed.  A decline is
\* the magnitude of a negative value, a drawdown is compared by magnitude.
Magnitude(sign, e, f) == "drawdown" \in {f, e.field} /\ sign # "rise"
Hits(tok, sign, magnitude, c) ==
  LET v == tok.v * tok.scale
  IN CASE magnitude -> Close(tok, Abs(c), Abs(v))
       [] ~magnitude /\ sign = "decline" /\ v > 0 -> c < 0 /\ Close(tok, -c, v)
       [] ~magnitude /\ sign = "rise" /\ v > 0 /\ c < 0 -> FALSE
       [] OTHER -> Close(tok, c, v)

\* "match", the kind of mismatch, or none.
Match(tok, sign, e, f) ==
  LET v == tok.v * tok.scale
      magnitude == Magnitude(sign, e, f)
      hit == \E c \in Interpretations(tok, e) : Hits(tok, sign, magnitude, c)
      opposite == \E c \in Interpretations(tok, e) : ~magnitude /\ v > 0 /\ Close(tok, Abs(c), v)
      foreign == tok.currency # None /\ e.currency # None /\ tok.currency # e.currency
  IN CASE foreign -> "currency"
       [] ~foreign /\ hit -> "match"
       [] ~foreign /\ ~hit /\ sign # None /\ opposite -> "sign"
       [] OTHER -> None

\* A claimed field covers itself and its family; evidence no one typed covers all.
Compatible(f, evidence) ==
  \/ evidence = "unknown" \/ f = evidence
  \/ f = "price" /\ evidence \in PriceFields
  \/ f = "margin" /\ evidence \in {"net_margin", "gross_margin"}

\* Any company's number would do.
WrongOwn(evidence, subject) == TRUE

\* Evidence a claim about a subject may rest on: its own, or nobody's.
Own(evidence, subject) == subject = None \/ evidence \in {None, subject}

\* The evidence a claim of field f about a subject is compared with; a window
\* stated with a price change selects its entries, where there are any.
InScope(x, i, f, subject, L) ==
  LET own == {e \in Entries(L) : Compatible(f, e.field) /\ Own(e.subject, subject)}
      stated == StatedWindow(x, i, L)
  IN IF f = "price_change" /\ stated # 0 /\ (\E e \in own : e.window = stated)
     THEN {e \in own : e.window \in {0, stated}} ELSE own

\* The verdict on a number with a field: "ok", or the reason it is unverified.
VerifyFielded(x, i, f, subject, L) ==
  LET sign == IF f = "price_change" /\ Sign(x, i) = None /\ x[i].v > 0
              THEN ComparedSign(x, i, L) ELSE Sign(x, i)
      scope == InScope(x, i, f, subject, L)
      kinds == {Match(x[i], sign, e, f) : e \in scope}
      typed == {e \in Entries(L) : e.field # "unknown"}
      others == \E e \in typed : /\ Compatible(f, e.field) /\ ~Own(e.subject, subject)
                                 /\ Match(x[i], sign, e, f) = "match"
      otherField == \E e \in typed : /\ e.field # "other" /\ ~Compatible(f, e.field) /\ Own(e.subject, subject)
                                     /\ ~e.derived /\ Match(x[i], sign, e, e.field) = "match"
  IN IF "match" \in kinds THEN "ok"
     ELSE IF scope \intersect typed = {}
     THEN IF \E u \in Unavailable(L) : u[2] = f /\ Own(u[1], subject) THEN "unavailable" ELSE "no_evidence"
     ELSE IF others THEN "subject_mismatch"
     ELSE IF otherField THEN "field_mismatch"
     ELSE IF "currency" \in kinds THEN "currency"
     ELSE IF "sign" \in kinds THEN "sign" ELSE "differs"

\* The words around the occurrences of a number name prices the value is
\* not stored under, and nowhere one it is stored under.
Near == 6  \* 48 characters
FieldContradicts(x, i, L) ==
  LET stored == {e.field : e \in {d \in Entries(L) : d.v = x[i].v /\ d.field \in PriceFields \union {"volume"}}}
      same == {j \in DOMAIN x : x[j].t \in {"num", "year"} /\ x[j].v = x[i].v /\ x[j].d = x[i].d}
      cues(j) == {x[k].f : k \in {m \in DOMAIN x : /\ m \in j - Near .. j + Near /\ x[m].t = "cue"
                                                    /\ x[m].f \in PriceFields \union {"volume"}}}
  IN /\ stored # {}
     /\ \E j \in same : cues(j) # {} /\ cues(j) \intersect stored = {}
     /\ \A j \in same : cues(j) \intersect stored = {}

\* The verdict on a number without one: a value of the ledger, in 2 to 4
\* decimals also rounded, or as a percent of a fraction.
VerifyUnfielded(x, i, L) ==
  LET tok == x[i]
      direct == {e \in Entries(L) : ~e.derived}
      exact == \E e \in direct : e.v = tok.v
  IN CASE tok.words ->
            IF \E e \in direct : Match(tok, Sign(x, i), e, None) = "match" THEN "ok" ELSE "not_found"
       [] ~tok.words /\ exact -> IF FieldContradicts(x, i, L) THEN "field_mismatch" ELSE "ok"
       [] OTHER ->
            IF \E e \in direct :
                 \/ tok.d >= 2 /\ 2 * Abs(e.v - tok.v) <= Ulp(tok.d)
                 \/ tok.d >= 1 /\ tok.unit = "percent" /\ 2 * Abs(100 * e.v - tok.v) <= Ulp(tok.d)
            THEN "ok" ELSE IF tok.v \in FreeDigits(L) THEN "tool_text" ELSE "not_found"

\* The verdict on a year, a day or a time (minutes of the day; level 3 is a
\* day, 4 minutes, 5 seconds).  A year needs any date in it or an own window
\* over it, a day an own date, a time an own instant at least as precise.
VerifyTime(x, i, subject, L) ==
  LET own == {s \in Instants(L) : Own(s.subject, subject)}
      ownWindows == {w \in Windows(L) : Own(w.subject, subject)}
      named == {j \in SentenceAt(x, i) : x[j].t = "time" /\ x[j].level = 3}
      day == IF x[i].day # 0 THEN x[i].day ELSE IF named = {} THEN 0 ELSE x[Min(named)].day
      sameTime(s) ==
        /\ s.time.level > 3 /\ day \in {0, s.time.day} /\ s.time.minute = x[i].minute
        /\ (x[i].level = 5 /\ s.time.level = 5) => s.time.second = x[i].second
  IN CASE x[i].t = "year" ->
            IF \/ \E s \in Instants(L) : YearOf[s.time.day] = x[i].year
               \/ \E w \in ownWindows : \E d \in w.from .. w.to : YearOf[d] = x[i].year
            THEN "ok" ELSE "no_time"
       [] x[i].t = "time" /\ x[i].level = 3 ->
            IF \E s \in own : s.time.day = day THEN "ok"
            ELSE IF \E s \in Instants(L) : s.time.day = day THEN "subject_mismatch" ELSE "no_time"
       [] OTHER ->
            IF \E s \in own : sameTime(s) /\ x[i].level <= s.time.level THEN "ok"
            ELSE IF \E s \in own : sameTime(s) \/ <<s.time.level, s.time.day>> = <<3, day>> THEN "precise"
            ELSE IF \E s \in Instants(L) : sameTime(s) THEN "subject_mismatch" ELSE "no_time"

\* A quotation of a tool's text verifies what it quotes.
Quoted(quote, alone, L) ==
  IF quote \in Texts(L) THEN "ok"
  ELSE IF quote # None /\ alone # "ok" THEN "quote" ELSE alone

VerifyAlone(x, i, f, subject, L) ==
  IF IsTime(x, i) THEN VerifyTime(x, i, subject, L)
  ELSE IF f # None THEN VerifyFielded(x, i, f, subject, L) ELSE VerifyUnfielded(x, i, L)

Verify(x, i, f, L) == Quoted(x[i].quote, VerifyAlone(x, i, f, SubjectOf(x, i, L), L), L)

\* check: the claims of a text the ledger does not verify.
Unverified(x, L) ==
  LET f == Fields(x, L) IN {i \in Claims(x, L) : Verify(x, i, f[i], L) # "ok"}

-----------------------------------------------------------------------------
(* The markers and the epistemic filter.                                   *)

\* The marker goes past the word.
WrongWordEnd(x, i) == 1 + Min({j \in i .. Len(x) : ~x[j].glued})

\* A marker stands at the end of the word that holds the claim.
WordEnd(x, i) == Min({j \in i .. Len(x) : ~x[j].glued})

\* mark_claims: the words of the unverified claims of a text of which y is
\* the part after the first `offset` tokens.
MarkClaims(y, bad, offset) == {WordEnd(y, i - offset) : i \in {j \in bad : j > offset}}

\* Sentences end at a stop, whatever lines and paragraphs do.
Sentences(x) ==
  LET stops == {j \in DOMAIN x : x[j].t = "stop"}
      ends == stops \union (IF x = <<>> THEN {} ELSE {Len(x)})
      start(e) == Max({0} \union {j \in stops : j < e}) + 1
  IN {start(e) .. e : e \in ends}

\* The clause of a position: "but" and its like break it, and so does the
\* "that" of a reporting verb, but for an institution's own speech.
ClauseFrom(x, s, p, breaks) == {k \in s : \A j \in Min({k, p}) .. Max({k, p}) : ~IsWord(x, j, breaks)}

\* A hedge in its clause, or an institution's speech before it, excuses a
\* prediction; a label or a closing attribution excuses the sentence.
Excused(x, s, p) ==
  \/ \E k \in ClauseFrom(x, s, p, {"but", "that"}) : IsWord(x, k, {"hedge"})
  \/ \E k \in ClauseFrom(x, s, p, {"but"}) : k < p /\ IsWord(x, k, {"said"})
Predicts(x, p) == IsWord(x, p, {"predict"})
Violates(x, s) ==
  /\ ~\E k \in s : IsWord(x, k, {"label", "tag"})
  /\ \E p \in s : Predicts(x, p) /\ ~Excused(x, s, p)
Violations(x) == {s \in Sentences(x) : Violates(x, s)}

English(x) == \A j \in DOMAIN x : x[j].t # "foreign"

\* run_postcheck: withheld for the language (a claim carries its position, so
\* none is unmarkable); flagged is not withheld with something unverified.
RunPostCheck(x, L) ==
  [unverified |-> Unverified(x, L), withheld |-> ~English(x), violations |-> Cardinality(Violations(x))]

-----------------------------------------------------------------------------
(* The turns of a session, from the model's answer to what is shown.  A    *)
(* turn that ends without an answer (a provider error, the iteration cap)  *)
(* shows and stores nothing: AgentSession has it.                          *)

VARIABLES
  ledger,     \* the session's tool results
  turns,      \* turns begun
  pc,         \* "idle", "answer", "show" or "revise"
  prelude,    \* what the model wrote before its tool calls
  candidate,  \* its answer
  verdict,    \* run_postcheck of the two
  shown,      \* what is on the screen and in the log: a text and its markers
  body,       \* the answer without its prelude
  report,     \* the artifact of the turn, when /report asked for it
  epistemicTotal  \* violations of INV-002 counted in the session

vars == <<ledger, turns, pc, prelude, candidate, verdict, shown, body, report, epistemicTotal>>

Line == [t |-> "line", glued |-> FALSE]
NoVerdict == [unverified |-> {}, withheld |-> FALSE, violations |-> 0]

\* "\n".join of the preludes and the candidate.
Combined == IF prelude = <<>> THEN candidate ELSE prelude \o <<Line>> \o candidate

\* The line shown instead of a withheld response, and the INV-002 refusal.
Withheld == <<[t |-> "exempt", glued |-> FALSE]>>
Refusal == <<[t |-> "exempt", glued |-> FALSE], [t |-> "word", k |-> "label", glued |-> FALSE]>>

Screen(kind, x, bad) == [kind |-> kind, text |-> x, marks |-> MarkClaims(x, bad, 0)]
Nothing == [kind |-> "nothing", text |-> <<>>, marks |-> {}]
NoReport == [stored |-> FALSE, text |-> <<>>, marks |-> {}, passed |-> FALSE]

\* The session has spent its budget of violations.
Aborted == epistemicTotal > EpistemicLimit

\* White space only.
Blank(x) == \A j \in DOMAIN x : x[j].t \in {"line", "para"}

\* The whole screen is stored, its prelude included (before TP-019).
WrongStored(screen, answer, bad, aborted) ==
  IF screen.kind = "answer" /\ ~aborted /\ ~Blank(screen.text)
  THEN [stored |-> TRUE, text |-> screen.text, marks |-> screen.marks, passed |-> bad = {}]
  ELSE NoReport

\* _run_report_turn: the report is the answer without its prelude, and where
\* the answer is empty all the screen shows.  A withheld, refused or blank
\* one is no report, nor is one that aborts the session; the header says
\* whether the post-check left something unverified.
Stored(screen, answer, bad, aborted) ==
  LET displayed == IF answer.text # <<>> THEN answer ELSE screen
  IN IF screen.kind = "answer" /\ ~aborted /\ ~Blank(displayed.text)
     THEN [stored |-> TRUE, text |-> displayed.text, marks |-> displayed.marks, passed |-> bad = {}]
     ELSE NoReport

\* PostCheckCounter.record: the budget is fed whatever was shown.
RecordVerdict(n) == epistemicTotal' = epistemicTotal + n

Init ==
  /\ ledger = {} /\ turns = 0 /\ pc = "idle"
  /\ prelude = <<>> /\ candidate = <<>> /\ verdict = NoVerdict
  /\ shown = Nothing /\ body = Nothing /\ report = NoReport
  /\ epistemicTotal = 0

\* The tool loop of a turn: it may add a result to the session's ledger.  An
\* aborted session no longer calls the model.
Ask ==
  /\ pc = "idle" /\ turns < MaxTurns /\ ~Aborted
  /\ \E found \in {{}} \union {{r} : r \in Results} : ledger' = ledger \union found
  /\ turns' = turns + 1 /\ pc' = "answer"
  /\ shown' = Nothing /\ body' = Nothing /\ report' = NoReport
  /\ UNCHANGED <<prelude, candidate, verdict, epistemicTotal>>

\* The model's answer, with the prelude of its tool calls: run_postcheck
\* reads all that would be seen, against the whole session.
Answer ==
  /\ pc = "answer"
  /\ prelude' \in Preludes /\ candidate' \in Candidates
  /\ verdict' = RunPostCheck(Combined', ledger)
  /\ pc' = IF verdict'.violations > 0 /\ ~verdict'.withheld THEN "revise" ELSE "show"
  /\ UNCHANGED <<ledger, turns, shown, body, report, epistemicTotal>>

\* The locals of run_turn are gone.
EndTurn ==
  /\ pc' = "idle" /\ prelude' = <<>> /\ candidate' = <<>> /\ verdict' = NoVerdict
  /\ UNCHANGED <<ledger, turns>>

\* A withheld response, and one without violations, flagged or clean.  The
\* body is the candidate alone, its claims marked where the prelude ends.
Show ==
  /\ pc = "show"
  /\ IF verdict.withheld
     THEN /\ shown' = Screen("withheld", Withheld, {})
          /\ body' = shown'
     ELSE /\ shown' = Screen("answer", Combined, verdict.unverified)
          /\ body' = [kind |-> "answer", text |-> candidate,
                     marks |-> MarkClaims(candidate, verdict.unverified, Len(Combined) - Len(candidate))]
  /\ RecordVerdict(verdict.violations)
  /\ report' = Stored(shown', body', verdict.unverified, Aborted')
  /\ EndTurn

\* The rewrite is trusted to have no violations.
WrongRegenerated(y) == y

\* run_with_regeneration: what the model makes of the stripped draft, or the
\* original where it makes nothing, is shown if it has no violations.
Regenerated(y) == IF Violations(y) = {} THEN y ELSE Refusal

\* The rewrite is shown as it comes: its numbers are not checked again.
WrongShowRewrite(y, check) ==
  /\ shown' = Screen(IF y = Refusal THEN "refused" ELSE "answer", y, {})
  /\ body' = shown'
  /\ RecordVerdict(verdict.violations)
  /\ report' = Stored(shown', body', check.unverified, Aborted')

\* The rewrite is checked again before it is shown: withheld, or marked.
\* Counted are the violations of the original, but for a withheld rewrite,
\* whose own verdict takes its place.
ShowRewrite(y, check) ==
  /\ shown' = IF check.withheld THEN Screen("withheld", Withheld, {})
              ELSE Screen(IF y = Refusal THEN "refused" ELSE "answer", y, check.unverified)
  /\ body' = shown'
  /\ RecordVerdict(IF check.withheld THEN check.violations ELSE verdict.violations)
  /\ report' = Stored(shown', body', check.unverified, Aborted')

Revise ==
  /\ pc = "revise"
  /\ \E rewrite \in Rewrites \union {<<>>} :
       LET y == Regenerated(IF Blank(rewrite) THEN Combined ELSE rewrite)
       IN ShowRewrite(y, RunPostCheck(y, ledger))
  /\ EndTurn

Next == Ask \/ Answer \/ Show \/ Revise
Spec == Init /\ [][Next]_vars

-----------------------------------------------------------------------------
(* Properties.                                                             *)

TypeOK ==
  /\ ledger \subseteq Results /\ turns \in 0 .. MaxTurns
  /\ pc \in {"idle", "answer", "show", "revise"}
  /\ prelude \in Preludes \union {<<>>} /\ candidate \in Candidates \union {<<>>}
  /\ verdict.unverified \subseteq DOMAIN Combined
  /\ verdict.withheld \in BOOLEAN /\ verdict.violations \in Nat
  /\ shown.kind \in {"nothing", "answer", "refused", "withheld"}
  /\ shown.marks \subseteq DOMAIN shown.text /\ body.marks \subseteq DOMAIN body.text
  /\ report.stored \in BOOLEAN /\ report.passed \in BOOLEAN
  /\ report.marks \subseteq DOMAIN report.text
  /\ epistemicTotal \in Nat /\ (pc # "idle" => ~Aborted)

SameWord(x, i, j) == i <= j /\ \A k \in i .. j - 1 : x[k].glued
MarkedExactly(x, marks, bad) ==
  /\ \A i \in bad : \E j \in marks : SameWord(x, i, j)
  /\ \A j \in marks : \E i \in bad : SameWord(x, i, j)

\* Whatever path an answer took to the screen (checked once, rewritten,
\* refused), its markers stand exactly at the words with a number the ledger
\* does not verify in the text as shown: an unverified number is marked or
\* the whole response withheld (ADR-008).
MarkersExact ==
  shown.kind \notin {"nothing", "withheld"} =>
    MarkedExactly(shown.text, shown.marks, Unverified(shown.text, ledger))

\* A turn ends with a report exactly when an answer is shown that is not
\* white space and did not abort the session.  The report is the model's
\* final answer word by word, without the prelude (TP-019), or all that is
\* shown where that answer is empty or was rewritten; it has the screen's
\* markers after the prelude and no other (the check read the two together,
\* so its positions shift: loop.py); and its header claims the post-check
\* exactly when that left nothing unverified in the text as shown, prelude
\* and rewrite included (FR-008, ADR-008).
HonestReport ==
  LET alone == pc = "show" /\ candidate # <<>>
      offset == IF alone /\ prelude # <<>> THEN Len(prelude) + 1 ELSE 0
      text == IF alone THEN candidate ELSE shown'.text
  IN /\ report'.stored <=> shown'.kind = "answer" /\ epistemicTotal' <= EpistemicLimit /\ ~Blank(text)
     /\ report'.stored =>
          /\ report'.text = text
          /\ report'.marks = {j - offset : j \in {m \in shown'.marks : m > offset}}
          /\ report'.passed <=> Unverified(shown'.text, ledger') = {}
ReportHonest == [][pc # "idle" /\ pc' = "idle" => HonestReport]_vars

\* No prediction or causal claim without its hedge reaches the screen, in a
\* rewrite either (INV-002), and nothing but English does (GOV-001).
NothingUnsafe ==
  shown.kind = "answer" =>
    /\ English(shown.text)
    /\ \A s \in Sentences(shown.text) : ~Violates(shown.text, s)

\* The companies the sentence of a number names.
Named(x, i) == {Mentioned(x[m], ledger) : m \in SentenceAt(x, i)} \ {None}

\* A tool returned the number x[i], falling where the sentence says it fell.
Returned(x, i, f, r) ==
  \E leaf \in r.leaves : \E factor \in (IF x[i].unit = "bps" THEN {10000} ELSE {1, 100}) :
    /\ Close(x[i], Abs(factor * leaf.v), Abs(x[i].v * x[i].scale))
    /\ (/\ IsWord(x, i - 1, Declines) /\ x[i].v > 0
        /\ f # "drawdown" /\ x[i].noun = None) => leaf.v < 0

\* A tool returned the day, or the time of day, to the precision of x[i].
Happened(x, i, r) ==
  \E w \in r.times :
    /\ x[i].day \in {0, w.day}
    /\ x[i].level > 3 => w.level >= x[i].level /\ w.minute = x[i].minute

\* A number with a field, a day or a time in a sentence about one company is
\* only left unmarked when a tool returned it for that company or for none
\* (ADR-008 decision 2, DE-12): the tools' results, not the index, say so.
OwnEvidence ==
  LET x == shown.text
      f == Fields(x, ledger)
      free == {i \in Claims(x, ledger) :
                 /\ x[i].quote = None /\ x[i].cell = NoCell
                 /\ \A j \in shown.marks : ~SameWord(x, i, j)}
  IN shown.kind = "answer" =>
       \A i \in free : \A s \in Named(x, i) : Named(x, i) = {s} =>
         /\ i \in Quantities(x, ledger) /\ f[i] # None =>
              \E r \in ledger : r.symbol \in {None, s} /\ Returned(x, i, f[i], r)
         /\ x[i].t = "time" => \E r \in ledger : r.symbol \in {None, s} /\ Happened(x, i, r)
====
