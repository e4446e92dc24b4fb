-------------------------- MODULE PostCheckProofs --------------------------
(***************************************************************************)
(* What a turn shows and a report stores, proved for every set of results, *)
(* of preludes, answers and rewrites, and every number of turns.           *)
(***************************************************************************)
EXTENDS PostCheck, SequenceTheorems, FiniteSetTheorems, TLAPS

-----------------------------------------------------------------------------
(* The least and the greatest of a set of positions.                       *)

LEMMA MinIs ==
  ASSUME NEW S, S \subseteq Nat, S # {}
  PROVE  Min(S) \in S /\ \A y \in S : Min(S) <= y
  <1>1. PICK x \in S : \A y \in S : <<y, x>> \notin OpToRel(<, Nat)
    BY WFMin, NatLessThanWellFounded, Zenon
  <1>2. \A y \in S : ~(y < x)
    BY <1>1 DEF OpToRel
  <1>3. \A y \in S : x <= y
    BY <1>2
  <1> QED
    BY <1>3 DEF Min

LEMMA MaxIs ==
  ASSUME NEW n \in Nat, NEW S, S \subseteq 0 .. n, S # {}
  PROVE  Max(S) \in S /\ \A y \in S : Max(S) >= y
  <1> DEFINE Down == {k \in 0 .. n : n - k \in S}
  <1>1. Down \subseteq Nat /\ Down # {}
    <2>1. PICK y \in S : TRUE
      OBVIOUS
    <2>2. y \in 0 .. n
      BY <2>1
    <2>3. n - y \in 0 .. n /\ n - (n - y) = y
      BY <2>2
    <2>4. n - y \in Down
      BY <2>1, <2>3
    <2>5. Down \subseteq Nat
      OBVIOUS
    <2> HIDE DEF Down
    <2> QED
      BY <2>4, <2>5
  <1> HIDE DEF Down
  <1>2. Min(Down) \in Down /\ \A k \in Down : Min(Down) <= k
    BY <1>1, MinIs
  <1>3. n - Min(Down) \in S /\ Min(Down) \in 0 .. n
    BY <1>2 DEF Down
  <1>4. ASSUME NEW y \in S
        PROVE  y <= n - Min(Down)
    <2>1. n - y \in Down
      BY DEF Down
    <2> QED
      BY <1>2, <1>3, <2>1
  <1> QED
    BY <1>3, <1>4 DEF Max

-----------------------------------------------------------------------------
(* Texts and the ends of their words.                                      *)

Token == (UNION {{x[j] : j \in DOMAIN x} : x \in Preludes \union Candidates \union Rewrites})
           \union {Line, Withheld[1], Refusal[1], Refusal[2]}

\* A sequence of tokens whose last word ends with it.
Text(x) == x \in Seq(Token) /\ (x # <<>> => ~x[Len(x)].glued)

Join(p, c) == IF p = <<>> THEN c ELSE p \o <<Line>> \o c

LEMMA WrittenIsText ==
  ASSUME NEW x \in Preludes \union Candidates \union Rewrites
  PROVE  Text(x)
  <1>1. x \in Seq({x[j] : j \in DOMAIN x}) /\ (x # <<>> => ~x[Len(x)].glued)
    BY TextsAssumption
  <1>2. {x[j] : j \in DOMAIN x} \subseteq Token
    BY DEF Token
  <1>3. Seq({x[j] : j \in DOMAIN x}) \subseteq Seq(Token)
    BY <1>2, SeqMonotonic
  <1> QED
    BY <1>1, <1>3 DEF Text

LEMMA ConstantTexts ==
  Text(<<>>) /\ Text(Withheld) /\ Text(Refusal)
  <1>1. Text(<<>>)
    BY EmptySeq DEF Text
  <1>2. Withheld = <<Withheld[1]>> /\ Refusal = <<Refusal[1], Refusal[2]>>
    BY DEF Withheld, Refusal
  <1>3. Withheld[1] \in Token /\ Refusal[1] \in Token /\ Refusal[2] \in Token
    BY DEF Token
  <1>4. ~Withheld[1].glued /\ ~Refusal[2].glued
    BY DEF Withheld, Refusal
  <1>5. Text(Withheld)
    <2>1. \A a \in Token : <<a>> \in Seq(Token) /\ Len(<<a>>) = 1
      OBVIOUS
    <2>2. Len(Withheld) = 1 /\ Withheld \in Seq(Token)
      BY <1>2, <1>3, <2>1, Zenon
    <2> QED
      BY <2>2, <1>4 DEF Text
  <1>6. Text(Refusal)
    <2>1. \A a, b \in Token : <<a, b>> \in Seq(Token) /\ Len(<<a, b>>) = 2
      OBVIOUS
    <2>2. Len(Refusal) = 2 /\ Refusal \in Seq(Token)
      BY <1>2, <1>3, <2>1, Zenon
    <2> QED
      BY <2>2, <1>4 DEF Text
  <1> QED
    BY <1>1, <1>5, <1>6

\* The joined text ends its words where its parts do, and the prelude's are
\* over before the answer begins.
LEMMA JoinIs ==
  ASSUME NEW p, NEW c, Text(p), Text(c)
  PROVE  LET offset == Len(Join(p, c)) - Len(c) IN
         /\ Text(Join(p, c)) /\ offset \in Nat
         /\ \A j \in 1 .. Len(c) : Join(p, c)[offset + j] = c[j]
         /\ offset > 0 => ~Join(p, c)[offset].glued
  <1>1. CASE p = <<>>
    BY <1>1 DEF Join, Text
  <1>2. CASE p # <<>>
    <2> DEFINE w == p \o <<Line>> \o c
    <2>1. Line \in Token
      BY DEF Token
    <2>10. <<Line>> \in Seq(Token) /\ Len(<<Line>>) = 1 /\ <<Line>>[1] = Line
      BY <2>1
    <2>2. /\ p \o <<Line>> \in Seq(Token) /\ Len(p \o <<Line>>) = Len(p) + 1
          /\ (p \o <<Line>>)[Len(p) + 1] = Line
      BY <2>10, ConcatProperties DEF Text
    <2>3. /\ w \in Seq(Token) /\ Len(w) = Len(p) + 1 + Len(c)
          /\ w[Len(p) + 1] = Line
          /\ \A j \in 1 .. Len(c) : w[Len(p) + 1 + j] = c[j]
      BY <2>2, ConcatProperties DEF Text
    <2>4. ~Line.glued
      BY DEF Line
    <2>5. Len(p) \in Nat /\ Len(c) \in Nat
      BY DEF Text
    <2>6. Len(c) > 0 => ~w[Len(w)].glued
      <3> SUFFICES ASSUME Len(c) > 0 PROVE ~w[Len(w)].glued
        OBVIOUS
      <3>1. c # <<>> /\ Len(c) \in 1 .. Len(c)
        BY <2>5
      <3>2. w[Len(w)] = c[Len(c)]
        BY <2>3, <3>1
      <3> QED
        BY <3>1, <3>2 DEF Text
    <2>7. Len(c) = 0 => ~w[Len(w)].glued
      BY <2>3, <2>4, <2>5
    <2>8. Text(w)
      BY <2>3, <2>5, <2>6, <2>7 DEF Text
    <2>9. Join(p, c) = w
      BY <1>2 DEF Join
    <2> HIDE DEF w
    <2>11. Len(w) - Len(c) = Len(p) + 1 /\ Len(p) + 1 \in Nat /\ ~w[Len(p) + 1].glued
      BY <2>3, <2>4, <2>5
    <2> QED
      BY <2>3, <2>8, <2>9, <2>11
  <1> QED
    BY <1>1, <1>2

\* A word ends at the first token that is not glued to the next.
LEMMA WordEndIs ==
  ASSUME NEW x, Text(x), NEW i \in DOMAIN x
  PROVE  /\ WordEnd(x, i) \in i .. Len(x) /\ ~x[WordEnd(x, i)].glued
         /\ \A k \in i .. WordEnd(x, i) - 1 : x[k].glued
  <1> DEFINE ends == {j \in i .. Len(x) : ~x[j].glued}
  <1>1. Len(x) \in Nat /\ i \in 1 .. Len(x)
    BY DEF Text
  <1>2. ends \subseteq Nat /\ Len(x) \in ends
    BY <1>1 DEF Text
  <1>3. Min(ends) \in ends /\ \A y \in ends : Min(ends) <= y
    BY <1>2, MinIs
  <1>4. WordEnd(x, i) = Min(ends)
    BY DEF WordEnd
  <1>5. ASSUME NEW k \in i .. Min(ends) - 1
        PROVE  x[k].glued
    <2>1. k \in i .. Len(x) /\ k < Min(ends)
      BY <1>1, <1>3
    <2>2. k \notin ends
      BY <1>1, <1>3, <2>1
    <2> QED
      BY <2>1, <2>2
  <1> QED
    BY <1>1, <1>3, <1>4, <1>5

\* There is only one such token.
LEMMA WordEndOnly ==
  ASSUME NEW x, Text(x), NEW i \in DOMAIN x,
         NEW j \in i .. Len(x), ~x[j].glued, \A k \in i .. j - 1 : x[k].glued
  PROVE  WordEnd(x, i) = j
  <1>1. Len(x) \in Nat /\ i \in 1 .. Len(x)
    BY DEF Text
  <1> DEFINE e == WordEnd(x, i)
  <1>2. e \in i .. Len(x) /\ ~x[e].glued /\ \A k \in i .. e - 1 : x[k].glued
    BY WordEndIs
  <1> HIDE DEF e
  <1>3. ~(e < j)
    BY <1>1, <1>2
  <1>4. ~(j < e)
    BY <1>1, <1>2
  <1> QED
    BY <1>1, <1>2, <1>3, <1>4 DEF e

-----------------------------------------------------------------------------
(* Markers.                                                                *)

LEMMA UnverifiedIn ==
  ASSUME NEW x, NEW L
  PROVE  Unverified(x, L) \subseteq DOMAIN x
  BY DEF Unverified, Claims

\* The markers of a part of a text stand in it.
LEMMA MarksIn ==
  ASSUME NEW y, Text(y), NEW offset \in Nat,
         NEW bad, bad \subseteq 1 .. offset + Len(y)
  PROVE  MarkClaims(y, bad, offset) \subseteq DOMAIN y
  <1>1. Len(y) \in Nat /\ DOMAIN y = 1 .. Len(y)
    BY DEF Text
  <1>2. ASSUME NEW i \in bad, i > offset
        PROVE  WordEnd(y, i - offset) \in DOMAIN y
    <2>1. i \in 1 .. offset + Len(y)
      OBVIOUS
    <2>2. i - offset \in DOMAIN y
      BY <1>1, <1>2, <2>1
    <2>3. WordEnd(y, i - offset) \in i - offset .. Len(y)
      BY <2>2, WordEndIs
    <2> QED
      BY <1>1, <2>2, <2>3
  <1> QED
    BY <1>2 DEF MarkClaims

\* Every claim given has a marker in its word, and every marker such a claim.
LEMMA MarksStand ==
  ASSUME NEW x, Text(x), NEW bad, bad \subseteq DOMAIN x
  PROVE  /\ \A i \in bad : \E j \in MarkClaims(x, bad, 0) : SameWord(x, i, j)
         /\ \A j \in MarkClaims(x, bad, 0) : \E i \in bad : SameWord(x, i, j)
  <1>1. Len(x) \in Nat /\ DOMAIN x = 1 .. Len(x)
    BY DEF Text
  <1>2. ASSUME NEW i \in bad
        PROVE  i > 0 /\ i - 0 = i /\ SameWord(x, i, WordEnd(x, i))
    <2>1. i \in DOMAIN x /\ i \in 1 .. Len(x)
      BY <1>1
    <2>2. WordEnd(x, i) \in i .. Len(x) /\ \A k \in i .. WordEnd(x, i) - 1 : x[k].glued
      BY <2>1, WordEndIs
    <2> QED
      BY <2>1, <2>2 DEF SameWord
  <1>3. MarkClaims(x, bad, 0) = {WordEnd(x, i) : i \in bad}
    BY <1>2 DEF MarkClaims
  <1> QED
    BY <1>2, <1>3

\* The markers of an answer are those of the joined text that stand in it.
LEMMA PartMarks ==
  ASSUME NEW p, NEW c, Text(p), Text(c),
         NEW w, w = Join(p, c), NEW bad, bad \subseteq DOMAIN w
  PROVE  LET offset == Len(w) - Len(c)
         IN MarkClaims(c, bad, offset) = {j - offset : j \in {m \in MarkClaims(w, bad, 0) : m > offset}}
  <1> DEFINE offset == Len(w) - Len(c)
  <1>1. /\ Text(w) /\ offset \in Nat
        /\ \A j \in 1 .. Len(c) : w[offset + j] = c[j]
        /\ offset > 0 => ~w[offset].glued
    BY JoinIs
  <1>2. Len(w) \in Nat /\ DOMAIN w = 1 .. Len(w) /\ Len(c) \in Nat /\ DOMAIN c = 1 .. Len(c)
    BY <1>1 DEF Text
  <1>3. Len(w) = offset + Len(c) /\ bad \subseteq 1 .. Len(w)
    BY <1>1, <1>2
  <1>9. offset \in Nat
    BY <1>1
  <1> HIDE DEF offset
  <1>4. ASSUME NEW i \in bad, i <= offset
        PROVE  WordEnd(w, i) <= offset
    <2>1. i \in 1 .. Len(w)
      BY <1>3
    <2>2. WordEnd(w, i) \in i .. Len(w) /\ \A k \in i .. WordEnd(w, i) - 1 : w[k].glued
      BY <1>1, <1>2, <2>1, WordEndIs
    <2>3. offset > 0 /\ offset >= i
      BY <1>4, <1>9, <2>1
    <2>4. ~(WordEnd(w, i) > offset)
      BY <1>1, <1>9, <2>1, <2>2, <2>3
    <2> QED
      BY <1>9, <2>1, <2>2, <2>4
  <1>5. ASSUME NEW i \in bad, i > offset
        PROVE  WordEnd(w, i) > offset /\ WordEnd(c, i - offset) = WordEnd(w, i) - offset
    <2> DEFINE e == WordEnd(w, i)
    <2>1. i \in 1 .. Len(w)
      BY <1>3
    <2>2. e \in i .. Len(w) /\ ~w[e].glued /\ \A k \in i .. e - 1 : w[k].glued
      BY <1>1, <1>2, <2>1, WordEndIs
    <2> HIDE DEF e
    <2>3. i - offset \in 1 .. Len(c) /\ e - offset \in i - offset .. Len(c) /\ e > offset
      BY <1>2, <1>3, <1>5, <1>9, <2>1, <2>2
    <2>4. \A j \in 1 .. Len(c) : c[j] = w[offset + j]
      BY <1>1
    <2>5. ~c[e - offset].glued
      <3>1. e - offset \in 1 .. Len(c) /\ offset + (e - offset) = e
        BY <1>2, <1>9, <2>1, <2>2, <2>3
      <3>2. c[e - offset] = w[e]
        BY <2>4, <3>1
      <3> QED
        BY <2>2, <3>2
    <2>6. ASSUME NEW k \in i - offset .. (e - offset) - 1
          PROVE  c[k].glued
      <3>1. k \in 1 .. Len(c) /\ offset + k \in i .. e - 1
        BY <1>2, <1>9, <2>1, <2>2, <2>3
      <3> QED
        BY <2>2, <2>4, <3>1
    <2>7. WordEnd(c, i - offset) = e - offset
      BY <1>2, <2>3, <2>5, <2>6, WordEndOnly
    <2> QED
      BY <2>3, <2>7 DEF e
  <1>6. MarkClaims(w, bad, 0) = {WordEnd(w, i) : i \in bad}
    <2>1. \A i \in bad : i > 0 /\ i - 0 = i
      BY <1>2, <1>3
    <2> QED
      BY <2>1 DEF MarkClaims
  <1>7. MarkClaims(c, bad, offset) = {WordEnd(w, i) - offset : i \in {j \in bad : j > offset}}
    BY <1>5 DEF MarkClaims
  <1>8. {m \in MarkClaims(w, bad, 0) : m > offset} = {WordEnd(w, i) : i \in {j \in bad : j > offset}}
    <2>1. \A i \in bad : i \in Int /\ WordEnd(w, i) \in Int
      <3> TAKE i \in bad
      <3>1. i \in 1 .. Len(w)
        BY <1>3
      <3>2. WordEnd(w, i) \in i .. Len(w)
        BY <1>1, <1>2, <3>1, WordEndIs
      <3> QED
        BY <3>1, <3>2
    <2>2. \A i \in bad : WordEnd(w, i) > offset <=> i > offset
      BY <1>4, <1>5, <1>9, <2>1
    <2> QED
      BY <1>6, <2>2
  <1>10. MarkClaims(c, bad, offset) = {j - offset : j \in {m \in MarkClaims(w, bad, 0) : m > offset}}
    BY <1>7, <1>8
  <1> QED
    BY <1>10 DEF offset

-----------------------------------------------------------------------------
(* Sentences and their violations.                                         *)

\* A text has finitely many sentences, so its violations can be counted.
LEMMA ViolationsCounted ==
  ASSUME NEW x, Text(x)
  PROVE  /\ Cardinality(Violations(x)) \in Nat
         /\ Cardinality(Violations(x)) = 0 <=> Violations(x) = {}
  <1> DEFINE stops == {j \in DOMAIN x : x[j].t = "stop"}
             ends == stops \union (IF x = <<>> THEN {} ELSE {Len(x)})
             start(e) == Max({0} \union {j \in stops : j < e}) + 1
             f == [e \in ends |-> start(e) .. e]
  <1>1. IsFiniteSet(ends)
    <2>1. Len(x) \in Nat /\ DOMAIN x = 1 .. Len(x)
      BY DEF Text
    <2>2. x # <<>> => Len(x) \in 1 .. Len(x)
      BY <2>1 DEF Text
    <2>3. ends \subseteq 1 .. Len(x)
      BY <2>1, <2>2
    <2> HIDE DEF ends
    <2>4. IsFiniteSet(1 .. Len(x)) /\ ends \in SUBSET (1 .. Len(x))
      BY <2>1, <2>3, FS_Interval
    <2> QED
      BY <2>4, FS_Subset
  <1>2. Sentences(x) = {start(e) .. e : e \in ends}
    BY DEF Sentences
  <1>3. f \in Surjection(ends, Sentences(x))
    <2> HIDE DEF ends, start
    <2> QED
      BY <1>2 DEF Surjection
  <1>4. IsFiniteSet(Sentences(x))
    <2> HIDE DEF ends, f
    <2> QED
      BY <1>1, <1>3, FS_Surjection
  <1>5. IsFiniteSet(Violations(x))
    BY <1>4, FS_Subset DEF Violations
  <1> QED
    BY <1>5, FS_CardinalityType, FS_EmptySet

-----------------------------------------------------------------------------
(* The evidence of a verified number.                                      *)

LEMMA NumbersTyped ==
  ASSUME NEW x, Text(x), NEW i \in DOMAIN x, x[i].t \in {"num", "year"}
  PROVE  x[i].v \in Int /\ x[i].scale \in Nat \ {0}
  <1>1. x[i] \in Token
    BY ElementOfSeq DEF Text
  <1>2. Line.t = "line" /\ Withheld[1].t = "exempt" /\ Refusal[1].t = "exempt" /\ Refusal[2].t = "word"
    BY DEF Line, Withheld, Refusal
  <1>3. PICK y \in Preludes \union Candidates \union Rewrites : \E j \in DOMAIN y : x[i] = y[j]
    BY <1>1, <1>2 DEF Token
  <1> QED
    BY <1>3, TextsAssumption

\* An interpretation is a multiple of the value.
LEMMA InterpretationIs ==
  ASSUME NEW tok, NEW e, NEW c \in Interpretations(tok, e), e.v \in Int
  PROVE  \E factor \in (IF tok.unit = "bps" THEN {10000} ELSE {1, 100}) : c = factor * e.v
  <1>1. c \in {100 * e.v, e.v} \/ (tok.unit = "bps" /\ c = 10000 * e.v)
    BY DEF Interpretations
  <1>2. tok.unit = "bps" => c = 10000 * e.v
    BY DEF Interpretations
  <1>3. e.v = 1 * e.v
    OBVIOUS
  <1> QED
    BY <1>1, <1>2, <1>3

\* A match is close to an interpretation in magnitude, and a decline that
\* is not a drawdown matches a negative one.
LEMMA MatchIs ==
  ASSUME NEW tok, NEW sign, NEW e, NEW f, Match(tok, sign, e, f) = "match",
         tok.v \in Int, tok.scale \in Nat \ {0}, e.v \in Int
  PROVE  \E c \in Interpretations(tok, e) :
           /\ Close(tok, Abs(c), Abs(tok.v * tok.scale))
           /\ sign = "decline" /\ tok.v > 0 /\ "drawdown" \notin {f, e.field} => c < 0
  <1> DEFINE v == tok.v * tok.scale
             h == Ulp(tok.d) * tok.scale
             magnitude == Magnitude(sign, e, f)
  <1>1. PICK c \in Interpretations(tok, e) : Hits(tok, sign, magnitude, c)
    BY DEF Match, None
  <1>2. v \in Int /\ (tok.v > 0 => v > 0)
    OBVIOUS
  <1>3. c \in Int
    BY InterpretationIs
  <1>4. h \in Int
    BY DEF Ulp
  <1>5. \A a, b : Close(tok, a, b) <=> 2 * Abs(a - b) <= h
    BY DEF Close
  <1>6. Hits(tok, sign, magnitude, c) = CASE magnitude -> Close(tok, Abs(c), Abs(v))
          [] ~magnitude /\ sign = "decline" /\ v > 0 -> c < 0 /\ Close(tok, -c, v)
          [] ~magnitude /\ sign = "rise" /\ v > 0 /\ c < 0 -> FALSE
          [] OTHER -> Close(tok, c, v)
    BY DEF Hits
  <1>7. magnitude \in BOOLEAN /\ ("drawdown" \notin {f, e.field} => ~magnitude)
    BY DEF Magnitude
  <1> HIDE DEF v, h, magnitude
  <1>8. Close(tok, Abs(c), Abs(v)) /\ (~magnitude /\ sign = "decline" /\ v > 0 => c < 0)
    <2>1. CASE magnitude
      BY <1>1, <1>6, <2>1
    <2>2. CASE ~magnitude /\ sign = "decline" /\ v > 0
      <3>1. c < 0 /\ Close(tok, -c, v)
        BY <1>1, <1>6, <2>2
      <3>2. Abs(c) = -c /\ Abs(v) = v
        BY <1>2, <1>3, <2>2, <3>1 DEF Abs
      <3> QED
        BY <3>1, <3>2
    <2>3. CASE ~magnitude /\ sign = "rise" /\ v > 0 /\ c < 0
      BY <1>1, <1>6, <2>3
    <2>4. CASE ~magnitude /\ ~(sign = "decline" /\ v > 0) /\ ~(sign = "rise" /\ v > 0 /\ c < 0)
      <3>1. Close(tok, c, v)
        BY <1>1, <1>6, <2>4
      <3>2. Abs(Abs(c) - Abs(v)) <= Abs(c - v) /\ Abs(Abs(c) - Abs(v)) \in Int /\ Abs(c - v) \in Int
        BY <1>2, <1>3 DEF Abs
      <3> QED
        BY <1>4, <1>5, <2>4, <3>1, <3>2
    <2> QED
      BY <2>1, <2>2, <2>3, <2>4
  <1> QED
    BY <1>2, <1>7, <1>8 DEF v

\* The companies the sentence of a position names.
NamedIn(x, i, L) == {Mentioned(x[m], L) : m \in SentenceAt(x, i)} \ {None}

\* The subject of a claim whose sentence is about one company is that company.
LEMMA SubjectIs ==
  ASSUME NEW x, Text(x), NEW L, NEW i \in Claims(x, L), x[i].cell = NoCell,
         NEW s, NamedIn(x, i, L) = {s}
  PROVE  SubjectOf(x, i, L) = s
  <1> DEFINE here == SentenceAt(x, i)
             said == Mentions(x, L) \intersect here
             first == {m \in said : ~\E n \in said : n < m /\ Mentioned(x[n], L) = Mentioned(x[m], L)}
             counts == Quantities(x, L) \intersect here
             place == {m \in first : Cardinality({n \in first : n <= m}) = Cardinality({q \in counts : q <= i})}
             before == {m \in said : m < i}
             after == {m \in said : m > i}
             turn == (\E j \in here : IsWord(x, j, {"respectively"}))
                       /\ Cardinality(first) = Cardinality(counts) /\ i \in counts
  <1>1. Len(x) \in Nat /\ DOMAIN x = 1 .. Len(x) /\ i \in 1 .. Len(x)
    BY DEF Text, Claims
  <1>2. said \subseteq 1 .. Len(x)
    BY <1>1 DEF Mentions
  <1>3. said # {} /\ \A m \in said : Mentioned(x[m], L) = s
    <2>1. PICK m \in here : Mentioned(x[m], L) = s /\ s # None
      BY DEF NamedIn
    <2>2. here \subseteq DOMAIN x
      BY DEF SentenceAt, Around
    <2>3. m \in said
      BY <2>1, <2>2 DEF Mentions
    <2>4. \A n \in said : Mentioned(x[n], L) \in NamedIn(x, i, L)
      BY DEF NamedIn, Mentions
    <2> QED
      BY <2>3, <2>4
  <1>4. LabelSubject(x[i].cell, L) = None
    BY DEF LabelSubject, NoCell
  <1>5. i \notin said
    <2>1. x[i].t \in {"num", "year", "time"}
      BY DEF Claims, IsQuantity, IsTime
    <2>2. Mentioned(x[i], L) = None
      BY <2>1 DEF Mentioned
    <2> QED
      BY <2>2 DEF Mentions
  <1>6. before # {} \/ after # {}
    BY <1>1, <1>2, <1>3, <1>5
  <1>12. \A m \in said : m \in 1 .. Len(x) /\ m \in Nat /\ m \in 0 .. Len(x)
    BY <1>1, <1>2
  <1> HIDE DEF said
  <1>7. before # {} => Mentioned(x[Max(before)], L) = s
    <2> SUFFICES ASSUME before # {} PROVE Max(before) \in said
      BY <1>3
    <2>1. before \subseteq 0 .. Len(x)
      BY <1>12
    <2>2. before \subseteq said
      OBVIOUS
    <2> HIDE DEF before
    <2> QED
      BY <1>1, <2>1, <2>2, MaxIs
  <1>8. after # {} => Mentioned(x[Min(after)], L) = s
    <2> SUFFICES ASSUME after # {} PROVE Min(after) \in said
      BY <1>3
    <2>1. after \subseteq Nat /\ after \subseteq said
      BY <1>12
    <2> HIDE DEF after
    <2> QED
      BY <2>1, MinIs
  <1>9. turn => Mentioned(x[The(place)], L) = s
    <2> SUFFICES ASSUME turn PROVE place # {}
      BY <1>3 DEF The
    <2>1. said \subseteq Nat
      BY <1>2
    <2>2. PICK m \in said : \A n \in said : m <= n
      BY <1>3, <2>1, MinIs
    <2>3. first = {m}
      <3>1. \A n \in said : n \in Nat /\ m \in Nat /\ m <= n
        BY <1>12, <2>2
      <3>2. m \in first
        BY <3>1
      <3>3. ASSUME NEW n \in first
            PROVE  n = m
        <4>1. n \in said /\ ~(m < n /\ Mentioned(x[m], L) = Mentioned(x[n], L))
          BY <2>2
        <4>2. Mentioned(x[m], L) = Mentioned(x[n], L)
          BY <1>3, <2>2, <4>1
        <4> QED
          BY <3>1, <4>1, <4>2
      <3> QED
        BY <3>2, <3>3
    <2>4. Cardinality(first) = 1
      BY <2>3, FS_Singleton
    <2>5. Cardinality(counts) = 1 /\ i \in counts
      BY <2>4
    <2>6. counts \subseteq 1 .. Len(x)
      BY <1>1 DEF Quantities
    <2> HIDE DEF counts
    <2>7. IsFiniteSet(counts)
      <3>1. IsFiniteSet(1 .. Len(x)) /\ counts \in SUBSET (1 .. Len(x))
        BY <1>1, <2>6, FS_Interval
      <3> QED
        BY <3>1, FS_Subset
    <2>8. counts = {i}
      BY <2>5, <2>7, FS_Singleton
    <2>9. {q \in counts : q <= i} = {i} /\ {n \in first : n <= m} = {m}
      BY <1>1, <1>2, <2>3, <2>8
    <2>10. Cardinality({q \in counts : q <= i}) = 1 /\ Cardinality({n \in first : n <= m}) = 1
      BY <2>9, FS_Singleton
    <2>11. m \in first
      BY <2>3
    <2> HIDE DEF first
    <2> QED
      BY <2>10, <2>11
  <1> DEFINE earlier == {m \in Mentions(x, L) \intersect ParagraphAt(x, i) : m < i}
  <1>13. SubjectOf(x, i, L) =
           IF LabelSubject(x[i].cell, L) # None THEN LabelSubject(x[i].cell, L)
           ELSE IF turn THEN Mentioned(x[The(place)], L)
           ELSE IF before # {} THEN Mentioned(x[Max(before)], L)
           ELSE IF after # {} THEN Mentioned(x[Min(after)], L)
           ELSE IF earlier # {} THEN Mentioned(x[Max(earlier)], L) ELSE None
    BY DEF SubjectOf, said
  <1> HIDE DEF place, before, after, turn, earlier
  <1>10. CASE turn
    BY <1>4, <1>9, <1>10, <1>13
  <1>11. CASE ~turn
    BY <1>4, <1>6, <1>7, <1>8, <1>11, <1>13
  <1> QED
    BY <1>10, <1>11

\* A number with a field that is verified rests on a match in its scope.
LEMMA FieldedIs ==
  ASSUME NEW x, NEW i, NEW f, NEW subject, NEW L, VerifyFielded(x, i, f, subject, L) = "ok"
  PROVE  \E e \in Entries(L) :
           /\ Compatible(f, e.field) /\ Own(e.subject, subject)
           /\ \/ Match(x[i], Sign(x, i), e, f) = "match"
              \/ Sign(x, i) = None /\ Match(x[i], ComparedSign(x, i, L), e, f) = "match"
  <1> DEFINE sign == IF f = "price_change" /\ Sign(x, i) = None /\ x[i].v > 0
                     THEN ComparedSign(x, i, L) ELSE Sign(x, i)
             scope == InScope(x, i, f, subject, L)
             kinds == {Match(x[i], sign, e, f) : e \in scope}
  <1>1. "match" \in kinds
    <2> HIDE DEF sign, scope
    <2> HIDE DEF kinds
    <2> QED
      BY DEF VerifyFielded, kinds, scope, sign
  <1>2. PICK e \in scope : Match(x[i], sign, e, f) = "match"
    BY <1>1
  <1>3. scope \subseteq {d \in Entries(L) : Compatible(f, d.field) /\ Own(d.subject, subject)}
    BY DEF InScope
  <1>4. sign = Sign(x, i) \/ (Sign(x, i) = None /\ sign = ComparedSign(x, i, L))
    OBVIOUS
  <1> HIDE DEF sign, scope
  <1>5. e \in Entries(L) /\ Compatible(f, e.field) /\ Own(e.subject, subject)
    BY <1>3
  <1> QED
    BY <1>2, <1>4, <1>5

\* A quantity with a field and outside a quotation is verified by its field.
LEMMA QuantityVerified ==
  ASSUME NEW x, NEW L, L \subseteq Results, NEW i \in Quantities(x, L),
         i \notin Unverified(x, L), Fields(x, L)[i] # None, x[i].quote = None
  PROVE  VerifyFielded(x, i, Fields(x, L)[i], SubjectOf(x, i, L), L) = "ok"
  <1> DEFINE f == Fields(x, L)
  <1>1. i \in Claims(x, L)
    BY DEF Quantities, Claims
  <1>2. Verify(x, i, f[i], L) = "ok"
    BY <1>1 DEF Unverified
  <1>3. ~IsTime(x, i)
    BY DEF Quantities, IsQuantity, IsTime
  <1>4. None \notin Texts(L)
    BY ResultsAssumption DEF Texts, None
  <1> HIDE DEF f
  <1>5. Verify(x, i, f[i], L) = VerifyFielded(x, i, f[i], SubjectOf(x, i, L), L)
    BY <1>3, <1>4 DEF Verify, VerifyAlone, Quoted, f
  <1> QED
    BY <1>2, <1>5 DEF f

\* A number right after a word of decline, with no noun of its own, declines.
LEMMA SignIs ==
  ASSUME NEW x, Text(x), NEW i \in DOMAIN x, x[i].noun = None, IsWord(x, i - 1, Declines)
  PROVE  Sign(x, i) = "decline"
  <1>1. Len(x) \in Nat /\ DOMAIN x = 1 .. Len(x) /\ i \in 1 .. Len(x) /\ i - 1 \in 1 .. Len(x)
    BY DEF Text, IsWord
  <1>2. x[i - 1].t = "word" /\ x[i - 1].k \in Declines
    BY DEF IsWord
  <1>3. ~IsWord(x, i - 1, {"level"})
    BY <1>2 DEF IsWord, Declines
  <1>4. i - 1 \in ClauseAt(x, i)
    <2>1. \A k \in i - 1 .. i - 1 : x[k].t \notin ClauseBreaks
      BY <1>1, <1>2 DEF ClauseBreaks, SentenceBreaks
    <2>2. i .. (i - 1) - 1 = {} /\ (i - 1) .. i - 1 = i - 1 .. i - 1
      BY <1>1
    <2> QED
      BY <1>1, <2>1, <2>2 DEF ClauseAt, Around
  <1>5. i - 1 < i /\ i - (i - 1) <= 4 /\ \A k \in i - 1 .. i - 1 : ~HasDigits(x[k])
    BY <1>1, <1>2 DEF HasDigits
  <1>6. IsWord(x, i - 1, Declines)
    OBVIOUS
  <1> QED
    BY <1>3, <1>4, <1>5, <1>6 DEF Sign

\* A time outside a quotation is verified as a time.
LEMMA TimeVerified ==
  ASSUME NEW x, NEW L, L \subseteq Results, NEW i \in Claims(x, L),
         i \notin Unverified(x, L), x[i].t = "time", x[i].quote = None
  PROVE  VerifyTime(x, i, SubjectOf(x, i, L), L) = "ok"
  <1> DEFINE f == Fields(x, L)
  <1>1. Verify(x, i, f[i], L) = "ok"
    BY DEF Unverified
  <1>2. IsTime(x, i)
    BY DEF IsTime
  <1>3. None \notin Texts(L)
    BY ResultsAssumption DEF Texts, None
  <1> HIDE DEF f
  <1>4. Verify(x, i, f[i], L) = VerifyTime(x, i, SubjectOf(x, i, L), L)
    BY <1>2, <1>3 DEF Verify, VerifyAlone, Quoted
  <1> QED
    BY <1>1, <1>4

\* A verified time is an instant of a result of its subject, or of nobody.
LEMMA HappenedIs ==
  ASSUME NEW x, NEW i, NEW s, s # None, NEW L, x[i].t = "time", VerifyTime(x, i, s, L) = "ok"
  PROVE  \E r \in L : r.symbol \in {None, s} /\ Happened(x, i, r)
  <1> DEFINE own == {n \in Instants(L) : Own(n.subject, s)}
             named == {j \in SentenceAt(x, i) : x[j].t = "time" /\ x[j].level = 3}
             day == IF x[i].day # 0 THEN x[i].day ELSE IF named = {} THEN 0 ELSE x[Min(named)].day
             sameTime(n) ==
               /\ n.time.level > 3 /\ day \in {0, n.time.day} /\ n.time.minute = x[i].minute
               /\ (x[i].level = 5 /\ n.time.level = 5) => n.time.second = x[i].second
  <1>1. \E n \in own : IF x[i].level = 3 THEN n.time.day = day ELSE sameTime(n) /\ x[i].level <= n.time.level
    <2>1. CASE x[i].level = 3
      BY <2>1, Zenon DEF VerifyTime
    <2>2. CASE x[i].level # 3
      BY <2>2, Zenon DEF VerifyTime
    <2> QED
      BY <2>1, <2>2
  <1>2. PICK n \in own : IF x[i].level = 3 THEN n.time.day = day ELSE sameTime(n) /\ x[i].level <= n.time.level
    BY <1>1
  <1>3. PICK r \in L : \E w \in r.times : n = [time |-> w, subject |-> r.symbol]
    BY DEF Instants
  <1>4. PICK w \in r.times : n = [time |-> w, subject |-> r.symbol]
    BY <1>3
  <1>5. r.symbol \in {None, s}
    BY <1>4 DEF Own
  <1>6. x[i].day \in {0, w.day}
    <2>1. x[i].day # 0 => day = x[i].day
      OBVIOUS
    <2> HIDE DEF day
    <2> QED
      BY <1>2, <1>4, <2>1
  <1>7. x[i].level > 3 => w.level >= x[i].level /\ w.minute = x[i].minute
    BY <1>2, <1>4
  <1> QED
    BY <1>5, <1>6, <1>7 DEF Happened

\* A verified number with a field is a number of a result of its subject.
LEMMA ReturnedIs ==
  ASSUME NEW x, Text(x), NEW L, L \subseteq Results, NEW i \in Quantities(x, L),
         NEW f, NEW s, s # None, VerifyFielded(x, i, f, s, L) = "ok"
  PROVE  \E r \in L : r.symbol \in {None, s} /\ Returned(x, i, f, r)
  <1> DEFINE factors == IF x[i].unit = "bps" THEN {10000} ELSE {1, 100}
             fell == /\ IsWord(x, i - 1, Declines) /\ x[i].v > 0
                     /\ f # "drawdown" /\ x[i].noun = None
  <1>1. i \in DOMAIN x /\ x[i].t \in {"num", "year"}
    BY DEF Quantities, IsQuantity
  <1>2. PICK e \in Entries(L) :
          /\ Compatible(f, e.field) /\ Own(e.subject, s)
          /\ \/ Match(x[i], Sign(x, i), e, f) = "match"
             \/ Sign(x, i) = None /\ Match(x[i], ComparedSign(x, i, L), e, f) = "match"
    BY FieldedIs
  <1>3. PICK r \in L : \E leaf \in r.leaves : e = EntryOf(r, leaf)
    BY DEF Entries
  <1>4. PICK leaf \in r.leaves : e = EntryOf(r, leaf)
    BY <1>3
  <1>5. e.v = leaf.v /\ e.subject = r.symbol /\ leaf.v \in Int
    BY <1>4, ResultsAssumption DEF EntryOf
  <1>6. r.symbol \in {None, s}
    BY <1>2, <1>5 DEF Own
  <1>7. x[i].v \in Int /\ x[i].scale \in Nat \ {0}
    BY <1>1, NumbersTyped
  <1>8. PICK c \in Interpretations(x[i], e) :
          /\ Close(x[i], Abs(c), Abs(x[i].v * x[i].scale))
          /\ Sign(x, i) = "decline" /\ x[i].v > 0 /\ "drawdown" \notin {f, e.field} => c < 0
    <2>1. CASE Match(x[i], Sign(x, i), e, f) = "match"
      BY <1>5, <1>7, <2>1, MatchIs
    <2>2. CASE Sign(x, i) = None /\ Match(x[i], ComparedSign(x, i, L), e, f) = "match"
      BY <1>5, <1>7, <2>2, MatchIs DEF None
    <2> QED
      BY <1>2, <2>1, <2>2
  <1>9. PICK factor \in factors : c = factor * leaf.v
    BY <1>5, InterpretationIs
  <1>10. fell => leaf.v < 0
    <2> SUFFICES ASSUME fell PROVE leaf.v < 0
      OBVIOUS
    <2>1. Sign(x, i) = "decline"
      BY <1>1, SignIs
    <2>2. "drawdown" \notin {f, e.field}
      BY <1>2 DEF Compatible, PriceFields
    <2>3. c < 0
      BY <1>8, <2>1, <2>2
    <2>4. factor \in {1, 100, 10000}
      BY <1>9
    <2> QED
      BY <1>5, <1>9, <2>3, <2>4
  <1> QED
    BY <1>6, <1>8, <1>9, <1>10 DEF Returned

-----------------------------------------------------------------------------
(* The turn.                                                               *)

\* A turn about to show or to revise has judged all that would be seen
\* against the ledger it ends with; it shows what is withheld or has no
\* violations.
Judged ==
  /\ pc \in {"show", "revise"} => verdict = RunPostCheck(Combined, ledger)
  /\ pc = "show" => verdict.withheld \/ verdict.violations = 0

\* The markers on the screen are those of the claims the ledger does not
\* verify.
Seen ==
  shown.kind \in {"answer", "refused"} =>
    /\ Text(shown.text)
    /\ shown.marks = MarkClaims(shown.text, Unverified(shown.text, ledger), 0)

IInv == TypeOK /\ Judged /\ Seen /\ NothingUnsafe

LEMMA CombinedIs ==
  Combined = Join(prelude, candidate)
  BY DEF Combined, Join

LEMMA TypedTexts ==
  ASSUME TypeOK
  PROVE  Text(prelude) /\ Text(candidate) /\ Text(Combined)
  <1>1. Text(prelude) /\ Text(candidate)
    BY WrittenIsText, ConstantTexts DEF TypeOK
  <1> QED
    BY <1>1, JoinIs, CombinedIs

LEMMA Judging ==
  ASSUME NEW x, Text(x), NEW L
  PROVE  LET v == RunPostCheck(x, L) IN
         /\ v.unverified = Unverified(x, L) /\ v.unverified \subseteq DOMAIN x
         /\ v.withheld = ~English(x) /\ v.withheld \in BOOLEAN
         /\ v.violations \in Nat /\ (v.violations = 0 => Violations(x) = {})
  <1>1. English(x) \in BOOLEAN
    BY DEF English
  <1> QED
    BY <1>1, UnverifiedIn, ViolationsCounted DEF RunPostCheck

\* What a rewrite becomes is a text without violations, or the refusal.
LEMMA RegeneratedIs ==
  ASSUME NEW z, Text(z)
  PROVE  Text(Regenerated(z)) /\ (Regenerated(z) = Refusal \/ Violations(Regenerated(z)) = {})
  BY ConstantTexts DEF Regenerated

\* A turn's count is a number, so the session is aborted or within its budget.
LEMMA CountedIs ==
  ASSUME TypeOK, Show \/ Revise
  PROVE  epistemicTotal' \in Nat /\ (~Aborted' <=> epistemicTotal' <= EpistemicLimit)
  <1>1. epistemicTotal \in Nat /\ verdict.violations \in Nat
    BY DEF TypeOK
  <1>2. ASSUME Show PROVE epistemicTotal' \in Nat
    <2>1. epistemicTotal' = epistemicTotal + verdict.violations
      BY <1>2 DEF Show, RecordVerdict
    <2> QED
      BY <1>1, <2>1
  <1>3. ASSUME Revise PROVE epistemicTotal' \in Nat
    <2>1. PICK rewrite \in Rewrites \union {<<>>} :
            LET y == Regenerated(IF Blank(rewrite) THEN Combined ELSE rewrite)
            IN ShowRewrite(y, RunPostCheck(y, ledger))
      BY <1>3 DEF Revise
    <2> DEFINE y == Regenerated(IF Blank(rewrite) THEN Combined ELSE rewrite)
               check == RunPostCheck(y, ledger)
    <2>2. Text(IF Blank(rewrite) THEN Combined ELSE rewrite)
      BY TypedTexts, WrittenIsText, ConstantTexts
    <2>3. Text(y)
      BY <2>2, RegeneratedIs
    <2>4. check.violations \in Nat
      <3> HIDE DEF y
      <3> QED
        BY <2>3, Judging
    <2>5. ShowRewrite(y, check)
      BY <2>1
    <2> HIDE DEF y, check
    <2> DEFINE n == IF check.withheld THEN check.violations ELSE verdict.violations
    <2>6. epistemicTotal' = epistemicTotal + n
      BY <2>5, Zenon DEF ShowRewrite, RecordVerdict
    <2>7. n \in Nat
      BY <1>1, <2>4
    <2> HIDE DEF n
    <2> QED
      BY <1>1, <2>6, <2>7
  <1>4. epistemicTotal' \in Nat
    BY <1>2, <1>3
  <1> QED
    BY <1>4, TurnsAssumption DEF Aborted

\* A step of Show: the line of a withheld response, or the answer.
LEMMA ShowIs ==
  ASSUME TypeOK, Judged, Show
  PROVE  \/ /\ shown' = Screen("withheld", Withheld, {}) /\ body' = shown'
            /\ report' = NoReport
         \/ LET bad == Unverified(Combined, ledger) IN
            /\ English(Combined) /\ Violations(Combined) = {}
            /\ shown' = Screen("answer", Combined, bad)
            /\ body' = [kind |-> "answer", text |-> candidate,
                        marks |-> MarkClaims(candidate, bad, Len(Combined) - Len(candidate))]
            /\ report' = Stored(shown', body', bad, Aborted')
  <1>1. Text(Combined)
    BY TypedTexts
  <1>2. /\ verdict = RunPostCheck(Combined, ledger)
        /\ verdict.withheld \/ verdict.violations = 0
    BY DEF Judged, Show
  <1>3. CASE verdict.withheld
    BY <1>3 DEF Show, Stored, Screen
  <1>4. CASE ~verdict.withheld
    <2>1. /\ verdict.unverified = Unverified(Combined, ledger)
          /\ English(Combined) /\ Violations(Combined) = {}
      BY <1>1, <1>2, <1>4, Judging
    <2> QED
      BY <1>4, <2>1 DEF Show
  <1> QED
    BY <1>3, <1>4

\* A step of Revise: the line of a withheld rewrite, or the rewrite.
LEMMA ReviseIs ==
  ASSUME TypeOK, Judged, Revise
  PROVE  /\ body' = shown'
         /\ \/ shown' = Screen("withheld", Withheld, {}) /\ report' = NoReport
            \/ \E y : LET bad == Unverified(y, ledger) IN
                 /\ Text(y) /\ English(y)
                 /\ shown' = Screen(IF y = Refusal THEN "refused" ELSE "answer", y, bad)
                 /\ y = Refusal \/ Violations(y) = {}
                 /\ report' = Stored(shown', body', bad, Aborted')
  <1>1. Text(Combined)
    BY TypedTexts
  <1>2. PICK rewrite \in Rewrites \union {<<>>} :
          LET y == Regenerated(IF Blank(rewrite) THEN Combined ELSE rewrite)
          IN ShowRewrite(y, RunPostCheck(y, ledger))
    BY DEF Revise
  <1> DEFINE y == Regenerated(IF Blank(rewrite) THEN Combined ELSE rewrite)
  <1>3. Text(y) /\ (y = Refusal \/ Violations(y) = {})
    <2>1. Text(IF Blank(rewrite) THEN Combined ELSE rewrite)
      BY <1>1, WrittenIsText, ConstantTexts
    <2> QED
      BY <2>1, RegeneratedIs
  <1> DEFINE check == RunPostCheck(y, ledger)
  <1>4. ShowRewrite(y, check)
    BY <1>2
  <1> HIDE DEF y
  <1>5. check.unverified = Unverified(y, ledger) /\ check.withheld = ~English(y)
    BY <1>3, Judging
  <1> HIDE DEF check
  <1>6. CASE English(y)
    BY <1>3, <1>4, <1>5, <1>6 DEF ShowRewrite
  <1>7. CASE ~English(y)
    BY <1>4, <1>5, <1>7 DEF ShowRewrite, Stored, Screen
  <1> QED
    BY <1>6, <1>7 DEF ShowRewrite

LEMMA Initially ==
  Init => IInv
  <1> SUFFICES ASSUME Init PROVE IInv
    OBVIOUS
  <1>1. TypeOK
    <2>1. 0 \in 0 .. MaxTurns
      BY TurnsAssumption
    <2> QED
      BY <2>1 DEF Init, TypeOK, NoVerdict, Nothing, NoReport
  <1>2. Judged /\ Seen /\ NothingUnsafe
    BY DEF Init, Judged, Seen, NothingUnsafe, Nothing
  <1> QED
    BY <1>1, <1>2 DEF IInv

\* The markers of a screen stand in its text.
LEMMA ScreenTyped ==
  ASSUME NEW kind, NEW x, Text(x), NEW bad, bad \subseteq DOMAIN x
  PROVE  LET s == Screen(kind, x, bad) IN
         s.kind = kind /\ s.text = x /\ s.marks = MarkClaims(x, bad, 0) /\ s.marks \subseteq DOMAIN x
  <1>1. Len(x) \in Nat /\ DOMAIN x = 1 .. Len(x)
    BY DEF Text
  <1>2. bad \subseteq 1 .. 0 + Len(x)
    BY <1>1
  <1> QED
    BY <1>2, MarksIn DEF Screen

LEMMA ShownTyped ==
  ASSUME TypeOK, Judged, Show \/ Revise
  PROVE  /\ shown'.kind \in {"nothing", "answer", "refused", "withheld"}
         /\ shown'.marks \subseteq DOMAIN shown'.text /\ body'.marks \subseteq DOMAIN body'.text
         /\ report'.stored \in BOOLEAN /\ report'.passed \in BOOLEAN
         /\ report'.marks \subseteq DOMAIN report'.text
  <1>1. Text(Withheld) /\ Text(Combined) /\ Text(candidate) /\ Text(prelude)
    BY ConstantTexts, TypedTexts
  <1>2. \A bad, aborted : LET r == Stored(shown', body', bad, aborted) IN
          /\ r.stored \in BOOLEAN /\ r.passed \in BOOLEAN
          /\ \/ r.marks \subseteq DOMAIN r.text
             \/ r.marks = body'.marks /\ r.text = body'.text
             \/ r.marks = shown'.marks /\ r.text = shown'.text
    BY DEF Stored, NoReport
  <1>3. NoReport.stored \in BOOLEAN /\ NoReport.passed \in BOOLEAN /\ NoReport.marks \subseteq DOMAIN NoReport.text
    BY DEF NoReport
  <1>4. CASE shown' = Screen("withheld", Withheld, {}) /\ body' = shown' /\ report' = NoReport
    <2>1. shown'.kind = "withheld" /\ shown'.text = Withheld /\ shown'.marks \subseteq DOMAIN Withheld
      BY <1>1, <1>4, ScreenTyped
    <2> QED
      BY <1>3, <1>4, <2>1
  <1>5. ASSUME NEW bad, bad = Unverified(Combined, ledger),
               shown' = Screen("answer", Combined, bad),
               body' = [kind |-> "answer", text |-> candidate,
                        marks |-> MarkClaims(candidate, bad, Len(Combined) - Len(candidate))],
               report' = Stored(shown', body', bad, Aborted')
        PROVE  /\ shown'.kind = "answer"
               /\ shown'.marks \subseteq DOMAIN shown'.text /\ body'.marks \subseteq DOMAIN body'.text
    <2>1. bad \subseteq DOMAIN Combined
      BY <1>5, UnverifiedIn
    <2>7. /\ Screen("answer", Combined, bad).kind = "answer" /\ Screen("answer", Combined, bad).text = Combined
          /\ Screen("answer", Combined, bad).marks \subseteq DOMAIN Combined
      BY <1>1, <2>1, ScreenTyped
    <2>2. shown'.kind = "answer" /\ shown'.text = Combined /\ shown'.marks \subseteq DOMAIN Combined
      BY <1>5, <2>7
    <2> DEFINE offset == Len(Combined) - Len(candidate)
    <2>3. offset \in Nat
      BY <1>1, JoinIs, CombinedIs
    <2>4. bad \subseteq 1 .. offset + Len(candidate)
      <3>1. DOMAIN Combined = 1 .. Len(Combined) /\ Len(Combined) \in Nat /\ Len(candidate) \in Nat
        BY <1>1 DEF Text
      <3>2. Len(Combined) = offset + Len(candidate)
        BY <3>1
      <3> QED
        BY <2>1, <3>1, <3>2
    <2> HIDE DEF offset
    <2>5. MarkClaims(candidate, bad, offset) \subseteq DOMAIN candidate
      BY <1>1, <2>3, <2>4, MarksIn
    <2>6. body'.text = candidate /\ body'.marks = MarkClaims(candidate, bad, offset)
      BY <1>5 DEF offset
    <2> QED
      BY <2>2, <2>5, <2>6
  <1>6. ASSUME NEW y, NEW bad, bad = Unverified(y, ledger), Text(y), body' = shown',
               shown' = Screen(IF y = Refusal THEN "refused" ELSE "answer", y, bad)
        PROVE  /\ shown'.kind \in {"answer", "refused"}
               /\ shown'.marks \subseteq DOMAIN shown'.text /\ body'.marks \subseteq DOMAIN body'.text
    <2>1. bad \subseteq DOMAIN y
      BY <1>6, UnverifiedIn
    <2> DEFINE kind == IF y = Refusal THEN "refused" ELSE "answer"
    <2>2. kind \in {"answer", "refused"}
      OBVIOUS
    <2> HIDE DEF kind
    <2>3. shown' = Screen(kind, y, bad)
      BY <1>6 DEF kind
    <2>4. shown'.kind = kind /\ shown'.text = y /\ shown'.marks \subseteq DOMAIN y
      BY <1>6, <2>1, <2>3, ScreenTyped
    <2> QED
      BY <1>6, <2>2, <2>4
  <1>7. CASE Show
    BY <1>2, <1>4, <1>5, <1>7, ShowIs
  <1>8. CASE Revise
    BY <1>2, <1>4, <1>6, <1>8, ReviseIs
  <1> QED
    BY <1>7, <1>8

LEMMA TypeStep ==
  ASSUME TypeOK, Judged, [Next]_vars
  PROVE  TypeOK'
  <1>1. CASE Ask
    <2>1. turns + 1 \in 0 .. MaxTurns
      BY <1>1, TurnsAssumption DEF TypeOK, Ask
    <2>2. ledger' \subseteq Results
      BY <1>1 DEF TypeOK, Ask
    <2>3. Combined' = Combined
      BY <1>1 DEF Ask, Combined
    <2>4. epistemicTotal' \in Nat /\ ~Aborted'
      BY <1>1 DEF TypeOK, Ask, Aborted
    <2> QED
      BY <1>1, <2>1, <2>2, <2>3, <2>4 DEF TypeOK, Ask, Nothing, NoReport
  <1>2. CASE Answer
    <2>1. prelude' \in Preludes /\ candidate' \in Candidates /\ Combined' = Join(prelude', candidate')
      BY <1>2 DEF Answer, Combined, Join
    <2>2. Text(Combined')
      BY <2>1, WrittenIsText, JoinIs
    <2>3. verdict' = RunPostCheck(Combined', ledger) /\ pc' \in {"revise", "show"}
      BY <1>2 DEF Answer
    <2>4. /\ verdict'.unverified \subseteq DOMAIN Combined'
          /\ verdict'.withheld \in BOOLEAN /\ verdict'.violations \in Nat
      BY <2>2, <2>3, Judging
    <2>5. epistemicTotal' \in Nat /\ ~Aborted'
      BY <1>2 DEF TypeOK, Answer, Aborted
    <2> QED
      BY <1>2, <2>1, <2>3, <2>4, <2>5 DEF TypeOK, Answer
  <1>3. CASE Show \/ Revise
    <2>1. EndTurn
      BY <1>3 DEF Show, Revise
    <2>2. {} \subseteq DOMAIN Combined' /\ 0 \in Nat
      OBVIOUS
    <2> QED
      BY <1>3, <2>1, <2>2, ShownTyped, CountedIs DEF TypeOK, EndTurn, NoVerdict
  <1>4. CASE UNCHANGED vars
    BY <1>4 DEF TypeOK, vars, Combined, Aborted
  <1> QED
    BY <1>1, <1>2, <1>3, <1>4 DEF Next

LEMMA JudgedStep ==
  ASSUME TypeOK, Judged, [Next]_vars
  PROVE  Judged'
  <1>1. CASE Ask
    BY <1>1 DEF Ask, Judged
  <1>2. CASE Answer
    <2>1. Combined' = Join(prelude', candidate') /\ prelude' \in Preludes /\ candidate' \in Candidates
      BY <1>2 DEF Answer, Combined, Join
    <2>2. Text(Combined')
      BY <2>1, WrittenIsText, JoinIs
    <2>3. verdict' = RunPostCheck(Combined', ledger) /\ ledger' = ledger
      BY <1>2 DEF Answer
    <2>4. verdict'.violations \in Nat
      BY <2>2, <2>3, Judging
    <2>5. pc' = IF verdict'.violations > 0 /\ ~verdict'.withheld THEN "revise" ELSE "show"
      BY <1>2 DEF Answer
    <2> QED
      BY <2>3, <2>4, <2>5 DEF Judged
  <1>3. CASE Show \/ Revise
    BY <1>3 DEF Show, Revise, EndTurn, Judged
  <1>4. CASE UNCHANGED vars
    BY <1>4 DEF Judged, vars, Combined
  <1> QED
    BY <1>1, <1>2, <1>3, <1>4 DEF Next

\* Nothing but an end of a turn puts an answer on the screen.
LEMMA ScreenGoesOn ==
  ASSUME [Next]_vars, ~Show, ~Revise
  PROVE  \/ shown' = Nothing /\ report' = NoReport
         \/ shown' = shown /\ report' = report /\ ledger' = ledger
  BY DEF Next, Ask, Answer, vars

LEMMA SeenStep ==
  ASSUME TypeOK, Judged, Seen, [Next]_vars
  PROVE  Seen'
  <1>1. CASE ~Show /\ ~Revise
    BY <1>1, ScreenGoesOn DEF Seen, Nothing
  <1>2. CASE shown' = Screen("withheld", Withheld, {})
    BY <1>2 DEF Seen, Screen
  <1>3. CASE Show /\ shown' = Screen("answer", Combined, Unverified(Combined, ledger))
    BY <1>3, TypedTexts DEF Seen, Screen, Show, EndTurn
  <1>4. ASSUME Revise, NEW y, Text(y),
               shown' = Screen(IF y = Refusal THEN "refused" ELSE "answer", y, Unverified(y, ledger))
        PROVE  Seen'
    BY <1>4 DEF Seen, Screen, Revise, EndTurn
  <1>5. CASE Show
    BY <1>2, <1>3, <1>5, ShowIs
  <1>6. CASE Revise
    BY <1>2, <1>4, <1>6, ReviseIs
  <1> QED
    BY <1>1, <1>5, <1>6

LEMMA SafeStep ==
  ASSUME TypeOK, Judged, NothingUnsafe, [Next]_vars
  PROVE  NothingUnsafe'
  <1>1. CASE ~Show /\ ~Revise
    BY <1>1, ScreenGoesOn DEF NothingUnsafe, Nothing
  <1>2. CASE shown' = Screen("withheld", Withheld, {})
    BY <1>2 DEF NothingUnsafe, Screen
  <1>3. ASSUME NEW x, NEW kind, NEW bad, shown' = Screen(kind, x, bad),
               English(x), kind = "answer" => Violations(x) = {}
        PROVE  NothingUnsafe'
    BY <1>3 DEF NothingUnsafe, Screen, Violations
  <1>4. CASE Show
    BY <1>2, <1>3, <1>4, ShowIs
  <1>5. CASE Revise
    <2>1. ASSUME NEW y, English(y), y = Refusal \/ Violations(y) = {},
                 shown' = Screen(IF y = Refusal THEN "refused" ELSE "answer", y, Unverified(y, ledger))
          PROVE  NothingUnsafe'
      <3>1. CASE y = Refusal
        BY <2>1, <3>1 DEF NothingUnsafe, Screen
      <3>2. CASE y # Refusal
        BY <1>3, <2>1, <3>2
      <3> QED
        BY <3>1, <3>2
    <2> QED
      BY <1>2, <1>5, <2>1, ReviseIs
  <1> QED
    BY <1>1, <1>4, <1>5

\* Where the answer begins in the joined text.
LEMMA OffsetIs ==
  ASSUME NEW p, NEW c, Text(p), Text(c)
  PROVE  Len(Join(p, c)) - Len(c) = IF p = <<>> THEN 0 ELSE Len(p) + 1
  <1>1. Line \in Token
    BY DEF Token
  <1>2. <<Line>> \in Seq(Token) /\ Len(<<Line>>) = 1
    BY <1>1
  <1>3. p \o <<Line>> \in Seq(Token) /\ Len(p \o <<Line>>) = Len(p) + 1
    BY <1>2, ConcatProperties DEF Text
  <1>4. Len(p \o <<Line>> \o c) = Len(p) + 1 + Len(c)
    BY <1>3, ConcatProperties DEF Text
  <1>5. Len(p) \in Nat /\ Len(c) \in Nat
    BY DEF Text
  <1> QED
    BY <1>4, <1>5 DEF Join

LEMMA Unshifted ==
  ASSUME NEW n \in Nat, NEW M, M \subseteq 1 .. n
  PROVE  M = {j - 0 : j \in {m \in M : m > 0}}
  <1>1. \A m \in M : m > 0 /\ m - 0 = m
    OBVIOUS
  <1> QED
    BY <1>1

\* When a report is stored, and what it says.
LEMMA StoredIs ==
  ASSUME NEW screen, NEW answer, NEW bad, NEW aborted \in BOOLEAN
  PROVE  LET displayed == IF answer.text # <<>> THEN answer ELSE screen
             r == Stored(screen, answer, bad, aborted)
         IN /\ r.stored <=> screen.kind = "answer" /\ ~aborted /\ ~Blank(displayed.text)
            /\ r.stored => /\ r.text = displayed.text /\ r.marks = displayed.marks
                           /\ r.passed = (bad = {})
  <1> DEFINE displayed == IF answer.text # <<>> THEN answer ELSE screen
             blank == Blank(displayed.text)
  <1>1. blank \in BOOLEAN
    BY DEF Blank
  <1>2. Stored(screen, answer, bad, aborted) =
          IF screen.kind = "answer" /\ ~aborted /\ ~blank
          THEN [stored |-> TRUE, text |-> displayed.text, marks |-> displayed.marks, passed |-> bad = {}]
          ELSE NoReport
    BY DEF Stored
  <1>3. NoReport.stored = FALSE
    BY DEF NoReport
  <1> HIDE DEF displayed
  <1> DEFINE kept == [stored |-> TRUE, text |-> displayed.text, marks |-> displayed.marks, passed |-> bad = {}]
  <1>4. kept.stored = TRUE /\ kept.text = displayed.text /\ kept.marks = displayed.marks /\ kept.passed = (bad = {})
    OBVIOUS
  <1>5. CASE screen.kind = "answer" /\ ~aborted /\ ~blank
    <2>1. Stored(screen, answer, bad, aborted) = kept
      BY <1>2, <1>5
    <2> HIDE DEF kept, blank
    <2>2. /\ Stored(screen, answer, bad, aborted).stored
          /\ Stored(screen, answer, bad, aborted).text = displayed.text
          /\ Stored(screen, answer, bad, aborted).marks = displayed.marks
          /\ Stored(screen, answer, bad, aborted).passed = (bad = {})
      BY <1>4, <2>1
    <2> QED
      BY <1>5, <2>2 DEF displayed, blank
  <1>6. CASE ~(screen.kind = "answer" /\ ~aborted /\ ~blank)
    <2>1. Stored(screen, answer, bad, aborted) = NoReport
      BY <1>2, <1>6
    <2> HIDE DEF blank
    <2> QED
      BY <1>3, <1>6, <2>1 DEF displayed, blank
  <1> QED
    BY <1>5, <1>6

\* The end of a turn stores what HonestReport says.
LEMMA ReportEnds ==
  ASSUME TypeOK, Judged, Show \/ Revise
  PROVE  HonestReport
  <1> DEFINE alone == pc = "show" /\ candidate # <<>>
             offset == IF alone /\ prelude # <<>> THEN Len(prelude) + 1 ELSE 0
             text == IF alone THEN candidate ELSE shown'.text
  <1>1. ledger' = ledger /\ Aborted' \in BOOLEAN /\ (~Aborted' <=> epistemicTotal' <= EpistemicLimit)
    BY CountedIs DEF Show, Revise, EndTurn, Aborted
  <1>2. SUFFICES /\ report'.stored <=> shown'.kind = "answer" /\ ~Aborted' /\ ~Blank(text)
                 /\ report'.stored =>
                      /\ report'.text = text
                      /\ report'.marks = {j - offset : j \in {m \in shown'.marks : m > offset}}
                      /\ report'.passed <=> Unverified(shown'.text, ledger) = {}
    <2> HIDE DEF alone, offset, text
    <2> QED
      BY <1>1 DEF HonestReport, alone, offset, text
  <1>3. CASE shown'.kind # "answer" /\ report' = NoReport
    BY <1>3 DEF NoReport
  <1>4. ASSUME NEW answer, NEW y, Text(y), shown'.text = y, shown'.kind \in {"answer", "refused"},
               NEW bad, bad = Unverified(y, ledger),
               report' = Stored(shown', answer, bad, Aborted'),
               LET displayed == IF answer.text # <<>> THEN answer ELSE shown' IN
                 /\ displayed.text = text
                 /\ displayed.marks = {j - offset : j \in {m \in shown'.marks : m > offset}}
        PROVE  /\ report'.stored <=> shown'.kind = "answer" /\ ~Aborted' /\ ~Blank(text)
               /\ report'.stored =>
                    /\ report'.text = text
                    /\ report'.marks = {j - offset : j \in {m \in shown'.marks : m > offset}}
                    /\ report'.passed <=> Unverified(shown'.text, ledger) = {}
    <2> DEFINE displayed == IF answer.text # <<>> THEN answer ELSE shown'
               shifted == {j - offset : j \in {m \in shown'.marks : m > offset}}
    <2> HIDE DEF alone, offset, text
    <2>1. /\ report'.stored <=> shown'.kind = "answer" /\ ~Aborted' /\ ~Blank(displayed.text)
          /\ report'.stored => /\ report'.text = displayed.text /\ report'.marks = displayed.marks
                               /\ report'.passed = (bad = {})
      BY <1>1, <1>4, StoredIs
    <2>2. displayed.text = text /\ displayed.marks = shifted
      BY <1>4
    <2> HIDE DEF displayed, shifted
    <2>3. /\ report'.stored <=> shown'.kind = "answer" /\ ~Aborted' /\ ~Blank(text)
          /\ report'.stored => /\ report'.text = text /\ report'.marks = shifted
                               /\ report'.passed = (bad = {})
      BY <2>1, <2>2
    <2> QED
      BY <1>4, <2>3 DEF shifted
  <1>5. CASE Show /\ shown'.kind = "answer"
    <2> DEFINE bad == Unverified(Combined, ledger)
    <2>1. /\ shown' = Screen("answer", Combined, bad)
          /\ body' = [kind |-> "answer", text |-> candidate,
                      marks |-> MarkClaims(candidate, bad, Len(Combined) - Len(candidate))]
          /\ report' = Stored(shown', body', bad, Aborted')
      BY <1>5, ShowIs DEF Screen
    <2>2. /\ Text(prelude) /\ Text(candidate) /\ bad \subseteq DOMAIN Join(prelude, candidate)
          /\ Text(Combined) /\ Combined = Join(prelude, candidate) /\ pc = "show"
      BY <1>5, TypedTexts, UnverifiedIn, CombinedIs DEF Show
    <2> HIDE DEF bad
    <2> DEFINE screen == Screen("answer", Combined, bad)
    <2>8. bad \subseteq DOMAIN Combined
      BY <2>2
    <2>7. screen.text = Combined /\ screen.marks = MarkClaims(Combined, bad, 0) /\ screen.marks \subseteq DOMAIN Combined
      BY <2>2, <2>8, ScreenTyped
    <2> HIDE DEF screen
    <2>9. shown' = screen
      BY <2>1 DEF screen
    <2>3. shown'.text = Combined /\ shown'.marks = MarkClaims(Combined, bad, 0) /\ shown'.marks \subseteq DOMAIN Combined
      BY <2>7, <2>9
    <2>4. body'.text = candidate /\ body'.marks = MarkClaims(candidate, bad, Len(Combined) - Len(candidate))
      BY <2>1
    <2>5. CASE candidate # <<>>
      <3>1. offset = Len(Combined) - Len(candidate)
        BY <2>2, <2>5, OffsetIs
      <3>2. body'.marks = {j - offset : j \in {m \in shown'.marks : m > offset}}
        <4> HIDE DEF offset
        <4> QED
          BY <2>2, <2>3, <2>4, <3>1, PartMarks
      <3>3. body'.text # <<>> /\ body'.text = text
        BY <2>2, <2>4, <2>5
      <3> HIDE DEF offset, text, alone
      <3> QED
        BY <1>4, <1>5, <2>1, <2>2, <2>3, <3>2, <3>3 DEF bad
    <2>6. CASE candidate = <<>>
      <3>1. offset = 0 /\ text = shown'.text /\ body'.text = <<>>
        BY <2>4, <2>6
      <3>2. DOMAIN Combined = 1 .. Len(Combined) /\ Len(Combined) \in Nat
        BY <2>2 DEF Text
      <3>3. shown'.marks = {j - offset : j \in {m \in shown'.marks : m > offset}}
        <4> HIDE DEF offset
        <4> QED
          BY <2>3, <3>1, <3>2, Unshifted
      <3> HIDE DEF offset, text, alone
      <3> QED
        BY <1>4, <1>5, <2>1, <2>2, <2>3, <3>1, <3>3 DEF bad
    <2> QED
      BY <2>5, <2>6
  <1>6. ASSUME Revise, NEW y, Text(y), body' = shown',
               shown' = Screen(IF y = Refusal THEN "refused" ELSE "answer", y, Unverified(y, ledger)),
               report' = Stored(shown', body', Unverified(y, ledger), Aborted')
        PROVE  /\ report'.stored <=> shown'.kind = "answer" /\ ~Aborted' /\ ~Blank(text)
               /\ report'.stored =>
                    /\ report'.text = text
                    /\ report'.marks = {j - offset : j \in {m \in shown'.marks : m > offset}}
                    /\ report'.passed <=> Unverified(shown'.text, ledger) = {}
    <2> DEFINE bad == Unverified(y, ledger)
               kind == IF y = Refusal THEN "refused" ELSE "answer"
    <2>1. kind \in {"answer", "refused"} /\ bad \subseteq DOMAIN y
      BY UnverifiedIn
    <2>2. offset = 0 /\ text = shown'.text
      BY <1>6 DEF Revise
    <2>3. DOMAIN y = 1 .. Len(y) /\ Len(y) \in Nat
      BY <1>6 DEF Text
    <2> HIDE DEF bad, kind
    <2>4. shown' = Screen(kind, y, bad)
      BY <1>6 DEF bad, kind
    <2>5. shown'.kind = kind /\ shown'.text = y /\ shown'.marks \subseteq DOMAIN y
      BY <1>6, <2>1, <2>4, ScreenTyped
    <2>6. shown'.marks = {j - offset : j \in {m \in shown'.marks : m > offset}}
      <3> HIDE DEF offset
      <3> QED
        BY <2>2, <2>3, <2>5, Unshifted
    <2>7. report' = Stored(shown', body', bad, Aborted')
      BY <1>6 DEF bad
    <2>8. (IF body'.text # <<>> THEN body' ELSE shown') = shown'
      BY <1>6
    <2> HIDE DEF offset, text, alone
    <2> QED
      BY <1>4, <1>6, <2>1, <2>2, <2>5, <2>6, <2>7, <2>8 DEF bad
  <1> HIDE DEF offset, text, alone
  <1>7. CASE Show
    <2>1. shown' = Screen("withheld", Withheld, {}) /\ report' = NoReport => shown'.kind # "answer"
      BY DEF Screen
    <2>2. shown'.kind = "answer" \/ (shown'.kind # "answer" /\ report' = NoReport)
      BY <1>7, <2>1, ShowIs DEF Screen
    <2> QED
      BY <1>3, <1>5, <1>7, <2>2
  <1>8. CASE Revise
    <2>1. shown' = Screen("withheld", Withheld, {}) => shown'.kind # "answer"
      BY DEF Screen
    <2> QED
      BY <1>3, <1>6, <1>8, <2>1, ReviseIs
  <1> QED
    BY <1>7, <1>8

-----------------------------------------------------------------------------
(* The theorems.                                                           *)

\* Every behaviour keeps IInv: what is shown was judged as it stands
\* (loop.py _run_turn).
THEOREM Invariance == Spec => []IInv
  <1>1. ASSUME IInv, [Next]_vars
        PROVE  IInv'
    BY <1>1, TypeStep, JudgedStep, SeenStep, SafeStep DEF IInv
  <1> QED
    BY Initially, <1>1, PTL DEF Spec

\* The variables of a turn keep their types; in particular every marker
\* stands in the text it marks (guardrail.py mark_claims).
THEOREM TypeCorrect == Spec => []TypeOK
  <1>1. IInv => TypeOK
    BY DEF IInv
  <1> QED
    BY Invariance, <1>1, PTL

\* On every path to the screen the markers stand exactly at the words with
\* an unverified number (guardrail.py mark_claims, loop.py _run_turn).
THEOREM MarkersHold == Spec => []MarkersExact
  <1>1. IInv => MarkersExact
    <2> SUFFICES ASSUME IInv, shown.kind \notin {"nothing", "withheld"}
                 PROVE  MarkedExactly(shown.text, shown.marks, Unverified(shown.text, ledger))
      BY DEF MarkersExact
    <2>1. /\ Text(shown.text)
          /\ shown.marks = MarkClaims(shown.text, Unverified(shown.text, ledger), 0)
      BY DEF IInv, TypeOK, Seen
    <2> QED
      BY <2>1, UnverifiedIn, MarksStand DEF MarkedExactly
  <1> QED
    BY Invariance, <1>1, PTL

\* A turn stores a report exactly when an answer is shown that is not white
\* space and does not abort the session; it is the final answer without the
\* prelude (all that is shown where that answer is empty or was rewritten),
\* has the screen's markers of that part, and its header says passed exactly
\* when nothing on the screen was unverified (repl.py _run_report_turn,
\* loop.py _run_turn).
THEOREM ReportHonestHolds == Spec => ReportHonest
  <1>1. ASSUME IInv, [Next]_vars
        PROVE  [pc # "idle" /\ pc' = "idle" => HonestReport]_vars
    <2>1. CASE Ask \/ Answer
      BY <2>1 DEF Ask, Answer
    <2>2. CASE Show \/ Revise
      BY <1>1, <2>2, ReportEnds DEF IInv
    <2> QED
      BY <1>1, <2>1, <2>2 DEF Next
  <1> QED
    BY Invariance, <1>1, PTL DEF Spec, ReportHonest

\* No unhedged prediction and nothing but English reaches the screen, in a
\* rewrite either (guardrail.py run_with_regeneration).
THEOREM NothingUnsafeHolds == Spec => []NothingUnsafe
  <1>1. IInv => NothingUnsafe
    BY DEF IInv
  <1> QED
    BY Invariance, <1>1, PTL

\* A number with a field, a day or a time that stands unmarked in a sentence
\* about one company was returned by a tool for that company or for none, a
\* number falling where the sentence says it fell (guardrail_claims.py
\* _verify_quantity, _verify_time, ADR-008).
THEOREM OwnEvidenceHolds == Spec => []OwnEvidence
  <1>1. ASSUME IInv
        PROVE  OwnEvidence
    <2> DEFINE x == shown.text
               f == Fields(x, ledger)
               free == {i \in Claims(x, ledger) :
                          /\ x[i].quote = None /\ x[i].cell = NoCell
                          /\ \A j \in shown.marks : ~SameWord(x, i, j)}
    <2> SUFFICES ASSUME shown.kind = "answer", NEW i \in free, NEW s \in Named(x, i), Named(x, i) = {s}
                 PROVE  /\ i \in Quantities(x, ledger) /\ f[i] # None =>
                             \E r \in ledger : r.symbol \in {None, s} /\ Returned(x, i, f[i], r)
                        /\ x[i].t = "time" => \E r \in ledger : r.symbol \in {None, s} /\ Happened(x, i, r)
      BY DEF OwnEvidence
    <2>1. Text(x) /\ shown.marks = MarkClaims(x, Unverified(x, ledger), 0) /\ ledger \subseteq Results
      BY <1>1 DEF IInv, Seen, TypeOK
    <2> HIDE DEF x
    <2>2. i \in Claims(x, ledger) /\ i \in DOMAIN x /\ x[i].quote = None /\ x[i].cell = NoCell
      BY DEF Claims
    <2>3. i \notin Unverified(x, ledger)
      BY <2>1, MarksStand, UnverifiedIn
    <2>4. NamedIn(x, i, ledger) = {s} /\ s # None
      BY DEF NamedIn, Named
    <2>5. SubjectOf(x, i, ledger) = s
      BY <2>1, <2>2, <2>4, SubjectIs
    <2> HIDE DEF f, free
    <2>6. ASSUME i \in Quantities(x, ledger), f[i] # None
          PROVE  \E r \in ledger : r.symbol \in {None, s} /\ Returned(x, i, f[i], r)
      <3>1. VerifyFielded(x, i, f[i], s, ledger) = "ok"
        BY <2>1, <2>2, <2>3, <2>5, <2>6, QuantityVerified DEF f
      <3> QED
        BY <2>1, <2>2, <2>4, <2>6, <3>1, ReturnedIs
    <2>7. ASSUME x[i].t = "time"
          PROVE  \E r \in ledger : r.symbol \in {None, s} /\ Happened(x, i, r)
      <3>1. VerifyTime(x, i, s, ledger) = "ok"
        BY <2>1, <2>2, <2>3, <2>5, <2>7, TimeVerified
      <3> QED
        BY <2>4, <2>7, <3>1, HappenedIs
    <2> QED
      BY <2>6, <2>7
  <1> QED
    BY Invariance, <1>1, PTL

=============================================================================
