--------------------------- MODULE StartupProofs ---------------------------
(***************************************************************************)
(* What a start finds stale, proved for every set of terminals and         *)
(* symbols, every calendar and every bound.                                *)
(***************************************************************************)
EXTENDS Startup, SequenceTheorems, FiniteSetTheorems, TLAPS

-----------------------------------------------------------------------------
(* The calendar.                                                           *)

\* A set of days has a latest one.
LEMMA LatestIs ==
  ASSUME NEW n \in Nat, NEW S, S \subseteq -1 .. n, S # {}
  PROVE  \E d \in S : \A e \in S : e <= d
  <1> DEFINE Down == {k \in 0 .. n + 1 : n - k \in S}
  <1>1. Down \subseteq Nat
    OBVIOUS
  <1>2. PICK y \in S : TRUE
    OBVIOUS
  <1>3. y \in -1 .. n
    BY <1>2
  <1>4. n - y \in 0 .. n + 1 /\ n - (n - y) = y
    BY <1>3
  <1>5. n - y \in Down
    BY <1>2, <1>4
  <1> HIDE DEF Down
  <1>6. PICK k \in Down : \A j \in Down : <<j, k>> \notin OpToRel(<, Nat)
    BY <1>1, <1>5, WFMin, NatLessThanWellFounded, Zenon
  <1>7. \A j \in Down : ~(j < k)
    BY <1>1, <1>6 DEF OpToRel
  <1>8. n - k \in S /\ k \in 0 .. n + 1
    BY <1>6 DEF Down
  <1>9. ASSUME NEW e \in S
        PROVE  e <= n - k
    <2>1. e \in -1 .. n
      OBVIOUS
    <2>2. n - e \in 0 .. n + 1 /\ n - (n - e) = e
      BY <2>1
    <2>3. n - e \in Down
      BY <2>2 DEF Down
    <2>4. ~(n - e < k)
      BY <1>7, <2>3
    <2> QED
      BY <1>8, <2>1, <2>4
  <1> QED
    BY <1>8, <1>9

LEMMA ConstantsTyped ==
  /\ MaxDay \in Nat \ {0} /\ MaxStarts \in Nat /\ IsFiniteSet(Symbols)
  /\ Days = 0 .. MaxDay /\ NoDay = -1 /\ Never = -1 /\ Instants = 0 .. 3 * MaxDay + 2
  /\ \A s \in Symbols : Exchange[s] \in {"HK", "US"}
  /\ \A x \in {"HK", "US"} : Sessions[x] \subseteq Days /\ 0 \in Sessions[x]
  BY CalendarAssumption DEF Days, NoDay, Never, Instants

\* The expected session is a day whose bar is available, or none.
LEMMA ExpectedIs ==
  ASSUME NEW x \in {"HK", "US"}, NEW t \in Instants
  PROVE  /\ ExpectedSession(x, t) \in Days \union {NoDay}
         /\ AvailableAt(x, ExpectedSession(x, t)) <= t
         /\ ExpectedSession(x, t) <= DayOf(t) /\ DayOf(t) \in Days
  <1> DEFINE S == {d \in Days \union {NoDay} : d = NoDay \/ (d \notin Weekend /\ AvailableAt(x, d) <= t)}
  <1>1. S \subseteq -1 .. MaxDay /\ NoDay \in S
    BY ConstantsTyped
  <1>2. PICK d \in S : \A e \in S : e <= d
    <2> HIDE DEF S
    <2> QED
      BY <1>1, ConstantsTyped, LatestIs
  <1>3. /\ d \in Days \union {NoDay} /\ (d = NoDay \/ (d \notin Weekend /\ AvailableAt(x, d) <= t))
        /\ \A e \in Days : e \notin Weekend /\ AvailableAt(x, e) <= t => e <= d
    BY <1>2
  <1>4. /\ ExpectedSession(x, t) \in Days \union {NoDay}
        /\ ExpectedSession(x, t) = NoDay \/ AvailableAt(x, ExpectedSession(x, t)) <= t
    BY <1>3 DEF ExpectedSession
  <1> DEFINE e == ExpectedSession(x, t)
  <1>5. e \in -1 .. MaxDay /\ t \in Nat /\ (e = -1 \/ AvailableAt(x, e) <= t)
    BY <1>4, ConstantsTyped
  <1> HIDE DEF e
  <1>6. AvailableAt(x, e) <= t /\ e <= DayOf(t)
    BY <1>5, ConstantsTyped DEF AvailableAt, DayOf
  <1>7. DayOf(t) \in Days
    BY ConstantsTyped DEF DayOf
  <1> QED
    BY <1>4, <1>6, <1>7 DEF e

-----------------------------------------------------------------------------
(* Plans.                                                                  *)

Item == [sym : Symbols, action : {"bars", "gap-repair"}, day : Days]

\* The sequence of a finite set has its elements, all of them.
LEMMA SetToSeqIs ==
  ASSUME NEW S, IsFiniteSet(S)
  PROVE  /\ SetToSeq(S) \in Seq(S)
         /\ \A e \in S : \E k \in DOMAIN SetToSeq(S) : SetToSeq(S)[k] = e
  <1> DEFINE n == Cardinality(S)
             f == SetToSeq(S)
  <1>1. n \in Nat /\ ExistsBijection(1 .. n, S)
    BY FS_CardinalityType
  <1>2. \E g \in [1 .. n -> S] : IsInjective(g)
    BY <1>1 DEF ExistsBijection, Bijection, Injection
  <1>3. f \in [1 .. n -> S] /\ IsInjective(f)
    BY <1>2 DEF SetToSeq
  <1> HIDE DEF f, n
  <1>4. f \in Injection(1 .. n, S)
    BY <1>3 DEF Injection
  <1>5. IsFiniteSet(1 .. n) /\ Cardinality(1 .. n) = n
    BY <1>1, FS_Interval
  <1>6. f \in Surjection(1 .. n, S)
    BY <1>4, <1>5, FS_Injection DEF n
  <1>7. \A e \in S : \E k \in 1 .. n : f[k] = e
    BY <1>6 DEF Surjection
  <1> QED
    BY <1>1, <1>3, <1>7 DEF f

\* A concatenation has the elements of its parts in their places.
LEMMA ConcatIs ==
  ASSUME NEW S, NEW v \in Seq(S), NEW w \in Seq(S)
  PROVE  /\ v \o w \in Seq(S) /\ Len(v \o w) = Len(v) + Len(w)
         /\ \A k \in 1 .. Len(v) : (v \o w)[k] = v[k]
         /\ \A k \in 1 .. Len(w) : (v \o w)[Len(v) + k] = w[k]
  BY ConcatProperties

\* What is made of finitely many symbols is finite.
LEMMA ImageFinite ==
  ASSUME NEW T, T \subseteq Symbols, NEW J, NEW f \in [T -> J], \A e \in J : \E s \in T : f[s] = e
  PROVE  IsFiniteSet(J)
  <1>1. IsFiniteSet(T)
    BY ConstantsTyped, FS_Subset
  <1>2. f \in Surjection(T, J)
    BY DEF Surjection
  <1> QED
    BY <1>1, <1>2, FS_Surjection

\* A plan is a sequence of items, with one for every symbol it has to bring
\* up to date.
LEMMA PlanOfIs ==
  ASSUME TypeOK, NEW gaps \in [Symbols -> Days \union {NoDay}]
  PROVE  /\ PlanOf(gaps) \in Seq(Item)
         /\ \A s \in Symbols :
              \/ s \in Indices /\ (newest[s] = NoDay \/ Incremental(s))
              \/ s \in Watchlist /\ (cursor[s] = NoDay \/ Incremental(s))
              => \E k \in DOMAIN PlanOf(gaps) : PlanOf(gaps)[k].sym = s
  <1> DEFINE I == {i \in Indices : newest[i] = NoDay \/ Incremental(i)}
             G == {s \in Symbols : gaps[s] # NoDay}
             W == {s \in Watchlist : cursor[s] = NoDay \/ Incremental(s)}
             A == {[sym |-> s, action |-> "bars", day |-> Today] : s \in I}
             B == {[sym |-> s, action |-> "gap-repair", day |-> gaps[s]] : s \in G}
             C == {[sym |-> s, action |-> "bars", day |-> Today] : s \in W}
  <1>1. PlanOf(gaps) = SetToSeq(A) \o SetToSeq(B) \o SetToSeq(C)
    <2> DEFINE until == [s \in Symbols |-> Today]
               A2 == {[sym |-> s, action |-> "bars", day |-> until[s]] : s \in I}
               C2 == {[sym |-> s, action |-> "bars", day |-> until[s]] : s \in W}
    <2>1. I \subseteq Symbols /\ W \subseteq Symbols
      BY DEF Symbols
    <2>2. A2 = A /\ C2 = C
      <3> HIDE DEF I, W
      <3> QED
        BY <2>1
    <2>3. PlanOf(gaps) = SetToSeq(A2) \o SetToSeq(B) \o SetToSeq(C2)
      BY DEF PlanOf, Items
    <2> HIDE DEF A, B, C, A2, C2
    <2> QED
      BY <2>2, <2>3
  <1>2. I \subseteq Symbols /\ G \subseteq Symbols /\ W \subseteq Symbols
    BY DEF Symbols
  <1>3. Today \in Days
    BY ConstantsTyped DEF TypeOK, Today, DayOf
  <1>4. A \subseteq Item /\ B \subseteq Item /\ C \subseteq Item
    <2> HIDE DEF I, W
    <2> QED
      BY <1>2, <1>3 DEF Item
  <1>5. IsFiniteSet(A)
    <2> DEFINE f == [s \in I |-> [sym |-> s, action |-> "bars", day |-> Today]]
    <2> HIDE DEF I
    <2>1. f \in [I -> A] /\ \A e \in A : \E s \in I : f[s] = e
      OBVIOUS
    <2> HIDE DEF f, A
    <2> QED
      BY <1>2, <2>1, ImageFinite
  <1>6. IsFiniteSet(B)
    <2> DEFINE f == [s \in G |-> [sym |-> s, action |-> "gap-repair", day |-> gaps[s]]]
    <2> HIDE DEF G
    <2>1. f \in [G -> B] /\ \A e \in B : \E s \in G : f[s] = e
      OBVIOUS
    <2> HIDE DEF f, B
    <2> QED
      BY <1>2, <2>1, ImageFinite
  <1>7. IsFiniteSet(C)
    <2> DEFINE f == [s \in W |-> [sym |-> s, action |-> "bars", day |-> Today]]
    <2> HIDE DEF W
    <2>1. f \in [W -> C] /\ \A e \in C : \E s \in W : f[s] = e
      OBVIOUS
    <2> HIDE DEF f, C
    <2> QED
      BY <1>2, <2>1, ImageFinite
  <1>8. ASSUME NEW s \in I
        PROVE  \E e \in A : e.sym = s
    <2> HIDE DEF I
    <2>1. [sym |-> s, action |-> "bars", day |-> Today] \in A
      OBVIOUS
    <2> QED
      BY <2>1
  <1>9. ASSUME NEW s \in W
        PROVE  \E e \in C : e.sym = s
    <2> HIDE DEF W
    <2>1. [sym |-> s, action |-> "bars", day |-> Today] \in C
      OBVIOUS
    <2> QED
      BY <2>1
  <1> HIDE DEF A, B, C
  <1> DEFINE a == SetToSeq(A)
             b == SetToSeq(B)
             c == SetToSeq(C)
  <1>10. /\ a \in Seq(A) /\ (\A e \in A : \E k \in DOMAIN a : a[k] = e)
         /\ b \in Seq(B)
         /\ c \in Seq(C) /\ (\A e \in C : \E k \in DOMAIN c : c[k] = e)
    BY <1>5, <1>6, <1>7, SetToSeqIs
  <1> HIDE DEF a, b, c
  <1>11. a \in Seq(Item) /\ b \in Seq(Item) /\ c \in Seq(Item)
    BY <1>4, <1>10, SeqMonotonic
  <1> DEFINE u == a \o b
             w == u \o c
  <1>12. u \in Seq(Item) /\ Len(u) = Len(a) + Len(b) /\ \A k \in 1 .. Len(a) : u[k] = a[k]
    BY <1>11, ConcatIs
  <1> HIDE DEF u
  <1>13. /\ w \in Seq(Item) /\ Len(w) = Len(a) + Len(b) + Len(c)
         /\ \A k \in 1 .. Len(a) : w[k] = a[k]
         /\ \A k \in 1 .. Len(c) : w[Len(a) + Len(b) + k] = c[k]
    <2>1. /\ w \in Seq(Item) /\ Len(w) = Len(u) + Len(c)
          /\ \A k \in 1 .. Len(u) : w[k] = u[k]
          /\ \A k \in 1 .. Len(c) : w[Len(u) + k] = c[k]
      <3>1. u \in Seq(Item) /\ c \in Seq(Item)
        BY <1>11, <1>12
      <3> QED
        BY <3>1, ConcatIs
    <2> HIDE DEF w
    <2>2. Len(a) \in Nat /\ Len(b) \in Nat
      BY <1>11
    <2> QED
      BY <1>12, <2>1, <2>2
  <1>14. PlanOf(gaps) = w
    BY <1>1 DEF a, b, c, u
  <1> HIDE DEF w
  <1>15. Len(a) \in Nat /\ Len(b) \in Nat /\ Len(c) \in Nat /\ DOMAIN w = 1 .. Len(w)
    BY <1>11, <1>13
  <1>16. ASSUME NEW s \in I
         PROVE  \E k \in DOMAIN w : w[k].sym = s
    <2>1. PICK k \in DOMAIN a : a[k].sym = s
      BY <1>8, <1>10
    <2>2. k \in 1 .. Len(a)
      BY <1>11
    <2>3. k \in 1 .. Len(w)
      BY <1>13, <1>15, <2>2
    <2> QED
      BY <1>13, <1>15, <2>1, <2>2, <2>3
  <1>17. ASSUME NEW s \in W
         PROVE  \E k \in DOMAIN w : w[k].sym = s
    <2>1. PICK k \in DOMAIN c : c[k].sym = s
      BY <1>9, <1>10
    <2>2. k \in 1 .. Len(c)
      BY <1>11
    <2>3. Len(a) + Len(b) + k \in 1 .. Len(w)
      BY <1>13, <1>15, <2>2
    <2> QED
      BY <1>13, <1>15, <2>1, <2>2, <2>3
  <1> QED
    BY <1>13, <1>14, <1>16, <1>17

\* What the vendor serves: a session, or for a gap none.
LEMMA ServedIs ==
  ASSUME TypeOK, NEW item \in Item
  PROVE  /\ Served(item) \in Days \union {NoDay}
         /\ item.action = "bars" => Served(item) \in Days
  <1> DEFINE x == Exchange[item.sym]
             held == {d \in Sessions[x] : d <= item.day /\ d <= published[item.sym]}
  <1>1. item.sym \in Symbols /\ item.day \in Days /\ item.action \in {"bars", "gap-repair"}
    BY DEF Item
  <1>2. x \in {"HK", "US"} /\ Sessions[x] \subseteq Days /\ 0 \in Sessions[x]
    BY <1>1, ConstantsTyped
  <1>3. published[item.sym] \in Days
    BY <1>1 DEF TypeOK
  <1>4. 0 \in held /\ held \subseteq Days
    BY <1>1, <1>2, <1>3, ConstantsTyped
  <1>5. Served(item) = CASE item.action = "gap-repair" -> IF item.day \in held THEN item.day ELSE NoDay
                         [] OTHER -> CHOOSE d \in held : \A e \in held : e <= d
    BY DEF Served
  <1> HIDE DEF held
  <1>6. CASE item.action = "gap-repair"
    BY <1>1, <1>4, <1>5, <1>6
  <1>7. CASE item.action = "bars"
    <2>1. held \subseteq -1 .. MaxDay
      BY <1>4, ConstantsTyped
    <2>2. \E d \in held : \A e \in held : e <= d
      BY <1>4, <2>1, ConstantsTyped, LatestIs
    <2>3. Served(item) \in held
      BY <1>5, <1>7, <2>2
    <2> QED
      BY <1>4, <2>3
  <1> QED
    BY <1>1, <1>6, <1>7

-----------------------------------------------------------------------------
(* The invariant.                                                          *)

\* A symbol is not found stale while e is the expected session, but for a
\* frozen index.
Fresh(s, e) == newest[s] >= e \/ lastRun[s] >= AvailableAt(Exchange[s], e) \/ Frozen(s)

\* A run that has met no failure has an item left for every symbol that is
\* not fresh for the session expected when it was planned.
Covered ==
  \A p \in Procs : pc[p] = "sync" =>
    \A x \in {"HK", "US"} :
      /\ AvailableAt(x, sound[p][x]) <= now
      /\ \A s \in Symbols : Exchange[s] = x =>
           Fresh(s, sound[p][x]) \/ \E k \in DOMAIN plan[p] : plan[p][k].sym = s

\* Every symbol is fresh for the session expected at the last sound run.
SettledFresh ==
  \A x \in {"HK", "US"} :
    /\ AvailableAt(x, settled[x]) <= now
    /\ \A s \in Symbols : Exchange[s] = x => Fresh(s, settled[x])

\* last_run_at is when the vendor last sent bars.
RunsAnswered == lastRun = answered

IInv == TypeOK /\ Covered /\ SettledFresh /\ RunsAnswered

LEMMA Initially ==
  Init => IInv
  <1> SUFFICES ASSUME Init PROVE IInv
    OBVIOUS
  <1>1. 3 \in Instants /\ 2 \in Instants /\ 0 \in Days /\ 0 \in 0 .. MaxStarts
    BY ConstantsTyped
  <1>2. NotSound \in [{"HK", "US"} -> Days \union {NoDay}]
    BY DEF NotSound
  <1>3. <<>> \in Seq([sym : Symbols, action : {"bars", "gap-repair"}, day : Days])
    OBVIOUS
  <1>4. \A s \in Symbols : cursor[s] <= newest[s] /\ (lastRun[s] = Never <=> cursor[s] = NoDay)
    BY DEF Init, NoDay, Never
  <1>5. TypeOK
    BY <1>1, <1>2, <1>3, <1>4 DEF Init, TypeOK
  <1>6. Covered /\ RunsAnswered
    BY DEF Init, Covered, RunsAnswered
  <1>7. SettledFresh
    BY ConstantsTyped DEF Init, SettledFresh, NotSound, Fresh, AvailableAt
  <1> QED
    BY <1>5, <1>6, <1>7 DEF IInv

-----------------------------------------------------------------------------
(* The steps.                                                              *)

\* The item a run takes up is an item, and the rest of the plan a plan.
LEMMA HeadIs ==
  ASSUME TypeOK, NEW p \in Procs, plan[p] # <<>>
  PROVE  /\ plan[p] \in Seq(Item) /\ Head(plan[p]) \in Item /\ Tail(plan[p]) \in Seq(Item)
         /\ \A k \in DOMAIN plan[p] :
              plan[p][k] = Head(plan[p]) \/ \E j \in DOMAIN Tail(plan[p]) : Tail(plan[p])[j] = plan[p][k]
  <1> DEFINE w == plan[p]
  <1>1. w \in Seq(Item) /\ w # <<>>
    BY DEF TypeOK, Item
  <1> HIDE DEF w
  <1>2. /\ Head(w) \in Item /\ Tail(w) \in Seq(Item) /\ Len(Tail(w)) = Len(w) - 1
        /\ \A j \in 1 .. Len(Tail(w)) : Tail(w)[j] = w[j + 1]
    BY <1>1, HeadTailProperties
  <1>3. Len(w) \in Nat /\ DOMAIN w = 1 .. Len(w) /\ DOMAIN Tail(w) = 1 .. Len(Tail(w)) /\ Head(w) = w[1]
    BY <1>1, <1>2
  <1>4. ASSUME NEW k \in DOMAIN w, k # 1
        PROVE  \E j \in DOMAIN Tail(w) : Tail(w)[j] = w[k]
    <2>1. k - 1 \in DOMAIN Tail(w) /\ (k - 1) + 1 = k
      BY <1>2, <1>3, <1>4
    <2> QED
      BY <1>2, <1>3, <2>1
  <1> QED
    BY <1>1, <1>2, <1>3, <1>4 DEF w

\* The rows of a symbol under one item.
LEMMA RowsTyped ==
  ASSUME TypeOK, NEW item \in Item, NEW last \in Days \union {NoDay}
  PROVE  /\ [newest EXCEPT ![item.sym] = Larger(@, last)] \in [Symbols -> Days \union {NoDay}]
         /\ [cursor EXCEPT ![item.sym] = CursorAfter(item, last)] \in [Symbols -> Days \union {NoDay}]
         /\ [lastRun EXCEPT ![item.sym] = RunAfter(item, last)] \in [Symbols -> Instants \union {Never}]
         /\ LET c == CursorAfter(item, last) IN
            c <= Larger(newest[item.sym], last) /\ (RunAfter(item, last) = Never <=> c = NoDay)
  <1> DEFINE s == item.sym
  <1>1. s \in Symbols
    BY DEF Item
  <1>2. /\ newest[s] \in Days \union {NoDay} /\ cursor[s] \in Days \union {NoDay}
        /\ lastRun[s] \in Instants \union {Never} /\ now \in Instants
        /\ cursor[s] <= newest[s] /\ (lastRun[s] = Never <=> cursor[s] = NoDay)
    BY <1>1 DEF TypeOK
  <1> HIDE DEF s
  <1>3. \A a, b \in Days \union {NoDay} : Larger(a, b) \in {a, b} /\ Larger(a, b) >= a /\ Larger(a, b) >= b
    BY ConstantsTyped DEF Larger
  <1>4. /\ Larger(newest[s], last) \in Days \union {NoDay} /\ Larger(newest[s], last) >= newest[s]
        /\ Larger(newest[s], last) >= last
        /\ Larger(cursor[s], last) \in {cursor[s], last} /\ Larger(cursor[s], last) >= last
    BY <1>2, <1>3
  <1>5. CursorAfter(item, last) = IF last = NoDay THEN cursor[s] ELSE Larger(cursor[s], last)
    BY DEF CursorAfter, s
  <1>6. RunAfter(item, last) = IF last = NoDay THEN lastRun[s] ELSE now
    BY DEF RunAfter, s
  <1>7. CursorAfter(item, last) \in Days \union {NoDay} /\ RunAfter(item, last) \in Instants \union {Never}
    BY <1>2, <1>4, <1>5, <1>6
  <1>8. /\ CursorAfter(item, last) <= Larger(newest[s], last)
        /\ RunAfter(item, last) = Never <=> CursorAfter(item, last) = NoDay
    <2>1. CASE last = NoDay
      BY <1>2, <1>4, <1>5, <1>6, <2>1, ConstantsTyped
    <2>2. CASE last # NoDay
      BY <1>2, <1>4, <1>5, <1>6, <2>2, ConstantsTyped
    <2> QED
      BY <2>1, <2>2
  <1> QED
    BY <1>1, <1>4, <1>7, <1>8 DEF TypeOK, s

\* An item's writes keep the types of the rows.
LEMMA RanTyped ==
  ASSUME TypeOK, NEW p \in Procs, plan[p] # <<>>, NEW last \in Days \union {NoDay},
         Ran(p, Head(plan[p]), last)
  PROVE  /\ newest' \in [Symbols -> Days \union {NoDay}] /\ cursor' \in [Symbols -> Days \union {NoDay}]
         /\ lastRun' \in [Symbols -> Instants \union {Never}]
         /\ plan' \in [Procs -> Seq(Item)]
         /\ \A s \in Symbols : cursor'[s] <= newest'[s] /\ (lastRun'[s] = Never <=> cursor'[s] = NoDay)
  <1> DEFINE item == Head(plan[p])
  <1>1. item \in Item /\ Tail(plan[p]) \in Seq(Item)
    BY HeadIs
  <1> HIDE DEF item
  <1>2. /\ newest' = [newest EXCEPT ![item.sym] = Larger(@, last)]
        /\ cursor' = [cursor EXCEPT ![item.sym] = CursorAfter(item, last)]
        /\ lastRun' = [lastRun EXCEPT ![item.sym] = RunAfter(item, last)]
        /\ plan' = [plan EXCEPT ![p] = Tail(@)]
    BY DEF Ran, item
  <1>3. plan' \in [Procs -> Seq(Item)]
    BY <1>1, <1>2 DEF TypeOK, Item
  <1>4. item.sym \in Symbols
    BY <1>1 DEF Item
  <1>5. ASSUME NEW s \in Symbols
        PROVE  cursor'[s] <= newest'[s] /\ (lastRun'[s] = Never <=> cursor'[s] = NoDay)
    <2>1. CASE s = item.sym
      BY <1>1, <1>2, <1>4, <2>1, RowsTyped DEF TypeOK
    <2>2. CASE s # item.sym
      BY <1>2, <2>2 DEF TypeOK
    <2> QED
      BY <2>1, <2>2
  <1> QED
    BY <1>1, <1>2, <1>3, <1>5, RowsTyped

LEMMA GapTyped ==
  ASSUME TypeOK, NEW s \in Symbols, NEW d \in Days \union {NoDay}
  PROVE  [gap EXCEPT ![s] = d] \in [Symbols -> Days \union {NoDay}]
  BY DEF TypeOK

\* A terminal that gives up its run drops what is left of the plan.
LEMMA PlanDropped ==
  ASSUME TypeOK, NEW p \in Procs,
         plan' = plan \/ plan' = [plan EXCEPT ![p] = <<>>]
  PROVE  plan' \in [Procs -> Seq([sym : Symbols, action : {"bars", "gap-repair"}, day : Days])]
  <1> DEFINE Plans == Seq([sym : Symbols, action : {"bars", "gap-repair"}, day : Days])
  <1>1. <<>> \in Plans
    BY EmptySeq
  <1>2. plan \in [Procs -> Plans]
    BY DEF TypeOK
  <1> HIDE DEF Plans
  <1>3. plan' \in [Procs -> Plans]
    <2>1. CASE plan' = plan
      BY <1>2, <2>1
    <2>2. CASE plan' = [plan EXCEPT ![p] = <<>>]
      BY <1>1, <1>2, <2>2
    <2> QED
      BY <2>1, <2>2
  <1> QED
    BY <1>3 DEF Plans

LEMMA TypeStep ==
  ASSUME TypeOK, [Next]_vars
  PROVE  TypeOK'
  <1>1. ASSUME NEW p \in Procs, Check(p) \/ Sync(p)
        PROVE  TypeOK'
    <2>1. starts' \in 0 .. MaxStarts
      BY <1>1, ConstantsTyped DEF TypeOK, Check, Sync
    <2>2. pc' \in [Procs -> {"shell", "plan", "sync", "embed", "session"}]
      BY <1>1 DEF TypeOK, Check, Sync, Goto
    <2> QED
      BY <1>1, <2>1, <2>2 DEF TypeOK, Check, Sync, store, history
  <1>2. ASSUME NEW p \in Procs, Plan(p)
        PROVE  TypeOK'
    <2>1. pc' \in [Procs -> {"shell", "plan", "sync", "embed", "session"}]
      BY <1>2 DEF TypeOK, Plan, Goto
    <2>2. gap' \in [Symbols -> Days \union {NoDay}]
      <3>1. CASE gap' = gap
        BY <3>1 DEF TypeOK
      <3>2. ASSUME NEW s \in Symbols, NEW d \in Lackable(s), gap' = [gap EXCEPT ![s] = d]
            PROVE  gap' \in [Symbols -> Days \union {NoDay}]
        <4>1. d \in Days
          BY ConstantsTyped DEF Lackable
        <4> QED
          BY <3>2, <4>1, GapTyped
      <3> QED
        BY <1>2, <3>1, <3>2 DEF Plan
    <2>3. plan' \in [Procs -> Seq([sym : Symbols, action : {"bars", "gap-repair"}, day : Days])]
      <3>1. PlanOf(gap') \in Seq(Item)
        BY <2>2, PlanOfIs
      <3> QED
        BY <1>2, <3>1 DEF TypeOK, Plan, Item
    <2>4. sound' \in [Procs -> [{"HK", "US"} -> Days \union {NoDay}]]
      <3>1. \A x \in {"HK", "US"} : Expected(x) \in Days \union {NoDay}
        BY ExpectedIs DEF Expected, TypeOK
      <3> QED
        BY <1>2, <3>1 DEF TypeOK, Plan
    <2> QED
      BY <1>2, <2>1, <2>2, <2>3, <2>4 DEF TypeOK, Plan, history
  <1>3. ASSUME NEW p \in Procs, Ok(p)
        PROVE  TypeOK'
    <2> DEFINE item == Head(plan[p])
    <2>1. item \in Item /\ item.sym \in Symbols
      BY <1>3, HeadIs DEF Ok, Item
    <2>2. Served(item) \in Days \union {NoDay} /\ Ran(p, item, Served(item))
      BY <1>3, <2>1, ServedIs DEF Ok
    <2>3. gap' \in [Symbols -> Days \union {NoDay}] /\ answered' \in [Symbols -> Instants \union {Never}]
      <3>1. gap' = gap \/ gap' = [gap EXCEPT ![item.sym] = NoDay]
        BY <1>3 DEF Ok
      <3>2. answered' = [answered EXCEPT ![item.sym] = now]
        BY <1>3 DEF Ok
      <3> QED
        BY <2>1, <3>1, <3>2 DEF TypeOK
    <2> QED
      BY <1>3, <2>2, <2>3, RanTyped DEF TypeOK, Ok, Item
  <1>4. ASSUME NEW p \in Procs, NotOk(p)
        PROVE  TypeOK'
    <2> DEFINE item == Head(plan[p])
    <2>1. item \in Item /\ item.sym \in Symbols
      BY <1>4, HeadIs DEF NotOk, Item
    <2>2. gap' \in [Symbols -> Days \union {NoDay}]
      BY <1>4, <2>1 DEF TypeOK, NotOk
    <2>3. sound' \in [Procs -> [{"HK", "US"} -> Days \union {NoDay}]]
      BY <1>4 DEF TypeOK, NotOk, NotSound
    <2> QED
      BY <1>4, <2>2, <2>3, RanTyped DEF TypeOK, NotOk, Item, history
  <1>5. ASSUME NEW p \in Procs, DiesBetween(p)
        PROVE  TypeOK'
    <2> DEFINE item == Head(plan[p])
    <2>1. item \in Item /\ item.sym \in Symbols
      BY <1>5, HeadIs DEF DiesBetween, Item
    <2>2. Served(item) \in Days \union {NoDay}
      BY <2>1, ServedIs
    <2> HIDE DEF item
    <2>3. newest' = [newest EXCEPT ![item.sym] = Larger(@, Served(item))]
      BY <1>5 DEF DiesBetween, item
    <2>4. newest' \in [Symbols -> Days \union {NoDay}]
      BY <2>1, <2>2, <2>3, RowsTyped
    <2>5. \A s \in Symbols : newest'[s] >= newest[s] /\ newest'[s] \in Int /\ newest[s] \in Int /\ cursor[s] \in Int
      <3>1. \A a, b \in Int : Larger(a, b) >= a
        BY DEF Larger
      <3>2. \A x \in Days \union {NoDay} : x \in Int
        BY ConstantsTyped
      <3>3. \A s \in Symbols : newest[s] \in Int /\ newest'[s] \in Int /\ cursor[s] \in Int
        BY <2>4, <3>2 DEF TypeOK
      <3>4. \A s \in Symbols : newest'[s] = newest[s] \/ newest'[s] = Larger(newest[s], Served(item))
        BY <2>1, <2>3 DEF TypeOK
      <3> QED
        BY <2>2, <3>1, <3>2, <3>3, <3>4
    <2>6. \A s \in Symbols : cursor[s] <= newest'[s]
      BY <2>5 DEF TypeOK
    <2>7. plan' \in [Procs -> Seq([sym : Symbols, action : {"bars", "gap-repair"}, day : Days])]
      <3>1. plan' = [plan EXCEPT ![p] = <<>>]
        BY <1>5 DEF DiesBetween
      <3> QED
        BY <3>1, PlanDropped
    <2>8. sound' \in [Procs -> [{"HK", "US"} -> Days \union {NoDay}]]
      BY <1>5 DEF TypeOK, DiesBetween, NotSound
    <2>9. pc' \in [Procs -> {"shell", "plan", "sync", "embed", "session"}]
      BY <1>5 DEF TypeOK, DiesBetween, Goto
    <2> QED
      BY <1>5, <2>4, <2>6, <2>7, <2>8, <2>9 DEF TypeOK, DiesBetween, history
  <1>6. ASSUME NEW p \in Procs, Finish(p)
        PROVE  TypeOK'
    <2>1. settled' \in [{"HK", "US"} -> Days \union {NoDay}]
      <3>1. \A x \in {"HK", "US"} : settled[x] \in Days \union {NoDay} /\ sound[p][x] \in Days \union {NoDay}
        BY DEF TypeOK
      <3> QED
        BY <1>6, <3>1 DEF Finish, Larger
    <2>2. sound' \in [Procs -> [{"HK", "US"} -> Days \union {NoDay}]]
      BY <1>6 DEF TypeOK, Finish, NotSound
    <2>3. pc' \in [Procs -> {"shell", "plan", "sync", "embed", "session"}]
      BY <1>6 DEF TypeOK, Finish, Goto
    <2> QED
      BY <1>6, <2>1, <2>2, <2>3 DEF TypeOK, Finish, store
  <1>7. ASSUME NEW p \in Procs, Abort(p) \/ Embed(p) \/ Leave(p)
        PROVE  TypeOK'
    <2>1. plan' \in [Procs -> Seq([sym : Symbols, action : {"bars", "gap-repair"}, day : Days])]
      <3>1. plan' = plan \/ plan' = [plan EXCEPT ![p] = <<>>]
        BY <1>7 DEF Abort, Embed, Leave, store, history
      <3> QED
        BY <3>1, PlanDropped
    <2>2. sound' \in [Procs -> [{"HK", "US"} -> Days \union {NoDay}]]
      BY <1>7 DEF TypeOK, Abort, Embed, Leave, NotSound
    <2>3. pc' \in [Procs -> {"shell", "plan", "sync", "embed", "session"}]
      BY <1>7 DEF TypeOK, Abort, Embed, Leave, Goto
    <2> QED
      BY <1>7, <2>1, <2>2, <2>3 DEF TypeOK, Abort, Embed, Leave, store, history
  <1>8. CASE Tick
    <2>1. now' \in Instants /\ now' = now + 1
      BY <1>8 DEF Tick
    <2>2. PICK S \in SUBSET Symbols :
            published' = [s \in Symbols |->
              LET served == {d \in Sessions[Exchange[s]] : ServableFrom(Exchange[s], d) <= now'}
              IN IF s \in S THEN CHOOSE d \in served : \A e \in served : e <= d ELSE published[s]]
      BY <1>8 DEF Tick
    <2>3. ASSUME NEW s \in Symbols
          PROVE  LET served == {d \in Sessions[Exchange[s]] : ServableFrom(Exchange[s], d) <= now'}
                 IN (CHOOSE d \in served : \A e \in served : e <= d) \in Days
      <3> DEFINE served == {d \in Sessions[Exchange[s]] : ServableFrom(Exchange[s], d) <= now'}
      <3>1. now' >= 1 /\ now' \in Nat
        BY <2>1, ConstantsTyped DEF TypeOK
      <3>2. ServableFrom(Exchange[s], 0) <= now'
        BY <3>1, ConstantsTyped DEF ServableFrom, AvailableAt
      <3>3. 0 \in served /\ served \subseteq Days
        BY <3>2, ConstantsTyped
      <3> HIDE DEF served
      <3>4. served \subseteq -1 .. MaxDay
        BY <3>3, ConstantsTyped
      <3>5. \E d \in served : \A e \in served : e <= d
        BY <3>3, <3>4, ConstantsTyped, LatestIs
      <3>6. (CHOOSE d \in served : \A e \in served : e <= d) \in served
        BY <3>5
      <3> QED
        BY <3>3, <3>6 DEF served
    <2>4. published' \in [Symbols -> Days]
      BY <2>2, <2>3 DEF TypeOK
    <2> QED
      BY <1>8, <2>1, <2>4 DEF TypeOK, Tick, store, history
  <1>9. CASE UNCHANGED vars
    BY <1>9 DEF TypeOK, vars, store, history
  <1> QED
    BY <1>1, <1>2, <1>3, <1>4, <1>5, <1>6, <1>7, <1>8, <1>9 DEF Next, Step

\* No step takes a stored bar away, moves the clock back, or takes up and
\* leaves an item other than the head of its terminal's plan.
LEMMA RowsGrow ==
  ASSUME TypeOK, [Next]_vars
  PROVE  /\ now' >= now /\ now \in Int /\ now' \in Int
         /\ \A s \in Symbols : newest'[s] >= newest[s] /\ newest'[s] \in Int /\ newest[s] \in Int
         /\ \A s \in Symbols :
              \/ cursor'[s] = cursor[s] /\ lastRun'[s] = lastRun[s]
              \/ lastRun'[s] = now
  <1>1. TypeOK'
    BY TypeStep
  <1>2. now \in Int /\ now' \in Int /\ \A s \in Symbols : newest'[s] \in Int /\ newest[s] \in Int
    <2>1. /\ now \in Instants /\ now' \in Instants
          /\ newest \in [Symbols -> Days \union {NoDay}] /\ newest' \in [Symbols -> Days \union {NoDay}]
      BY <1>1 DEF TypeOK
    <2>2. \A t \in Instants : t \in Int
      BY ConstantsTyped
    <2>3. \A d \in Days \union {NoDay} : d \in Int
      BY ConstantsTyped
    <2> QED
      BY <2>1, <2>2, <2>3
  <1>3. ASSUME newest' = newest, cursor' = cursor, lastRun' = lastRun, now' = now \/ now' = now + 1
        PROVE  /\ now' >= now
               /\ \A s \in Symbols : newest'[s] >= newest[s]
               /\ \A s \in Symbols : cursor'[s] = cursor[s] /\ lastRun'[s] = lastRun[s]
    BY <1>2, <1>3
  <1>4. ASSUME NEW p \in Procs, plan[p] # <<>>, NEW last \in Days \union {NoDay}, now' = now,
               newest' = [newest EXCEPT ![Head(plan[p]).sym] = Larger(@, last)],
               \/ cursor' = cursor /\ lastRun' = lastRun
               \/ Ran(p, Head(plan[p]), last)
        PROVE  /\ now' >= now
               /\ \A s \in Symbols : newest'[s] >= newest[s]
               /\ \A s \in Symbols : \/ cursor'[s] = cursor[s] /\ lastRun'[s] = lastRun[s]
                                     \/ lastRun'[s] = now
    <2> DEFINE item == Head(plan[p])
    <2>1. item.sym \in Symbols
      BY <1>4, HeadIs DEF Item
    <2>2. Larger(newest[item.sym], last) >= newest[item.sym]
      BY <1>2, <2>1, ConstantsTyped DEF Larger
    <2>3. \A s \in Symbols : newest'[s] >= newest[s]
      BY <1>2, <1>4, <2>1, <2>2 DEF TypeOK
    <2>4. ASSUME Ran(p, item, last), NEW s \in Symbols
          PROVE  \/ cursor'[s] = cursor[s] /\ lastRun'[s] = lastRun[s]
                 \/ lastRun'[s] = now
      <3>1. CASE s # item.sym
        BY <2>4, <3>1 DEF Ran, TypeOK
      <3>2. CASE s = item.sym
        <4>1. cursor'[s] = CursorAfter(item, last) /\ lastRun'[s] = RunAfter(item, last)
          BY <2>1, <2>4, <3>2 DEF Ran, TypeOK
        <4> QED
          BY <3>2, <4>1 DEF CursorAfter, RunAfter
      <3> QED
        BY <3>1, <3>2
    <2> QED
      BY <1>2, <1>4, <2>3, <2>4
  <1>5. CASE Tick \/ UNCHANGED vars
    BY <1>2, <1>3, <1>5 DEF Tick, vars, store
  <1>6. ASSUME NEW p \in Procs, Check(p) \/ Sync(p) \/ Plan(p) \/ Finish(p) \/ Abort(p) \/ Embed(p) \/ Leave(p)
        PROVE  newest' = newest /\ cursor' = cursor /\ lastRun' = lastRun /\ now' = now
    BY <1>6 DEF Check, Sync, Plan, Finish, Abort, Embed, Leave, store
  <1>7. ASSUME NEW p \in Procs, Ok(p) \/ NotOk(p) \/ DiesBetween(p)
        PROVE  \E last \in Days \union {NoDay} :
                 /\ plan[p] # <<>> /\ now' = now
                 /\ newest' = [newest EXCEPT ![Head(plan[p]).sym] = Larger(@, last)]
                 /\ \/ cursor' = cursor /\ lastRun' = lastRun
                    \/ Ran(p, Head(plan[p]), last)
    <2>1. plan[p] # <<>>
      BY <1>7 DEF Ok, NotOk, DiesBetween
    <2>2. Served(Head(plan[p])) \in Days \union {NoDay}
      BY <2>1, HeadIs, ServedIs
    <2> QED
      BY <1>7, <2>1, <2>2 DEF Ok, NotOk, DiesBetween, Ran
  <1> QED
    BY <1>2, <1>3, <1>4, <1>5, <1>6, <1>7 DEF Next, Step

\* The days of a row are numbers.
LEMMA DaysAreNumbers ==
  ASSUME TypeOK, NEW s \in Symbols
  PROVE  newest[s] \in -1 .. MaxDay /\ cursor[s] \in -1 .. MaxDay
  <1>1. newest[s] \in Days \union {NoDay} /\ cursor[s] \in Days \union {NoDay}
    BY DEF TypeOK
  <1> QED
    BY <1>1, ConstantsTyped

\* A symbol that is fresh for a session that was available stays so: a frozen
\* index gets a cursor only by a run that is later.
LEMMA FreshStays ==
  ASSUME TypeOK, [Next]_vars, NEW s \in Symbols, NEW e \in Int,
         AvailableAt(Exchange[s], e) <= now, Fresh(s, e)
  PROVE  Fresh(s, e)' /\ AvailableAt(Exchange[s], e) <= now'
  <1>1. /\ now' >= now /\ now \in Int /\ now' \in Int
        /\ newest'[s] >= newest[s] /\ newest'[s] \in Int /\ newest[s] \in Int
        /\ \/ cursor'[s] = cursor[s] /\ lastRun'[s] = lastRun[s]
           \/ lastRun'[s] = now
    BY RowsGrow
  <1> DEFINE a == AvailableAt(Exchange[s], e)
  <1>2. a \in Int
    BY DEF AvailableAt
  <1>3. newest[s] \in -1 .. MaxDay /\ newest'[s] \in -1 .. MaxDay
    <2>1. TypeOK'
      BY TypeStep
    <2>2. newest'[s] \in Days \union {NoDay}
      BY <2>1 DEF TypeOK
    <2> QED
      BY <2>2, DaysAreNumbers, ConstantsTyped
  <1>4. newest[s] >= e \/ lastRun[s] >= a \/ (s \in Indices /\ newest[s] # NoDay /\ cursor[s] = NoDay)
    BY DEF Fresh, Frozen
  <1>5. a <= now
    OBVIOUS
  <1> HIDE DEF a
  <1>6. newest'[s] >= e \/ lastRun'[s] >= a \/ (s \in Indices /\ newest'[s] # NoDay /\ cursor'[s] = NoDay)
    BY <1>1, <1>2, <1>3, <1>4, <1>5, ConstantsTyped
  <1> QED
    BY <1>1, <1>2, <1>5, <1>6 DEF Fresh, Frozen, a

LEMMA AnsweredStep ==
  ASSUME TypeOK, RunsAnswered, [Next]_vars
  PROVE  RunsAnswered'
  <1>1. ASSUME NEW p \in Procs, Ok(p)
        PROVE  RunsAnswered'
    BY <1>1 DEF Ok, Ran, RunAfter, RunsAnswered
  <1>2. ASSUME NEW p \in Procs, NotOk(p)
        PROVE  RunsAnswered'
    <2> DEFINE item == Head(plan[p])
    <2>1. item.sym \in Symbols
      BY <1>2, HeadIs DEF NotOk, Item
    <2>2. lastRun' = [lastRun EXCEPT ![item.sym] = lastRun[item.sym]]
      BY <1>2 DEF NotOk, Ran, RunAfter
    <2>3. lastRun' = lastRun
      BY <2>1, <2>2 DEF TypeOK
    <2> QED
      BY <1>2, <2>3 DEF NotOk, RunsAnswered, history
  <1> QED
    BY <1>1, <1>2 DEF RunsAnswered, Next, Step, Check, Sync, Plan, DiesBetween, Finish, Abort, Embed, Leave,
                      Tick, vars, store, history

\* What Covered says of one terminal.
CoveredBy(p) ==
  \A x \in {"HK", "US"} :
    /\ AvailableAt(x, sound[p][x]) <= now
    /\ \A s \in Symbols : Exchange[s] = x =>
         Fresh(s, sound[p][x]) \/ \E k \in DOMAIN plan[p] : plan[p][k].sym = s

\* A run whose plan and promise stay as they are stays covered.
LEMMA CoveredStays ==
  ASSUME TypeOK, [Next]_vars, NEW p \in Procs, CoveredBy(p),
         plan'[p] = plan[p], sound'[p] = sound[p]
  PROVE  CoveredBy(p)'
  <1> SUFFICES ASSUME NEW x \in {"HK", "US"}
               PROVE  /\ AvailableAt(x, sound[p][x]) <= now'
                      /\ \A s \in Symbols : Exchange[s] = x =>
                           Fresh(s, sound[p][x])' \/ \E k \in DOMAIN plan[p] : plan[p][k].sym = s
    BY DEF CoveredBy, Fresh, Frozen
  <1>1. sound[p][x] \in Days \union {NoDay} /\ sound[p][x] \in Int
    BY ConstantsTyped DEF TypeOK
  <1>2. AvailableAt(x, sound[p][x]) <= now /\ AvailableAt(x, sound[p][x]) \in Int
    BY <1>1 DEF CoveredBy, AvailableAt
  <1>3. AvailableAt(x, sound[p][x]) <= now'
    BY <1>2, RowsGrow
  <1>4. ASSUME NEW s \in Symbols, Exchange[s] = x, Fresh(s, sound[p][x])
        PROVE  Fresh(s, sound[p][x])'
    <2> DEFINE e == sound[p][x]
    <2>1. e \in Int /\ AvailableAt(Exchange[s], e) <= now /\ Fresh(s, e)
      BY <1>1, <1>2, <1>4
    <2> HIDE DEF e
    <2>2. newest'[s] >= e \/ lastRun'[s] >= AvailableAt(Exchange[s], e) \/ Frozen(s)'
      BY <2>1, FreshStays DEF Fresh
    <2>3. sound'[p][x] = e
      BY DEF e
    <2> QED
      BY <2>2, <2>3 DEF Fresh
  <1> QED
    BY <1>3, <1>4 DEF CoveredBy

\* A new plan has an item for every symbol that is not fresh: an index or a
\* listing is left out when its cursor is of today, an index also when it is
\* frozen.
LEMMA PlanCovers ==
  ASSUME TypeOK, [Next]_vars, NEW p \in Procs, Plan(p)
  PROVE  CoveredBy(p)'
  <1>1. TypeOK' /\ gap' \in [Symbols -> Days \union {NoDay}]
    BY TypeStep DEF TypeOK
  <1>2. /\ plan'[p] = PlanOf(gap') /\ \A x \in {"HK", "US"} : sound'[p][x] = Expected(x)
        /\ now' = now /\ newest' = newest /\ cursor' = cursor /\ lastRun' = lastRun
    BY DEF Plan, TypeOK
  <1>3. ASSUME NEW x \in {"HK", "US"}
        PROVE  /\ Expected(x) \in Days \union {NoDay} /\ AvailableAt(x, Expected(x)) <= now
               /\ Expected(x) <= Today /\ Today \in Days /\ Expected(x) \in Int /\ Today \in Int
    <2>1. now \in Instants
      BY DEF TypeOK
    <2>2. /\ Expected(x) \in Days \union {NoDay} /\ AvailableAt(x, Expected(x)) <= now
          /\ Expected(x) <= Today /\ Today \in Days
      BY <2>1, ExpectedIs DEF Expected, Today
    <2>3. \A d \in Days \union {NoDay} : d \in Int
      BY ConstantsTyped
    <2> QED
      BY <2>2, <2>3
  <1>4. ASSUME NEW s \in Symbols, NEW x \in {"HK", "US"}, Exchange[s] = x,
               ~\E k \in DOMAIN plan'[p] : plan'[p][k].sym = s
        PROVE  newest[s] >= Expected(x) \/ Frozen(s)
    <2>1. /\ ~(s \in Indices /\ (newest[s] = NoDay \/ Incremental(s)))
          /\ ~(s \in Watchlist /\ (cursor[s] = NoDay \/ Incremental(s)))
      BY <1>1, <1>2, <1>4, PlanOfIs
    <2>2. newest[s] \in -1 .. MaxDay /\ cursor[s] \in -1 .. MaxDay /\ cursor[s] <= newest[s]
      BY ConstantsTyped DEF TypeOK
    <2>3. cursor[s] # NoDay /\ ~Incremental(s) => newest[s] >= Expected(x)
      BY <1>3, <2>2 DEF Incremental
    <2>4. CASE s \in Indices
      BY <2>1, <2>3, <2>4 DEF Frozen
    <2>5. CASE s \in Watchlist
      BY <2>1, <2>3, <2>5
    <2> QED
      BY <2>4, <2>5 DEF Symbols
  <1> QED
    BY <1>2, <1>3, <1>4 DEF CoveredBy, Fresh, Frozen

\* Once an item of a run is done, its symbol is fresh; a failed one takes the
\* promise back.
LEMMA ItemCovers ==
  ASSUME TypeOK, [Next]_vars, NEW p \in Procs, CoveredBy(p), Ok(p)
  PROVE  CoveredBy(p)'
  <1> DEFINE item == Head(plan[p])
  <1>1. plan[p] # <<>> /\ item \in Item /\ item.sym \in Symbols
    BY HeadIs DEF Ok, Item
  <1>2. Served(item) \in Days \union {NoDay} /\ Served(item) # NoDay /\ Ran(p, item, Served(item))
    BY <1>1, ServedIs DEF Ok
  <1>3. lastRun'[item.sym] = now /\ now' = now /\ sound' = sound /\ plan'[p] = Tail(plan[p])
    <2>1. lastRun' = [lastRun EXCEPT ![item.sym] = now] /\ plan' = [plan EXCEPT ![p] = Tail(@)]
      BY <1>2 DEF Ran, RunAfter
    <2>2. lastRun'[item.sym] = now
      BY <1>1, <2>1 DEF TypeOK
    <2>3. plan'[p] = Tail(plan[p])
      BY <2>1 DEF TypeOK
    <2> QED
      BY <2>2, <2>3 DEF Ok
  <1>4. ASSUME NEW x \in {"HK", "US"}
        PROVE  /\ AvailableAt(x, sound[p][x]) <= now /\ sound[p][x] \in Int
               /\ \A s \in Symbols : Exchange[s] = x =>
                    Fresh(s, sound[p][x]) \/ \E k \in DOMAIN plan[p] : plan[p][k].sym = s
    BY ConstantsTyped DEF CoveredBy, TypeOK
  <1>5. ASSUME NEW x \in {"HK", "US"}, NEW s \in Symbols, Exchange[s] = x
        PROVE  \/ newest'[s] >= sound[p][x] \/ lastRun'[s] >= AvailableAt(x, sound[p][x]) \/ Frozen(s)'
               \/ \E k \in DOMAIN Tail(plan[p]) : Tail(plan[p])[k].sym = s
    <2> DEFINE e == sound[p][x]
    <2>1. e \in Int /\ AvailableAt(Exchange[s], e) <= now
      BY <1>4, <1>5
    <2> HIDE DEF e
    <2>2. CASE Fresh(s, e)
      <3>1. newest'[s] >= e \/ lastRun'[s] >= AvailableAt(Exchange[s], e) \/ Frozen(s)'
        BY <2>1, <2>2, FreshStays DEF Fresh
      <3> QED
        BY <1>5, <3>1 DEF e
    <2>3. ASSUME NEW k \in DOMAIN plan[p], plan[p][k].sym = s
          PROVE  s = item.sym \/ \E j \in DOMAIN Tail(plan[p]) : Tail(plan[p])[j].sym = s
      BY <1>1, <2>3, HeadIs
    <2>4. CASE s = item.sym
      BY <1>3, <1>5, <2>1, <2>4 DEF e
    <2> QED
      BY <1>4, <1>5, <2>2, <2>3, <2>4 DEF e
  <1> QED
    BY <1>3, <1>4, <1>5 DEF CoveredBy, Fresh

LEMMA FailedCovers ==
  ASSUME TypeOK, [Next]_vars, NEW p \in Procs, NotOk(p)
  PROVE  CoveredBy(p)'
  <1>1. TypeOK' /\ now' \in Nat
    <2>1. TypeOK'
      BY TypeStep
    <2>2. now' \in Instants
      BY <2>1 DEF TypeOK
    <2> QED
      BY <2>1, <2>2, ConstantsTyped
  <1>2. sound'[p] = NotSound
    BY DEF NotOk, TypeOK
  <1>3. \A x \in {"HK", "US"} : NotSound[x] = -1 /\ AvailableAt(x, -1) <= now'
    BY <1>1, ConstantsTyped DEF NotSound, AvailableAt
  <1>4. \A s \in Symbols : newest'[s] >= -1
    <2>1. \A s \in Symbols : newest'[s] \in -1 .. MaxDay
      BY <1>1, ConstantsTyped DEF TypeOK
    <2> QED
      BY <2>1
  <1> QED
    BY <1>2, <1>3, <1>4 DEF CoveredBy, Fresh

LEMMA CoveredStep ==
  ASSUME TypeOK, Covered, [Next]_vars
  PROVE  Covered'
  <1> SUFFICES ASSUME NEW p \in Procs, pc'[p] = "sync"
               PROVE  CoveredBy(p)'
    BY DEF Covered, CoveredBy
  <1>1. CASE Plan(p)
    BY <1>1, PlanCovers
  <1>2. CASE NotOk(p)
    BY <1>2, FailedCovers
  <1>3. CASE Ok(p)
    <2>1. CoveredBy(p)
      BY <1>3 DEF Ok, Covered, CoveredBy
    <2> QED
      BY <1>3, <2>1, ItemCovers
  <1>4. CASE ~Plan(p) /\ ~NotOk(p) /\ ~Ok(p)
    <2>1. pc[p] = "sync" /\ plan'[p] = plan[p] /\ sound'[p] = sound[p]
      <3>1. CASE Tick \/ UNCHANGED vars
        BY <3>1 DEF Tick, vars
      <3>2. CASE Check(p) \/ Sync(p) \/ DiesBetween(p) \/ Finish(p) \/ Abort(p) \/ Embed(p) \/ Leave(p)
        BY <3>2 DEF Check, Sync, DiesBetween, Finish, Abort, Embed, Leave, Goto, TypeOK
      <3>3. ASSUME NEW q \in Procs, q # p, Step(q)
            PROVE  pc'[p] = pc[p] /\ plan'[p] = plan[p] /\ sound'[p] = sound[p]
        BY <3>3 DEF Step, Check, Sync, Plan, Ok, NotOk, Ran, DiesBetween, Finish, Abort, Embed, Leave, Goto, TypeOK
      <3> QED
        BY <1>4, <3>1, <3>2, <3>3 DEF Next, Step
    <2>2. CoveredBy(p)
      BY <2>1 DEF Covered, CoveredBy
    <2> QED
      BY <2>1, <2>2, CoveredStays
  <1> QED
    BY <1>1, <1>2, <1>3, <1>4

LEMMA SettledStep ==
  ASSUME TypeOK, Covered, SettledFresh, [Next]_vars
  PROVE  SettledFresh'
  <1> SUFFICES ASSUME NEW x \in {"HK", "US"}
               PROVE  /\ AvailableAt(x, settled'[x]) <= now'
                      /\ \A s \in Symbols : Exchange[s] = x =>
                           newest'[s] >= settled'[x] \/ lastRun'[s] >= AvailableAt(x, settled'[x]) \/ Frozen(s)'
    BY DEF SettledFresh, Fresh
  <1>1. ASSUME NEW e \in Int, AvailableAt(x, e) <= now, \A s \in Symbols : Exchange[s] = x => Fresh(s, e)
        PROVE  /\ AvailableAt(x, e) <= now'
               /\ \A s \in Symbols : Exchange[s] = x =>
                    newest'[s] >= e \/ lastRun'[s] >= AvailableAt(x, e) \/ Frozen(s)'
    <2>1. AvailableAt(x, e) \in Int
      BY <1>1 DEF AvailableAt
    <2>2. AvailableAt(x, e) <= now'
      BY <1>1, <2>1, RowsGrow
    <2>3. ASSUME NEW s \in Symbols, Exchange[s] = x
          PROVE  newest'[s] >= e \/ lastRun'[s] >= AvailableAt(x, e) \/ Frozen(s)'
      <3>1. Fresh(s, e) /\ AvailableAt(Exchange[s], e) <= now
        BY <1>1, <2>3
      <3>2. Fresh(s, e)'
        BY <3>1, FreshStays
      <3> QED
        BY <2>3, <3>2 DEF Fresh
    <2> QED
      BY <2>2, <2>3
  <1>2. settled[x] \in Int /\ AvailableAt(x, settled[x]) <= now
        /\ \A s \in Symbols : Exchange[s] = x => Fresh(s, settled[x])
    BY ConstantsTyped DEF SettledFresh, TypeOK
  <1>3. ASSUME NEW p \in Procs, Finish(p)
        PROVE  \/ settled'[x] = settled[x]
               \/ /\ settled'[x] = sound[p][x] /\ sound[p][x] \in Int /\ AvailableAt(x, sound[p][x]) <= now
                  /\ \A s \in Symbols : Exchange[s] = x => Fresh(s, sound[p][x])
    <2>1. CoveredBy(p) /\ DOMAIN plan[p] = {}
      BY <1>3 DEF Finish, Covered, CoveredBy
    <2>2. settled'[x] \in {settled[x], sound[p][x]}
      BY <1>3 DEF Finish, Larger
    <2>3. sound[p][x] \in Int
      BY ConstantsTyped DEF TypeOK
    <2> QED
      BY <2>1, <2>2, <2>3 DEF CoveredBy
  <1>4. settled'[x] = settled[x] \/ \E p \in Procs : Finish(p)
    BY DEF Next, Step, Check, Sync, Plan, Ok, NotOk, DiesBetween, Abort, Embed, Leave, Tick, vars, history
  <1> QED
    BY <1>1, <1>2, <1>3, <1>4

-----------------------------------------------------------------------------
(* The theorems.                                                           *)

\* Every behaviour keeps IInv: what a sound run promised stays true of the
\* rows, whatever other terminals, kills and the vendor do.
THEOREM Invariance == Spec => []IInv
  <1>1. ASSUME IInv, [Next]_vars
        PROVE  IInv'
    BY <1>1, TypeStep, CoveredStep, SettledStep, AnsweredStep DEF IInv
  <1> QED
    BY Initially, <1>1, PTL DEF Spec

\* A cursor names a day up to the newest bar, and a track has run exactly
\* when it has a cursor (sync.py _execute, _set_cursor).
THEOREM TypeCorrect == Spec => []TypeOK
  <1>1. IInv => TypeOK
    BY DEF IInv
  <1> QED
    BY Invariance, <1>1, PTL

\* After a sound run the check is quiet until a further session is available,
\* but for a frozen index (freshness.py behind).
THEOREM CheckSettles == Spec => []Settles
  <1>1. ASSUME IInv
        PROVE  Settles
    <2> SUFFICES ASSUME NEW s \in Behind, ~Frozen(s)
                 PROVE  Expected(Exchange[s]) > settled[Exchange[s]]
      BY DEF Settles
    <2> DEFINE x == Exchange[s]
               e == Expected(x)
               d == settled[x]
    <2>1. s \in Symbols /\ x \in {"HK", "US"} /\ newest[s] < e /\ lastRun[s] < AvailableAt(x, e)
      BY ConstantsTyped DEF Behind
    <2>2. newest[s] >= d \/ lastRun[s] >= AvailableAt(x, d)
      BY <1>1, <2>1 DEF IInv, SettledFresh, Fresh
    <2>a. now \in Instants /\ settled[x] \in Days \union {NoDay}
          /\ newest[s] \in Days \union {NoDay} /\ lastRun[s] \in Instants \union {Never}
      BY <1>1, <2>1 DEF IInv, TypeOK
    <2>b. e \in Days \union {NoDay}
      BY <2>1, <2>a, ExpectedIs DEF Expected
    <2>3. e \in -1 .. MaxDay /\ d \in -1 .. MaxDay /\ newest[s] \in Int /\ lastRun[s] \in Int
      BY <2>a, <2>b, ConstantsTyped
    <2>4. \A g \in -1 .. MaxDay : AvailableAt(x, g) = 3 * g + (IF x = "HK" THEN 1 ELSE 2)
      BY DEF AvailableAt
    <2> HIDE DEF e, d
    <2>5. SUFFICES e > d
      BY DEF e, d
    <2>6. newest[s] >= d => e > d
      BY <2>1, <2>3 DEF e
    <2>7. lastRun[s] >= AvailableAt(x, d) => e > d
      <3>1. lastRun[s] < AvailableAt(x, e)
        BY <2>1 DEF e
      <3>2. AvailableAt(x, e) \in Int /\ AvailableAt(x, d) \in Int
        BY <2>3, <2>4
      <3>3. lastRun[s] >= AvailableAt(x, d) => AvailableAt(x, e) > AvailableAt(x, d)
        BY <2>3, <3>1, <3>2
      <3> QED
        BY <2>3, <2>4, <3>3
    <2> QED
      BY <2>2, <2>6, <2>7 DEF d
  <1> QED
    BY Invariance, <1>1, PTL

\* A start that says nothing is right: no failed, empty or deferred item
\* silences the check (freshness.py behind, sync.py _set_cursor).
THEOREM QuietIsHonest == Spec => []QuietHonest
  <1>1. ASSUME IInv
        PROVE  QuietHonest
    <2> SUFFICES ASSUME NEW s \in Symbols, s \notin Behind
                 PROVE  LET x == Exchange[s] IN
                        newest[s] >= Expected(x) \/ answered[s] >= AvailableAt(x, Expected(x))
      BY DEF QuietHonest
    <2> DEFINE x == Exchange[s]
    <2>1. Expected(x) \in Int /\ AvailableAt(x, Expected(x)) \in Int /\ newest[s] \in Int /\ lastRun[s] \in Int
      <3>1. x \in {"HK", "US"} /\ now \in Instants
        BY <1>1, ConstantsTyped DEF IInv, TypeOK
      <3>2. Expected(x) \in -1 .. MaxDay
        BY <3>1, ExpectedIs, ConstantsTyped DEF Expected
      <3>3. newest[s] \in -1 .. MaxDay /\ lastRun[s] \in Int
        BY <1>1, ConstantsTyped DEF IInv, TypeOK
      <3> HIDE DEF x
      <3> QED
        BY <3>2, <3>3, ConstantsTyped DEF AvailableAt
    <2> QED
      BY <1>1, <2>1 DEF IInv, RunsAnswered, Behind
  <1> QED
    BY Invariance, <1>1, PTL

=============================================================================
