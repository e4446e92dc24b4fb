-------------------------- MODULE MarketSyncProofs --------------------------
(***************************************************************************)
(* The safety properties of MarketSync, proved for every set of symbols,  *)
(* every calendar, every cap and every bound.                             *)
(*                                                                         *)
(* None of them is inductive alone: what an action of a run may do depends *)
(* on which item is in flight and on what the earlier actions of the same *)
(* item left behind.  IInv adds those facts, and that nothing in the store *)
(* is ahead of the clock, on which all that detection finds depends.       *)
(***************************************************************************)
EXTENDS MarketSync, WellFoundedInduction, TLAPS

Busy == pc \notin {"idle", "exec"}

\* The item in flight is a plan item, and the phases that only a gap repair
\* goes through are only reached by one.
InFlight ==
  /\ Busy => item \in Item
  /\ pc \in {"close", "resolve", "account"} => item.kind = "gap-repair"

\* calls_today never exceeds the cap on the date it was written for, and no
\* row is dated in the future: so a lazy reset is never undone.
RowsDated ==
  /\ budget.calls <= Cap
  /\ budget.date <= today
  /\ share.date <= today

\* Between store_bars and _set_cursor the newest date of the answer is stored,
\* and inside the range that was asked for.
LastStored ==
  pc = "cursor" => last \in bars[item.sym] /\ item.from <= last /\ last <= item.to

\* Before the gap row is resolved, a bar inside its range is stored.
RepairStored ==
  pc = "resolve" => \E d \in item.from .. item.to : d \in bars[item.sym]

\* Counted attempts lie on different days, the first not before detection.
AttemptsPaced ==
  \A k \in GapKey :
    /\ gaps[k].tried <= today
    /\ gaps[k].since <= today
    /\ gaps[k].attempts # 0 => gaps[k].tried >= gaps[k].since + gaps[k].attempts - 1

\* A gap is only closed as no-data after the third counted attempt.
CloseCounted == pc = "close" => gaps[KeyOf(item)].attempts >= MaxEmptyAttempts

NoDataCounted ==
  \A k \in GapKey : gaps[k].status = "no-data" => gaps[k].attempts >= MaxEmptyAttempts

\* While no run was killed or straddled midnight, the share row holds the
\* day's repairs, short of the one in flight, and gap_spent agrees with it.
ShareBooked ==
  midnights = 0 /\ crashes = 0 =>
    /\ repairs <= Quota
    /\ pc # "idle" => gapSpent = Used(share)
    /\ IF Busy /\ item.kind = "gap-repair"
       THEN /\ repairs = Used(share) + 1
            /\ Used(budget) - before = 1
       ELSE repairs = Used(share)

\* No stored day, cursor, open gap or planned request lies in the future: the
\* plan asks up to today, and the calendar is made of stored days.
NothingAhead ==
  /\ \A s \in Symbols : (\A d \in bars[s] : d <= today) /\ cursor[s] <= today
  /\ \A k \in GapKey : gaps[k].status = "open" => k[3] <= today
  /\ \A it \in plan : it.to <= today
  /\ Busy => item.to <= today
  /\ last <= today

\* While crashes = 0, bars without a cursor are those of the item whose
\* cursor is written next.
CursorFollows ==
  crashes = 0 =>
    \A s \in Symbols : cursor[s] = NoDate /\ bars[s] # {} => pc = "cursor" /\ item.sym = s

\* While crashes = 0, an open gap is a symbol's whole window or starts at
\* or behind its cursor.
GapsOfCursor ==
  crashes = 0 =>
    \A k \in GapKey : gaps[k].status = "open" =>
      k[2] = 1 \/ (cursor[k[1]] # NoDate /\ k[2] <= cursor[k[1]])

IInv ==
  /\ TypeOK /\ InFlight /\ RowsDated
  /\ CursorBacked /\ LastStored
  /\ FilledGapHasBars /\ RepairStored
  /\ AttemptsPaced /\ CloseCounted /\ NoDataCounted
  /\ ShareBooked
  /\ NothingAhead /\ CursorFollows /\ GapsOfCursor

-----------------------------------------------------------------------------
(* What the operators return. *)

\* Detection only opens rows: whatever it finds, every row stays a row.
LEMMA EnqueuedIsRows ==
  ASSUME TypeOK
  PROVE  Enqueued \in [GapKey -> GapRow]
<1>1. ASSUME NEW k \in GapKey PROVE Insert(gaps[k]) \in GapRow /\ gaps[k] \in GapRow
  <2>1. gaps[k] \in GapRow  BY DEF TypeOK
  <2>2. today \in DateOrNull /\ NoDate \in DateOrNull  BY DEF TypeOK, DateOrNull
  <2>. QED  BY <2>1, <2>2 DEF Insert, GapRow
<1>. QED  BY <1>1 DEF Enqueued

\* A request from the cursor is planned only where there is a cursor, so every
\* plan item has a proper range (_plan's sync_from).
LEMMA PlanIsItems ==
  ASSUME TypeOK, NEW g \in [GapKey -> GapRow]
  PROVE  Plan(g) \subseteq Item
<1>1. today \in Days /\ 1 \in Days
  BY DaysAssumption DEF TypeOK, Days
<1>2. ASSUME NEW s \in Symbols, NEW noHistory \in BOOLEAN, NEW class \in 0 .. 3,
             noHistory \/ cursor[s] # NoDate
      PROVE  Fetch(s, noHistory, class) \in Item
  <2>1. (IF noHistory THEN 1 ELSE cursor[s]) \in Days
    BY <1>1, <1>2 DEF TypeOK, DateOrNull
  <2>2. Order[s] \in Nat  BY SymbolsAssumption
  <2>. QED  BY <1>1, <2>1, <2>2 DEF Fetch, Item
<1>3. IndexItems \subseteq Item
  <2>1. ASSUME NEW s \in Indices, bars[s] = {} \/ cursor[s] # NoDate
        PROVE  Fetch(s, bars[s] = {}, 0) \in Item
    <3>1. s \in Symbols /\ 0 \in 0 .. 3  BY DEF Symbols
    <3>2. (bars[s] = {}) \in BOOLEAN  OBVIOUS
    <3>. QED  BY ONLY <1>2, <2>1, <3>1, <3>2, Zenon
  <2>. QED  BY <2>1 DEF IndexItems
<1>4. GapItems(g) \subseteq Item
  <2>1. ASSUME NEW k \in GapKey
        PROVE  [kind |-> "gap-repair", sym |-> k[1], from |-> k[2], to |-> k[3],
                class |-> 1, ord |-> g[k].since] \in Item
    <3>1. g[k].since \in Nat  BY DaysAssumption DEF GapRow, DateOrNull, Days, NoDate
    <3>2. k[1] \in Symbols /\ k[2] \in Days /\ k[3] \in Days  BY DEF GapKey
    <3>. QED  BY <3>1, <3>2 DEF Item
  <2>. QED  BY <2>1 DEF GapItems
<1>5. WatchItems \subseteq Item
  <2>1. ASSUME NEW s \in Watch
        PROVE  Fetch(s, cursor[s] = NoDate, 2) \in Item
    <3>1. s \in Symbols /\ 2 \in 0 .. 3  BY DEF Symbols
    <3>2. (cursor[s] = NoDate) \in BOOLEAN  OBVIOUS
    <3>. QED  BY ONLY <1>2, <3>1, <3>2, Zenon
  <2>. QED  BY <2>1 DEF WatchItems, Active
<1>6. FundItems \subseteq Item
  <2>1. ASSUME NEW s \in Symbols
        PROVE  [kind |-> "fundamentals", sym |-> s, from |-> 1, to |-> today,
                class |-> 3, ord |-> Order[s]] \in Item
    BY <1>1, SymbolsAssumption DEF Item
  <2>. QED  BY <2>1 DEF FundItems, Symbols, Active
<1>. QED  BY <1>3, <1>4, <1>5, <1>6 DEF Plan

\* A row whose empty answers are counted is still a row.
LEMMA CountedIsRow ==
  ASSUME NEW row \in GapRow, today \in DateOrNull
  PROVE  CountAttempt(row) \in GapRow
<1>1. [row EXCEPT !.attempts = @ + 1, !.tried = today] \in GapRow
  <2>1. row.attempts + 1 \in Nat  BY DEF GapRow
  <2>. QED  BY <2>1 DEF GapRow
<1>. QED  BY <1>1, Zenon DEF CountAttempt

\* What the vendor can answer lies in the range asked for.
LEMMA AvailableInRange ==
  ASSUME NEW it, NEW d \in Available(it)
  PROVE  d \in Days /\ it.from <= d /\ d <= it.to
BY DaysAssumption DEF Available

\* A row that is resolved, or left, is still a row.
LEMMA ResolvedIsRow ==
  ASSUME NEW row \in GapRow, NEW as \in {"filled", "no-data"}
  PROVE  Resolve(row, as) \in GapRow
<1>1. [row EXCEPT !.status = as] \in GapRow  BY DEF GapRow
<1>. QED  BY <1>1 DEF Resolve

-----------------------------------------------------------------------------
(* missing_ranges: what the ranges of a set of days say of the set. *)

\* A set of days has an earliest one.
LEMMA EarliestIs ==
  ASSUME NEW S, S \subseteq Nat, S # {}
  PROVE  \E d \in S : \A e \in S : d <= e
<1>1. PICK d \in S : \A e \in S : <<e, d>> \notin OpToRel(<, Nat)
  BY WFMin, NatLessThanWellFounded, Zenon
<1>2. ASSUME NEW e \in S
      PROVE  d <= e
  <2>1. d \in Nat /\ e \in Nat  OBVIOUS
  <2>2. ~(e < d)  BY <1>1, <2>1 DEF OpToRel
  <2>. QED  BY <2>1, <2>2
<1>. QED  BY <1>2

\* Every missing day lies in a range: detection overlooks none.
LEMMA RangesCover ==
  ASSUME NEW m, m \subseteq Days, NEW d \in m
  PROVE  \E r \in Ranges(m) : r[1] <= d /\ d <= r[2]
<1>1. MaxDay \in Nat /\ \A x \in m : x \in 1 .. MaxDay
  BY DaysAssumption DEF Days
<1>2. PICK lo \in m : /\ lo <= d /\ (lo .. d) \subseteq m
                      /\ (lo - 1) \notin m
  <2> DEFINE S == {x \in m : x <= d /\ (x .. d) \subseteq m}
  <2>1. S \subseteq Nat /\ d \in S
    BY <1>1
  <2> HIDE DEF S
  <2>2. PICK lo \in S : \A e \in S : lo <= e
    BY <2>1, EarliestIs
  <2>3. lo \in m /\ lo <= d /\ (lo .. d) \subseteq m
    BY <2>2 DEF S
  <2>4. (lo - 1) \notin m
    <3>1. SUFFICES ASSUME (lo - 1) \in m
                   PROVE  FALSE
      OBVIOUS
    <3>2. lo \in Int /\ d \in Int  BY <1>1, <2>3
    <3>3. (lo - 1 .. d) \subseteq m
      <4>1. \A x \in lo - 1 .. d : x = lo - 1 \/ x \in lo .. d  BY <3>2
      <4>. QED  BY <2>3, <3>1, <4>1
    <3>4. lo - 1 \in S  BY <2>3, <3>1, <3>2, <3>3 DEF S
    <3>. QED  BY <2>2, <3>2, <3>4
  <2>. QED  BY <2>3, <2>4
<1>3. PICK hi \in m : /\ d <= hi /\ (d .. hi) \subseteq m
                      /\ (hi + 1) \notin m
  <2> DEFINE U == {n \in Nat : (d + n) \notin m}
  <2>1. d \in Nat /\ MaxDay \in Nat  BY <1>1
  <2>2. U \subseteq Nat /\ MaxDay \in U
    <3>1. d + MaxDay > MaxDay  BY <1>1
    <3>2. (d + MaxDay) \notin m  BY <1>1, <2>1, <3>1
    <3>. QED  BY <2>1, <3>2
  <2> HIDE DEF U
  <2>3. PICK n \in U : \A e \in U : n <= e
    BY <2>2, EarliestIs
  <2>4. n \in Nat /\ (d + n) \notin m
    BY <2>3 DEF U
  <2>5. n # 0
    BY <2>1, <2>4
  <2>6. ASSUME NEW x \in d .. d + n - 1
        PROVE  x \in m
    <3>1. x - d \in Nat /\ x - d < n /\ d + (x - d) = x  BY <2>1, <2>4
    <3>2. (x - d) \notin U  BY <2>3, <2>4, <3>1
    <3>. QED  BY <3>1, <3>2 DEF U
  <2>7. d + n - 1 \in d .. d + n - 1 /\ (d + n - 1) + 1 = d + n  BY <2>1, <2>4, <2>5
  <2>8. d <= d + n - 1 /\ (d .. d + n - 1) \subseteq m /\ ((d + n - 1) + 1) \notin m
    BY <2>1, <2>4, <2>5, <2>6, <2>7
  <2>9. d + n - 1 \in m  BY <2>6, <2>7
  <2>. QED  BY <2>8, <2>9
<1>4. <<lo, hi>> \in Ranges(m)
  <2>1. lo \in Int /\ hi \in Int /\ d \in Int  BY <1>1
  <2>2. \A x \in lo .. hi : x \in lo .. d \/ x \in d .. hi  BY <2>1
  <2>3. (lo .. hi) \subseteq m  BY <1>2, <1>3, <2>2
  <2>4. lo <= hi  BY <1>2, <1>3, <2>1
  <2>. QED  BY <1>2, <1>3, <2>3, <2>4 DEF Ranges
<1>. QED  BY <1>2, <1>3, <1>4

\* Two ranges that share a day, or touch, are one: no day is queued twice by
\* one detection, and no run of missing days is queued in pieces.
LEMMA RangesApart ==
  ASSUME NEW m, m \subseteq Days, NEW q \in Ranges(m), NEW r \in Ranges(m),
         q[1] <= r[2] + 1, r[1] <= q[2] + 1
  PROVE  q = r
<1>1. /\ q \in m \X m /\ r \in m \X m
      /\ q[1] <= q[2] /\ (q[1] .. q[2]) \subseteq m /\ (q[1] - 1) \notin m /\ (q[2] + 1) \notin m
      /\ r[1] <= r[2] /\ (r[1] .. r[2]) \subseteq m /\ (r[1] - 1) \notin m /\ (r[2] + 1) \notin m
  BY DEF Ranges
<1>2. q[1] \in Int /\ q[2] \in Int /\ r[1] \in Int /\ r[2] \in Int
  <2>1. \A x \in m : x \in Int  BY DEF Days
  <2>2. q[1] \in m /\ q[2] \in m /\ r[1] \in m /\ r[2] \in m  BY <1>1
  <2>. QED  BY <2>1, <2>2
<1>3. q[1] = r[1]
  <2>1. ~(q[1] < r[1])
    <3>1. q[1] < r[1] => r[1] - 1 \in q[1] .. q[2]  BY <1>2
    <3>. QED  BY <1>1, <3>1
  <2>2. ~(r[1] < q[1])
    <3>1. r[1] < q[1] => q[1] - 1 \in r[1] .. r[2]  BY <1>2
    <3>. QED  BY <1>1, <3>1
  <2>. QED  BY <1>2, <2>1, <2>2
<1>4. q[2] = r[2]
  <2>1. ~(q[2] < r[2])
    <3>1. q[2] < r[2] => q[2] + 1 \in r[1] .. r[2]  BY <1>1, <1>2, <1>3
    <3>. QED  BY <1>1, <3>1
  <2>2. ~(r[2] < q[2])
    <3>1. r[2] < q[2] => r[2] + 1 \in q[1] .. q[2]  BY <1>1, <1>2, <1>3
    <3>. QED  BY <1>1, <3>1
  <2>. QED  BY <1>2, <2>1, <2>2
<1>. QED  BY <1>1, <1>3, <1>4

-----------------------------------------------------------------------------
(* Types and the item in flight. *)

\* The initial state satisfies every part of the invariant.
LEMMA InitInvariant == Init => IInv
<1>. SUFFICES ASSUME Init PROVE IInv
  OBVIOUS
<1>. USE DEF Init, NoDate
<1>1. TypeOK
  <2>1. NoGap \in GapRow  BY DEF NoGap, GapRow, DateOrNull
  <2>2. today \in Days  BY DaysAssumption DEF Days
  <2>. QED  BY <2>1, <2>2, BudgetAssumption DEF TypeOK, DateOrNull, Counter
<1>2. InFlight /\ RowsDated
  BY BudgetAssumption DEF InFlight, Busy, RowsDated
<1>3. CursorBacked /\ LastStored /\ RepairStored /\ CloseCounted
  BY DEF CursorBacked, LastStored, RepairStored, CloseCounted
<1>4. FilledGapHasBars /\ AttemptsPaced /\ NoDataCounted
  BY DEF FilledGapHasBars, AttemptsPaced, NoDataCounted, NoGap
<1>5. ShareBooked
  <2>1. Quota \in Nat /\ Quota >= 1  BY BudgetAssumption DEF Quota
  <2>. QED  BY <2>1 DEF ShareBooked, Busy, Used
<1>6. NothingAhead /\ CursorFollows /\ GapsOfCursor
  BY DEF NothingAhead, CursorFollows, GapsOfCursor, Busy, NoGap
<1>. QED  BY <1>1, <1>2, <1>3, <1>4, <1>5, <1>6 DEF IInv

\* _execute returns to the loop, or to the booking of a gap repair.
LEMMA ReturnPhase ==
  ASSUME Return, InFlight, TypeOK
  PROVE  /\ pc' \in {"exec", "account"} /\ last' = NoDate
         /\ pc' = "account" <=> item.kind = "gap-repair"
         /\ pc' = "account" => item' = item /\ before' = before
         /\ item' \in {item, NoItem} /\ before' \in {before, 0}
BY DEF Return

\* Every step keeps the variables in their types.
LEMMA TypePreserved ==
  ASSUME TypeOK, InFlight, [Next]_vars
  PROVE  TypeOK'
<1>. USE DEF store, locals, bounds, history, Busy
<1>0. CASE UNCHANGED vars
  BY <1>0 DEF vars, TypeOK
<1>1. CASE BeginRun
  <2>1. plan' \subseteq Item /\ gaps' \in [GapKey -> GapRow]
    BY <1>1, EnqueuedIsRows, PlanIsItems DEF BeginRun
  <2>2. gapSpent' \in Int  BY <1>1 DEF BeginRun, TypeOK, Counter, Used
  <2>3. faults' \in Nat BY <1>1 DEF BeginRun, TypeOK
  <2>4. live' \in BOOLEAN  BY <1>1, Zenon DEF BeginRun
  <2>. QED  BY <1>1, <2>1, <2>2, <2>3, <2>4 DEF BeginRun, TypeOK
<1>2. CASE Skip
  BY <1>2 DEF Skip, TypeOK
<1>3. CASE Send
  <2>. PICK it \in plan : /\ plan' = plan \ {it}
                          /\ item' = it
                          /\ budget' = Spend(budget, Cost(it))
                          /\ before' = Used(budget)
                          /\ repairs' = IF it.kind = "gap-repair" THEN repairs + 1 ELSE repairs
    BY <1>3 DEF Send
  <2>1. Used(budget) \in Int  BY DEF Used, TypeOK, Counter
  <2>2. Cost(it) \in Int  BY BudgetAssumption DEF Cost
  <2>3. budget' \in Counter  BY <2>1, <2>2 DEF Spend, Counter, TypeOK, DateOrNull
  <2>. QED  BY <1>3, <2>1, <2>3 DEF Send, TypeOK
<1>4. CASE FetchFails \/ WriteFails
  BY <1>4, ReturnPhase DEF FetchFails, WriteFails, TypeOK, DateOrNull
<1>5. CASE EmptyRepair
  <2>1. item \in Item /\ KeyOf(item) \in GapKey
    BY <1>5 DEF EmptyRepair, InFlight, Item, KeyOf, GapKey
  <2>2. CountAttempt(gaps[KeyOf(item)]) \in GapRow
    BY <2>1, CountedIsRow DEF TypeOK, DateOrNull
  <2>3. gaps' \in [GapKey -> GapRow]
    BY <1>5, <2>1, <2>2 DEF EmptyRepair, TypeOK
  <2>. QED  BY <1>5, <2>3 DEF EmptyRepair, Answers, TypeOK
<1>6. CASE EmptyFetch
  BY <1>6, ReturnPhase DEF EmptyFetch, Answers, TypeOK, DateOrNull
<1>7. CASE StoreBars
  <2>. PICK rows \in SUBSET Available(item) :
              /\ bars' = [bars EXCEPT ![item.sym] = @ \union rows]
              /\ \E d \in rows : last' = d
    BY <1>7 DEF StoreBars
  <2>1. rows \subseteq Days  BY AvailableInRange
  <2>2. bars' \in [Symbols -> SUBSET Days] /\ last' \in DateOrNull
    BY <2>1 DEF TypeOK, DateOrNull
  <2>3. faults' \in Nat  BY <1>7 DEF StoreBars, Answers, TypeOK
  <2>. QED  BY <1>7, <2>2, <2>3 DEF StoreBars, TypeOK
<1>8. CASE CloseNoData
  <2>1. gaps' \in [GapKey -> GapRow]
    BY <1>8, ResolvedIsRow DEF CloseNoData, TypeOK
  <2>. QED  BY <1>8, <2>1, ReturnPhase DEF CloseNoData, TypeOK, DateOrNull
<1>9. CASE SetCursor
  <2>1. cursor' \in [Symbols -> DateOrNull]
    BY <1>9 DEF SetCursor, NewCursor, TypeOK
  <2>2. /\ pc' \in {"exec", "account", "resolve"} /\ last' = NoDate
        /\ item' \in {item, NoItem} /\ before' \in {before, 0}
    BY <1>9, ReturnPhase DEF SetCursor
  <2>. QED  BY <1>9, <2>1, <2>2 DEF SetCursor, TypeOK, DateOrNull
<1>10. CASE ResolveGap
  <2>1. gaps' \in [GapKey -> GapRow]
    BY <1>10, ResolvedIsRow DEF ResolveGap, TypeOK
  <2>. QED  BY <1>10, <2>1, ReturnPhase DEF ResolveGap, TypeOK, DateOrNull
<1>11. CASE FundsStored
  <2>1. funds' \subseteq Symbols
    <3>1. item \in Item  BY <1>11 DEF FundsStored, InFlight
    <3>2. item.sym \in Symbols  BY <3>1 DEF Item
    <3>. QED  BY <1>11, <3>2 DEF FundsStored, TypeOK
  <2>. QED  BY <1>11, <2>1, ReturnPhase DEF FundsStored, TypeOK, DateOrNull
<1>12. CASE FundsDenied
  BY <1>12, ReturnPhase DEF FundsDenied, TypeOK, DateOrNull
<1>13. CASE Account
  <2>1. Delta \in Int  BY DEF Delta, Used, TypeOK, Counter
  <2>2. share' \in Counter
    BY <1>13, <2>1 DEF Account, Booked, Spend, Used, TypeOK, Counter, DateOrNull
  <2>. QED  BY <1>13, <2>1, <2>2 DEF Account, TypeOK
<1>14. CASE FinishRun
  BY <1>14, EnqueuedIsRows DEF FinishRun, TypeOK
<1>15. CASE Crash
  BY <1>15 DEF Crash, TypeOK, DateOrNull
<1>16. CASE Tick
  BY <1>16, DaysAssumption DEF Tick, TypeOK, Days
<1>17. CASE Lose
  BY <1>17 DEF Lose, TypeOK
<1>18. ASSUME NEW s \in Watch, Add(s) PROVE TypeOK'
  <2>1. Insert(gaps[<<s, 1, today>>]) \in GapRow
    <3>1. <<s, 1, today>> \in GapKey
      BY DaysAssumption DEF GapKey, TypeOK, Days, Symbols
    <3>. QED  BY <3>1 DEF Insert, TypeOK, GapRow, DateOrNull
  <2>2. gaps' \in [GapKey -> GapRow]  BY <1>18, <2>1 DEF Add, TypeOK
  <2>. QED  BY <1>18, <2>2 DEF Add, TypeOK
<1>19. ASSUME NEW s \in Watch, Remove(s) PROVE TypeOK'
  BY <1>19 DEF Remove, TypeOK
<1>. QED
  BY <1>0, <1>1, <1>2, <1>3, <1>4, <1>5, <1>6, <1>7, <1>8, <1>9, <1>10, <1>11,
     <1>12, <1>13, <1>14, <1>15, <1>16, <1>17, <1>18, <1>19 DEF Next, RunStep

\* Whoever reaches a phase holds a plan item of the kind the phase is for.
LEMMA PhasePreserved ==
  ASSUME TypeOK, InFlight, [Next]_vars
  PROVE  InFlight'
<1>. USE DEF store, locals, bounds, history, Busy, InFlight
<1>1. CASE Send
  <2>1. item' \in Item  BY <1>1 DEF Send, TypeOK
  <2>. QED  BY <1>1, <2>1 DEF Send
<1>2. CASE EmptyRepair
  BY <1>2 DEF EmptyRepair
<1>3. CASE StoreBars
  BY <1>3 DEF StoreBars
<1>4. CASE SetCursor
  BY <1>4, ReturnPhase DEF SetCursor
<1>5. CASE FetchFails \/ WriteFails \/ EmptyFetch \/ CloseNoData \/ ResolveGap \/ FundsStored \/ FundsDenied
  <2>1. Return /\ item \in Item
    BY <1>5 DEF FetchFails, WriteFails, EmptyFetch, CloseNoData, ResolveGap, FundsStored, FundsDenied
  <2>. QED  BY <2>1, ReturnPhase
<1>6. CASE BeginRun \/ Skip \/ Account \/ FinishRun \/ Crash
  BY <1>6 DEF BeginRun, Skip, Account, FinishRun, Crash
<1>7. CASE Tick \/ Lose \/ (\E s \in Watch : Add(s) \/ Remove(s)) \/ UNCHANGED vars
  <2>1. UNCHANGED <<pc, item>>
    BY <1>7 DEF Tick, Lose, Add, Remove, vars
  <2>. QED  BY <2>1
<1>. QED
  BY <1>1, <1>2, <1>3, <1>4, <1>5, <1>6, <1>7 DEF Next, RunStep

-----------------------------------------------------------------------------
(* The budget: what a step can do to the rows of sync_state. *)

\* try_spend is the only writer of the budget row, and only within the cap.
LEMMA BudgetStep ==
  ASSUME TypeOK, [Next]_vars
  PROVE  \/ budget' = budget
         \/ \E n \in Nat : Used(budget) + n <= Cap /\ budget' = Spend(budget, n) /\ today' = today
<1>. USE DEF store, locals, bounds, history
<1>1. CASE Send
  <2>. PICK it \in plan : Affordable(Cost(it)) /\ budget' = Spend(budget, Cost(it))
    BY <1>1 DEF Send
  <2>1. Cost(it) \in Nat  BY BudgetAssumption DEF Cost
  <2>. QED  BY <1>1, <2>1 DEF Affordable, Send
<1>2. CASE ~Send
  <2>1. budget' = budget
    BY <1>2 DEF Next, RunStep, BeginRun, Skip, FetchFails, WriteFails, EmptyRepair, EmptyFetch,
         StoreBars, CloseNoData, SetCursor, ResolveGap, FundsStored, FundsDenied,
         Account, FinishRun, Crash, Tick, Lose, Add, Remove, vars
  <2>. QED  BY <2>1
<1>. QED  BY <1>1, <1>2

\* The booking of a gap repair is the only writer of the share row.
LEMMA ShareStep ==
  ASSUME [Next]_vars
  PROVE  \/ share' = share
         \/ Account
<1>. USE DEF store, locals, bounds, history
<1>. QED
  BY DEF Next, RunStep, BeginRun, Skip, Send, FetchFails, WriteFails, EmptyRepair, EmptyFetch,
       StoreBars, CloseNoData, SetCursor, ResolveGap, FundsStored, FundsDenied,
       FinishRun, Crash, Tick, Lose, Add, Remove, vars

\* Days only go forward, one at a time.
LEMMA DayStep ==
  ASSUME TypeOK, [Next]_vars
  PROVE  \/ today' = today
         \/ Tick
<1>. USE DEF store, locals, bounds, history
<1>. QED
  BY DEF Next, RunStep, BeginRun, Skip, Send, FetchFails, WriteFails, EmptyRepair, EmptyFetch,
       StoreBars, CloseNoData, SetCursor, ResolveGap, FundsStored, FundsDenied,
       Account, FinishRun, Crash, Lose, Add, Remove, vars

\* No row of the store is ever dated in the future, or counts past the cap.
LEMMA RowsPreserved ==
  ASSUME TypeOK, RowsDated, [Next]_vars
  PROVE  RowsDated'
<1>. USE DEF RowsDated, Counter, DateOrNull, Days, NoDate
<1>1. today' \in Int /\ today \in Int /\ today <= today'
  BY DayStep DEF TypeOK, Tick
<1>2. budget'.calls <= Cap /\ budget'.date <= today'
  BY <1>1, BudgetStep DEF Spend, TypeOK
<1>3. share'.date <= today'
  <2>1. CASE share' = share
    BY <1>1, <2>1 DEF TypeOK
  <2>2. CASE Account
    <3>1. share' \in {share, Spend(share, Delta)} /\ today' = today
      BY <2>2 DEF Account, Booked
    <3>. QED  BY <1>1, <3>1 DEF Spend, TypeOK
  <2>. QED  BY <2>1, <2>2, ShareStep
<1>. QED  BY <1>2, <1>3
-----------------------------------------------------------------------------
(* Bars and cursors. *)

\* A stored bar stays, unless it is deleted behind the program's back.
LEMMA BarStep ==
  ASSUME TypeOK, InFlight, [Next]_vars,
         NEW s \in Symbols, NEW d \in Days, d \in bars[s] \/ <<s, d>> \in lost
  PROVE  d \in bars'[s] \/ <<s, d>> \in lost'
<1>. USE DEF store, locals, bounds, history
<1>1. CASE StoreBars
  <2>1. bars[s] \subseteq bars'[s] /\ lost' = lost
    BY <1>1 DEF StoreBars, TypeOK
  <2>. QED  BY <2>1
<1>2. CASE Lose
  <2>. PICK u \in Symbols, e \in Days :
              /\ bars' = [bars EXCEPT ![u] = @ \ {e}]
              /\ lost' = lost \union {<<u, e>>}
    BY <1>2 DEF Lose, TypeOK
  <2>1. CASE s = u /\ d = e
    BY <2>1
  <2>2. CASE ~(s = u /\ d = e)
    BY <2>2 DEF TypeOK
  <2>. QED  BY <2>1, <2>2
<1>3. CASE ~StoreBars /\ ~Lose
  <2>1. bars' = bars /\ lost' = lost
    BY <1>3 DEF Next, RunStep, BeginRun, Skip, Send, FetchFails, WriteFails, EmptyRepair, EmptyFetch,
         CloseNoData, SetCursor, ResolveGap, FundsStored, FundsDenied,
         Account, FinishRun, Crash, Tick, Add, Remove, vars
  <2>. QED  BY <2>1
<1>. QED  BY <1>1, <1>2, <1>3

\* Only the step after store_bars moves a cursor, to a date just stored.
LEMMA CursorStep ==
  ASSUME [Next]_vars
  PROVE  \/ cursor' = cursor
         \/ /\ pc = "cursor"
            /\ cursor' = [cursor EXCEPT ![item.sym] = NewCursor(@, last)]
            /\ UNCHANGED <<bars, lost>>
<1>. USE DEF store, locals, bounds, history
<1>1. CASE SetCursor
  BY <1>1 DEF SetCursor
<1>2. CASE ~SetCursor
  BY <1>2 DEF Next, RunStep, BeginRun, Skip, Send, FetchFails, WriteFails, EmptyRepair, EmptyFetch,
       StoreBars, CloseNoData, ResolveGap, FundsStored, FundsDenied,
       Account, FinishRun, Crash, Tick, Lose, Add, Remove, vars
<1>. QED  BY <1>1, <1>2

\* A cursor keeps naming a stored bar: bars stay and cursors move onto bars.
LEMMA CursorPreserved ==
  ASSUME TypeOK, InFlight, CursorBacked, LastStored, [Next]_vars
  PROVE  CursorBacked'
<1>. SUFFICES ASSUME NEW s \in Symbols, cursor'[s] # NoDate
              PROVE  cursor'[s] \in bars'[s] \/ <<s, cursor'[s]>> \in lost'
  BY DEF CursorBacked
<1>1. cursor'[s] \in Days  BY TypePreserved DEF TypeOK, DateOrNull
<1>2. cursor'[s] \in bars[s] \/ <<s, cursor'[s]>> \in lost
  <2>1. CASE cursor'[s] = cursor[s]
    BY <2>1 DEF CursorBacked
  <2>2. CASE cursor'[s] # cursor[s]
    <3>1. pc = "cursor" /\ s = item.sym /\ cursor'[s] = last
      BY <2>2, CursorStep DEF NewCursor, TypeOK
    <3>. QED  BY <3>1 DEF LastStored
  <2>. QED  BY <2>1, <2>2
<1>. QED  BY <1>1, <1>2, BarStep

\* No other step comes between the two writes of one answer.
LEMMA LastPreserved ==
  ASSUME TypeOK, InFlight, LastStored, [Next]_vars
  PROVE  LastStored'
<1>. USE DEF store, locals, bounds, history, LastStored
<1>1. CASE StoreBars
  <2>. PICK rows \in SUBSET Available(item) :
              /\ bars' = [bars EXCEPT ![item.sym] = @ \union rows]
              /\ \E d \in rows : last' = d
    BY <1>1 DEF StoreBars
  <2>1. item \in Item /\ item' = item
    BY <1>1 DEF StoreBars, InFlight, Busy
  <2>2. item.sym \in Symbols  BY <2>1 DEF Item
  <2>3. last' \in bars'[item.sym]  BY <2>2 DEF TypeOK
  <2>4. item.from <= last' /\ last' <= item.to  BY AvailableInRange
  <2>. QED  BY <2>1, <2>3, <2>4
<1>2. CASE Tick \/ UNCHANGED vars
  BY <1>2 DEF Tick, vars
<1>3. CASE RunStep /\ ~StoreBars
  <2>1. pc' # "cursor"
    <3>1. CASE Return
      BY <3>1 DEF Return
    <3>2. CASE ~Return
      BY <1>3, <3>2 DEF RunStep, BeginRun, Skip, Send, FetchFails, WriteFails, EmptyRepair, EmptyFetch,
           CloseNoData, SetCursor, ResolveGap, FundsStored, FundsDenied, Account, FinishRun
    <3>. QED  BY <3>1, <3>2
  <2>. QED  BY <2>1
<1>4. CASE Crash \/ Lose \/ (\E s \in Watch : Add(s) \/ Remove(s))
  <2>1. pc' = "idle"  BY <1>4 DEF Crash, Lose, Add, Remove
  <2>. QED  BY <2>1
<1>. QED  BY <1>1, <1>2, <1>3, <1>4 DEF Next
-----------------------------------------------------------------------------
(* The gap queue. *)

Opened == [status |-> "open", attempts |-> 0, tried |-> NoDate, since |-> today]

\* What one step can do to one row.  A resolved row is never touched again.
LEMMA GapStep ==
  ASSUME TypeOK, InFlight, [Next]_vars, NEW k \in GapKey
  PROVE  \/ gaps'[k] = gaps[k]
         \/ gaps[k].status = "none" /\ gaps'[k] = Opened
         \/ /\ gaps[k].status = "open" /\ gaps[k].tried # today
            /\ gaps'[k] = [gaps[k] EXCEPT !.attempts = @ + 1, !.tried = today]
         \/ /\ pc = "close" /\ KeyOf(item) = k /\ UNCHANGED bars
            /\ gaps'[k] = [gaps[k] EXCEPT !.status = "no-data"]
         \/ /\ pc = "resolve" /\ KeyOf(item) = k /\ UNCHANGED bars
            /\ gaps'[k] = [gaps[k] EXCEPT !.status = "filled"]
<1>. USE DEF store, locals, bounds, history
<1>1. CASE BeginRun \/ FinishRun
  <2>1. gaps' = Enqueued  BY <1>1 DEF BeginRun, FinishRun
  <2>2. gaps'[k] \in {gaps[k], Insert(gaps[k])}  BY <2>1 DEF Enqueued
  <2>. QED  BY <2>2 DEF Insert, Opened
<1>2. CASE EmptyRepair
  <2>1. gaps'[k] \in {gaps[k], CountAttempt(gaps[k])}
    BY <1>2 DEF EmptyRepair, TypeOK
  <2>. QED  BY <2>1 DEF CountAttempt
<1>3. CASE CloseNoData
  <2>1. \/ gaps'[k] = gaps[k]
        \/ KeyOf(item) = k /\ gaps'[k] = Resolve(gaps[k], "no-data")
    BY <1>3 DEF CloseNoData, TypeOK
  <2>. QED  BY <1>3, <2>1 DEF CloseNoData, Resolve
<1>4. CASE ResolveGap
  <2>1. \/ gaps'[k] = gaps[k]
        \/ KeyOf(item) = k /\ gaps'[k] = Resolve(gaps[k], "filled")
    BY <1>4 DEF ResolveGap, TypeOK
  <2>. QED  BY <1>4, <2>1 DEF ResolveGap, Resolve
<1>5. ASSUME NEW s \in Watch, Add(s)
      PROVE  gaps'[k] = gaps[k] \/ (gaps[k].status = "none" /\ gaps'[k] = Opened)
  <2>1. gaps'[k] \in {gaps[k], Insert(gaps[k])}
    BY <1>5 DEF Add, TypeOK
  <2>. QED  BY <2>1 DEF Insert, Opened
<1>6. CASE ~BeginRun /\ ~FinishRun /\ ~EmptyRepair /\ ~CloseNoData /\ ~ResolveGap
           /\ ~(\E s \in Watch : Add(s))
  <2>1. gaps' = gaps
    BY <1>6 DEF Next, RunStep, Skip, Send, FetchFails, WriteFails, EmptyFetch, StoreBars, SetCursor,
         FundsStored, FundsDenied, Account, Crash, Tick, Lose, Remove, vars
  <2>. QED  BY <2>1
<1>. QED  BY <1>1, <1>2, <1>3, <1>4, <1>5, <1>6

\* Empty answers are counted at most once a day, so that a count of n takes n
\* days from the day the gap was found.
LEMMA PacePreserved ==
  ASSUME TypeOK, InFlight, AttemptsPaced, [Next]_vars
  PROVE  AttemptsPaced'
<1>1. today' \in Nat /\ today \in Nat /\ today <= today'
  BY DayStep DEF TypeOK, Tick, Days
<1>. SUFFICES ASSUME NEW k \in GapKey
              PROVE  /\ gaps'[k].tried <= today' /\ gaps'[k].since <= today'
                     /\ gaps'[k].attempts # 0 =>
                           gaps'[k].tried >= gaps'[k].since + gaps'[k].attempts - 1
  BY DEF AttemptsPaced
<1>2. gaps[k] \in GapRow  BY DEF TypeOK
<1>3. /\ gaps[k].attempts \in Nat /\ gaps[k].tried \in Nat /\ gaps[k].since \in Nat
  BY <1>2 DEF GapRow, DateOrNull, Days, NoDate
<1>4. /\ gaps[k].tried <= today /\ gaps[k].since <= today
      /\ gaps[k].attempts # 0 => gaps[k].tried >= gaps[k].since + gaps[k].attempts - 1
  BY DEF AttemptsPaced
<1>5. CASE gaps'[k] = gaps[k]
  BY <1>1, <1>3, <1>4, <1>5
<1>6. CASE gaps'[k] = Opened
  BY <1>1, <1>6 DEF Opened, NoDate
<1>7. CASE /\ gaps[k].tried # today
           /\ gaps'[k] = [gaps[k] EXCEPT !.attempts = @ + 1, !.tried = today]
  <2>1. /\ gaps'[k].attempts = gaps[k].attempts + 1
        /\ gaps'[k].tried = today /\ gaps'[k].since = gaps[k].since
    BY <1>2, <1>7 DEF GapRow
  <2>. QED  BY <1>1, <1>3, <1>4, <1>7, <2>1
<1>8. CASE \E as \in {"no-data", "filled"} : gaps'[k] = [gaps[k] EXCEPT !.status = as]
  <2>1. /\ gaps'[k].attempts = gaps[k].attempts
        /\ gaps'[k].tried = gaps[k].tried /\ gaps'[k].since = gaps[k].since
    BY <1>2, <1>8 DEF GapRow
  <2>. QED  BY <1>1, <1>3, <1>4, <2>1
<1>. QED  BY GapStep, <1>5, <1>6, <1>7, <1>8

\* A row on its way to being closed keeps its count: nothing but the closing
\* and the clock runs in between.
LEMMA ClosePreserved ==
  ASSUME TypeOK, InFlight, CloseCounted, [Next]_vars
  PROVE  CloseCounted'
<1>. USE DEF store, locals, bounds, history, CloseCounted
<1>1. CASE EmptyRepair
  <2>1. item \in Item /\ item' = item /\ KeyOf(item) \in GapKey
    BY <1>1 DEF EmptyRepair, InFlight, Busy, Item, KeyOf, GapKey
  <2>2. gaps'[KeyOf(item)] = CountAttempt(gaps[KeyOf(item)])
    BY <1>1, <2>1 DEF EmptyRepair, TypeOK
  <2>3. pc' = "close" => CountAttempt(gaps[KeyOf(item)]).attempts >= MaxEmptyAttempts
    BY <1>1 DEF EmptyRepair
  <2>. QED  BY <2>1, <2>2, <2>3 DEF KeyOf
<1>2. CASE Tick \/ UNCHANGED vars
  BY <1>2 DEF Tick, vars, KeyOf
<1>3. CASE RunStep /\ ~EmptyRepair
  <2>1. pc' # "close"
    <3>1. CASE Return
      BY <3>1 DEF Return
    <3>2. CASE ~Return
      BY <1>3, <3>2 DEF RunStep, BeginRun, Skip, Send, FetchFails, WriteFails, EmptyFetch, StoreBars,
           CloseNoData, SetCursor, ResolveGap, FundsStored, FundsDenied, Account, FinishRun
    <3>. QED  BY <3>1, <3>2
  <2>. QED  BY <2>1
<1>4. CASE Crash \/ Lose \/ (\E s \in Watch : Add(s) \/ Remove(s))
  <2>1. pc' = "idle"  BY <1>4 DEF Crash, Lose, Add, Remove
  <2>. QED  BY <2>1
<1>. QED  BY <1>1, <1>2, <1>3, <1>4 DEF Next

\* A row is closed as no-data on the count it has, and never touched again.
LEMMA NoDataPreserved ==
  ASSUME TypeOK, InFlight, CloseCounted, NoDataCounted, [Next]_vars
  PROVE  NoDataCounted'
<1>. SUFFICES ASSUME NEW k \in GapKey, gaps'[k].status = "no-data"
              PROVE  gaps'[k].attempts >= MaxEmptyAttempts
  BY DEF NoDataCounted
<1>1. gaps[k] \in GapRow  BY DEF TypeOK
<1>2. CASE gaps'[k] = gaps[k]
  BY <1>2 DEF NoDataCounted
<1>3. CASE KeyOf(item) = k /\ pc = "close" /\ gaps'[k] = [gaps[k] EXCEPT !.status = "no-data"]
  <2>1. gaps'[k].attempts = gaps[k].attempts  BY <1>1, <1>3 DEF GapRow
  <2>. QED  BY <1>3, <2>1 DEF CloseCounted
<1>4. CASE gaps'[k] = Opened \/ gaps'[k] = [gaps[k] EXCEPT !.status = "filled"]
  BY <1>1, <1>4 DEF Opened, GapRow
<1>5. CASE /\ gaps[k].status = "open"
           /\ gaps'[k] = [gaps[k] EXCEPT !.attempts = @ + 1, !.tried = today]
  BY <1>1, <1>5 DEF GapRow
<1>. QED  BY GapStep, <1>2, <1>3, <1>4, <1>5

\* A gap that gets a bar is resolved in the phase where that bar is stored.
LEMMA RepairPreserved ==
  ASSUME TypeOK, InFlight, LastStored, RepairStored, [Next]_vars
  PROVE  RepairStored'
<1>. USE DEF store, locals, bounds, history, RepairStored
<1>1. CASE SetCursor
  <2>1. item \in Item  BY <1>1 DEF SetCursor, InFlight, Busy
  <2>2. last \in bars[item.sym] /\ last \in item.from .. item.to
    <3>1. item.sym \in Symbols /\ item.from \in Int /\ item.to \in Int
      BY <2>1 DEF Item, Days
    <3>2. last \in Days  BY <1>1, <3>1 DEF SetCursor, LastStored, TypeOK
    <3>. QED  BY <1>1, <3>1, <3>2 DEF SetCursor, LastStored, Days
  <2>3. pc' = "resolve" => item' = item /\ bars' = bars
    BY <1>1, ReturnPhase DEF SetCursor
  <2>. QED  BY <2>2, <2>3
<1>2. CASE Tick \/ UNCHANGED vars
  BY <1>2 DEF Tick, vars
<1>3. CASE RunStep /\ ~SetCursor
  <2>1. pc' # "resolve"
    <3>1. CASE Return
      BY <3>1 DEF Return
    <3>2. CASE ~Return
      BY <1>3, <3>2 DEF RunStep, BeginRun, Skip, Send, FetchFails, WriteFails, EmptyRepair, EmptyFetch,
           StoreBars, CloseNoData, ResolveGap, FundsStored, FundsDenied, Account, FinishRun
    <3>. QED  BY <3>1, <3>2
  <2>. QED  BY <2>1
<1>4. CASE Crash \/ Lose \/ (\E s \in Watch : Add(s) \/ Remove(s))
  <2>1. pc' = "idle"  BY <1>4 DEF Crash, Lose, Add, Remove
  <2>. QED  BY <2>1
<1>. QED  BY <1>1, <1>2, <1>3, <1>4 DEF Next

\* A row is booked as filled when a bar of its range is stored, and bars stay.
LEMMA FilledPreserved ==
  ASSUME TypeOK, InFlight, FilledGapHasBars, RepairStored, [Next]_vars
  PROVE  FilledGapHasBars'
<1>. SUFFICES ASSUME NEW k \in GapKey, gaps'[k].status = "filled"
              PROVE  \E d \in k[2] .. k[3] : d \in bars'[k[1]] \/ <<k[1], d>> \in lost'
  BY DEF FilledGapHasBars
<1>1. gaps[k] \in GapRow  BY DEF TypeOK
<1>2. k[1] \in Symbols /\ k[2] \in Days /\ k[3] \in Days  BY DEF GapKey
<1>3. PICK d \in k[2] .. k[3] : d \in bars[k[1]] \/ <<k[1], d>> \in lost
  <2>1. CASE gaps[k].status = "filled"
    BY <2>1 DEF FilledGapHasBars
  <2>2. CASE gaps[k].status # "filled"
    <3>1. pc = "resolve" /\ KeyOf(item) = k
      <4>1. Opened.status # "filled"  BY DEF Opened
      <4>2. [gaps[k] EXCEPT !.status = "no-data"].status # "filled"
        BY <1>1 DEF GapRow
      <4>3. [gaps[k] EXCEPT !.attempts = @ + 1, !.tried = today].status = gaps[k].status
        BY <1>1 DEF GapRow
      <4>. QED  BY <2>2, <4>1, <4>2, <4>3, GapStep, Zenon
    <3>2. k[1] = item.sym /\ k[2] = item.from /\ k[3] = item.to
      BY <3>1 DEF KeyOf
    <3>. QED  BY <3>1, <3>2 DEF RepairStored
  <2>. QED  BY <2>1, <2>2
<1>4. d \in Days  BY <1>2, DaysAssumption DEF Days
<1>. QED  BY <1>2, <1>3, <1>4, BarStep

-----------------------------------------------------------------------------
(* The gap-repair share. *)

\* What the budget row says was spent is a number, also on a day without a row.
LEMMA UsedIsInt ==
  ASSUME NEW c \in Counter
  PROVE  Used(c) \in Int
BY DEF Used, Counter

\* Every paid repair is booked before the next one, in this run or another.
LEMMA SharePreserved ==
  ASSUME TypeOK, InFlight, RowsDated, ShareBooked, [Next]_vars
  PROVE  ShareBooked'
<1>. USE DEF store, locals, bounds, history
<1>. SUFFICES ASSUME midnights' = 0, crashes' = 0
              PROVE  /\ repairs' <= Quota
                     /\ pc' # "idle" => gapSpent' = Used(share)'
                     /\ IF Busy' /\ item'.kind = "gap-repair"
                        THEN /\ repairs' = Used(share)' + 1
                             /\ Used(budget)' - before' = 1
                        ELSE repairs' = Used(share)'
  BY DEF ShareBooked
<1>1. midnights = 0 /\ crashes = 0
  <2>1. CASE Crash \/ WriteFails \/ Tick
    BY <2>1 DEF Crash, WriteFails, Tick, TypeOK
  <2>2. CASE ~Crash /\ ~WriteFails /\ ~Tick
    <3>1. UNCHANGED <<midnights, crashes>>
      BY <2>2 DEF Next, RunStep, BeginRun, Skip, Send, FetchFails, WriteFails, EmptyRepair, EmptyFetch,
           StoreBars, CloseNoData, SetCursor, ResolveGap, FundsStored, FundsDenied, Account,
           FinishRun, Lose, Add, Remove, vars
    <3>. QED  BY <3>1
  <2>. QED  BY <2>1, <2>2
<1>2. /\ repairs <= Quota
      /\ pc # "idle" => gapSpent = Used(share)
      /\ IF Busy /\ item.kind = "gap-repair"
         THEN repairs = Used(share) + 1 /\ Used(budget) - before = 1
         ELSE repairs = Used(share)
  BY <1>1 DEF ShareBooked
<1>3. /\ Used(share) \in Int /\ Used(budget) \in Int
      /\ repairs \in Int /\ before \in Int /\ gapSpent \in Int /\ Quota \in Int
  BY UsedIsInt, BudgetAssumption DEF TypeOK, Quota
<1>4. CASE Send
  <2>. PICK it \in plan :
              /\ ~(it.kind = "gap-repair" /\ gapSpent >= Quota)
              /\ item' = it
              /\ budget' = Spend(budget, Cost(it))
              /\ before' = Used(budget)
              /\ repairs' = IF it.kind = "gap-repair" THEN repairs + 1 ELSE repairs
    BY <1>4 DEF Send
  <2>1. pc = "exec" /\ pc' = "fetch" /\ UNCHANGED <<today, share, gapSpent>>
    BY <1>4 DEF Send
  <2>2. Used(share)' = Used(share)  BY <2>1 DEF Used
  <2>3. repairs = Used(share) /\ gapSpent = repairs
    BY <1>2, <2>1 DEF Busy
  <2>4. CASE it.kind = "gap-repair"
    <3>1. Used(budget)' = Used(budget) + 1
      BY <2>1, <2>4 DEF Spend, Cost, Used
    <3>. QED  BY <1>2, <1>3, <2>1, <2>2, <2>3, <2>4, <3>1 DEF Busy
  <2>5. CASE it.kind # "gap-repair"
    BY <1>2, <2>1, <2>2, <2>3, <2>5 DEF Busy
  <2>. QED  BY <2>4, <2>5
<1>5. CASE Account
  <2>1. Busy /\ item.kind = "gap-repair"
    BY <1>5 DEF Account, Busy, InFlight
  <2>2. Delta = 1 /\ share' = Spend(share, 1) /\ today' = today
    BY <1>2, <1>5, <2>1 DEF Account, Booked, Delta
  <2>3. Used(share)' = Used(share) + 1
    BY <2>2 DEF Spend, Used
  <2>4. pc' = "exec" /\ gapSpent' = gapSpent + 1 /\ repairs' = repairs /\ gapSpent = Used(share)
    BY <1>2, <1>5, <2>2 DEF Account
  <2>. QED  BY <1>2, <2>1, <2>3, <2>4 DEF Busy
<1>6. CASE Tick
  <2>1. pc = "idle" /\ pc' = pc /\ repairs' = 0 /\ share' = share
    BY <1>1, <1>6 DEF Tick, TypeOK
  <2>2. share.date <= today /\ today' = today + 1 /\ today \in Int /\ share.date \in Int
    BY <1>6 DEF Tick, RowsDated, TypeOK, Counter, DateOrNull, Days, NoDate
  <2>3. Used(share)' = 0  BY <2>1, <2>2 DEF Used
  <2>4. Quota >= 0  BY BudgetAssumption DEF Quota
  <2>. QED  BY <2>1, <2>3, <2>4 DEF Busy
<1>7. CASE BeginRun \/ Skip \/ FinishRun
  <2>1. /\ ~Busy /\ ~Busy' /\ UNCHANGED <<today, share, repairs>>
        /\ pc' # "idle" => gapSpent' = Used(share)
    BY <1>2, <1>7 DEF BeginRun, Skip, FinishRun, Busy
  <2>2. Used(share)' = Used(share)  BY <2>1 DEF Used
  <2>. QED  BY <1>2, <2>1, <2>2
<1>8. CASE \/ FetchFails \/ EmptyRepair \/ EmptyFetch \/ StoreBars \/ CloseNoData
           \/ SetCursor \/ ResolveGap \/ FundsStored \/ FundsDenied
  <2>1. Busy /\ UNCHANGED <<today, budget, share, repairs, gapSpent>>
    BY <1>8 DEF FetchFails, WriteFails, EmptyRepair, EmptyFetch, StoreBars, CloseNoData, SetCursor,
         ResolveGap, FundsStored, FundsDenied, Busy
  <2>2. \/ Busy' /\ item' = item /\ before' = before
        \/ ~Busy' /\ item.kind # "gap-repair" /\ pc' = "exec"
    <3>1. CASE Return
      BY <3>1, ReturnPhase DEF Busy
    <3>2. CASE ~Return
      BY <1>8, <3>2 DEF FetchFails, WriteFails, EmptyRepair, EmptyFetch, StoreBars, CloseNoData,
           SetCursor, ResolveGap, FundsStored, FundsDenied, Busy
    <3>. QED  BY <3>1, <3>2
  <2>3. Used(share)' = Used(share) /\ Used(budget)' = Used(budget)
    BY <2>1 DEF Used
  <2>4. pc # "idle"  BY <2>1 DEF Busy
  <2>. QED  BY <1>2, <2>1, <2>2, <2>3, <2>4
<1>9. CASE Lose \/ (\E s \in Watch : Add(s) \/ Remove(s)) \/ UNCHANGED vars
  <2>1. UNCHANGED <<today, budget, share, repairs, gapSpent, pc, item, before>>
    BY <1>9 DEF Lose, Add, Remove, vars
  <2>2. Used(share)' = Used(share) /\ Used(budget)' = Used(budget) /\ Busy' = Busy
    BY <2>1 DEF Used, Busy
  <2>. QED  BY <1>2, <2>1, <2>2
<1>10. CASE Crash \/ WriteFails
  BY <1>1, <1>10 DEF Crash, WriteFails
<1>. QED
  BY <1>4, <1>5, <1>6, <1>7, <1>8, <1>9, <1>10 DEF Next, RunStep
-----------------------------------------------------------------------------
(* Nothing ahead of the clock, and detection behind the cursors. *)

\* The days missing are days up to the cursor, of a symbol that has bars.
LEMMA MissingIs ==
  ASSUME TypeOK, NEW s \in Symbols, NEW d \in Missing(s)
  PROVE  /\ d \in Days /\ d \in bars[Calendar[s]] /\ Calendar[s] \in Symbols /\ bars[s] # {}
         /\ cursor[s] # NoDate => d <= cursor[s]
<1>1. Calendar[s] \in Symbols  BY SymbolsAssumption DEF Symbols
<1>2. d \in Expected(s)  BY DEF Missing
<1>3. d \in bars[Calendar[s]]  BY <1>2 DEF Expected
<1>4. bars[s] # {}  BY <1>2 DEF Expected
<1>5. cursor[s] # NoDate => d <= cursor[s]  BY <1>2 DEF Expected
<1>6. d \in Days  BY <1>1, <1>3 DEF TypeOK
<1>. QED  BY <1>1, <1>3, <1>4, <1>5, <1>6

\* A gap is opened by an add, for the whole window, or by detection, for a
\* range of missing days; nothing reopens one.
LEMMA OpenStep ==
  ASSUME TypeOK, InFlight, [Next]_vars, NEW k \in GapKey, gaps'[k].status = "open"
  PROVE  \/ gaps[k].status = "open"
         \/ k[2] = 1 /\ k[3] = today /\ pc = "idle"
         \/ /\ pc \in {"idle", "exec"} /\ UNCHANGED <<today, bars, cursor>>
            /\ k[2] \in Missing(k[1]) /\ k[3] \in Missing(k[1])
<1>. USE DEF store, locals, bounds, history
<1>1. CASE BeginRun \/ FinishRun
  <2>1. gaps' = Enqueued /\ pc \in {"idle", "exec"} /\ UNCHANGED <<today, bars, cursor>>
    BY <1>1 DEF BeginRun, FinishRun
  <2>2. CASE k[1] \in Tracked /\ <<k[2], k[3]>> \in Ranges(Missing(k[1]))
    <3>1. k[2] \in Missing(k[1]) /\ k[3] \in Missing(k[1])
      BY <2>2 DEF Ranges
    <3>. QED  BY <2>1, <3>1
  <2>3. CASE ~(k[1] \in Tracked /\ <<k[2], k[3]>> \in Ranges(Missing(k[1])))
    <3>1. gaps'[k] = gaps[k]  BY <2>1, <2>3 DEF Enqueued
    <3>. QED  BY <3>1
  <2>. QED  BY <2>2, <2>3
<1>2. CASE EmptyRepair
  <2>1. gaps'[k] \in {gaps[k], CountAttempt(gaps[k])}
    BY <1>2 DEF EmptyRepair, TypeOK
  <2>2. gaps[k] \in GapRow  BY DEF TypeOK
  <2>. QED  BY <2>1, <2>2 DEF CountAttempt, GapRow
<1>3. CASE CloseNoData \/ ResolveGap
  <2>1. \E as \in {"no-data", "filled"} : gaps'[k] \in {gaps[k], Resolve(gaps[k], as)}
    BY <1>3 DEF CloseNoData, ResolveGap, TypeOK
  <2>. QED  BY <2>1 DEF Resolve
<1>4. ASSUME NEW s \in Watch, Add(s)
      PROVE  gaps[k].status = "open" \/ (k[2] = 1 /\ k[3] = today /\ pc = "idle")
  <2>1. gaps' = [gaps EXCEPT ![<<s, 1, today>>] = Insert(@)] /\ pc = "idle"
    BY <1>4 DEF Add
  <2>2. CASE k = <<s, 1, today>>
    BY <2>1, <2>2
  <2>3. CASE k # <<s, 1, today>>
    <3>1. gaps'[k] = gaps[k]  BY <2>1, <2>3 DEF TypeOK
    <3>. QED  BY <3>1
  <2>. QED  BY <2>2, <2>3
<1>5. CASE ~BeginRun /\ ~FinishRun /\ ~EmptyRepair /\ ~CloseNoData /\ ~ResolveGap
           /\ ~(\E s \in Watch : Add(s))
  <2>1. gaps' = gaps
    BY <1>5 DEF Next, RunStep, Skip, Send, FetchFails, WriteFails, EmptyFetch, StoreBars, SetCursor,
         FundsStored, FundsDenied, Account, Crash, Tick, Lose, Remove, vars
  <2>. QED  BY <2>1
<1>. QED  BY <1>1, <1>2, <1>3, <1>4, <1>5

\* A plan asks up to today, or for an open gap.
LEMMA PlanUntil ==
  ASSUME NEW g, NEW it \in Plan(g)
  PROVE  \/ it.to = today
         \/ \E k \in GapKey : g[k].status = "open" /\ it.to = k[3]
<1>1. CASE it \in IndexItems \/ it \in WatchItems \/ it \in FundItems
  BY <1>1 DEF IndexItems, WatchItems, FundItems, Fetch
<1>2. CASE it \in GapItems(g)
  BY <1>2 DEF GapItems
<1>. QED  BY <1>1, <1>2 DEF Plan

\* Only store_bars adds bars, of the days asked for.
LEMMA NewBars ==
  ASSUME TypeOK, [Next]_vars, NEW s \in Symbols, NEW d \in bars'[s], d \notin bars[s]
  PROVE  /\ pc = "fetch" /\ pc' = "cursor" /\ item.sym = s /\ d <= item.to
         /\ UNCHANGED <<today, cursor, crashes, item>>
<1>. USE DEF store, locals, bounds, history
<1>1. CASE StoreBars
  <2>. PICK rows \in SUBSET Available(item) : bars' = [bars EXCEPT ![item.sym] = @ \union rows]
    BY <1>1 DEF StoreBars
  <2>1. s = item.sym /\ d \in rows
    BY DEF TypeOK
  <2>2. d <= item.to  BY <2>1 DEF Available
  <2>. QED  BY <1>1, <2>1, <2>2 DEF StoreBars
<1>2. CASE Lose
  <2>1. bars'[s] \subseteq bars[s]
    BY <1>2 DEF Lose, TypeOK
  <2>. QED  BY <2>1
<1>3. CASE ~StoreBars /\ ~Lose
  <2>1. bars' = bars
    BY <1>3 DEF Next, RunStep, BeginRun, Skip, Send, FetchFails, WriteFails, EmptyRepair, EmptyFetch,
         CloseNoData, SetCursor, ResolveGap, FundsStored, FundsDenied,
         Account, FinishRun, Crash, Tick, Add, Remove, vars
  <2>. QED  BY <2>1
<1>. QED  BY <1>1, <1>2, <1>3

\* What a step can do to the plan, the item in flight and its last date.
LEMMA ItemStep ==
  ASSUME TypeOK, InFlight, [Next]_vars
  PROVE  /\ plan' \subseteq plan \/ (BeginRun /\ plan' = Plan(gaps'))
         /\ Busy' => (item' = item /\ Busy) \/ item' \in plan
         /\ last' = last \/ last' = NoDate \/ (pc = "fetch" /\ last' <= item.to)
<1>. USE DEF store, locals, bounds, history, Busy
<1>1. CASE BeginRun
  BY <1>1 DEF BeginRun
<1>2. CASE Skip \/ Send
  BY <1>2 DEF Skip, Send
<1>3. CASE StoreBars
  <2>. PICK rows \in SUBSET Available(item) : \E d \in rows : last' = d
    BY <1>3 DEF StoreBars
  <2>1. last' <= item.to  BY DEF Available
  <2>. QED  BY <1>3, <2>1 DEF StoreBars
<1>4. CASE EmptyRepair
  BY <1>4 DEF EmptyRepair
<1>5. CASE FetchFails \/ WriteFails \/ EmptyFetch \/ CloseNoData \/ ResolveGap \/ FundsStored \/ FundsDenied
  <2>1. Return /\ plan' = plan /\ pc \in {"fetch", "cursor", "close", "resolve"}
    BY <1>5 DEF FetchFails, WriteFails, EmptyFetch, CloseNoData, ResolveGap, FundsStored, FundsDenied
  <2>. QED  BY <2>1 DEF Return
<1>6. CASE SetCursor
  BY <1>6 DEF SetCursor, Return
<1>7. CASE Account \/ FinishRun \/ Crash
  BY <1>7 DEF Account, FinishRun, Crash
<1>8. CASE Tick \/ Lose \/ (\E s \in Watch : Add(s) \/ Remove(s)) \/ UNCHANGED vars
  BY <1>8 DEF Tick, Lose, Add, Remove, vars
<1>. QED
  BY <1>1, <1>2, <1>3, <1>4, <1>5, <1>6, <1>7, <1>8 DEF Next, RunStep

LEMMA AheadPreserved ==
  ASSUME TypeOK, InFlight, NothingAhead, [Next]_vars
  PROVE  NothingAhead'
<1>1. today \in Nat /\ today' \in Nat /\ today <= today'
  BY DayStep DEF TypeOK, Tick, Days
<1>2. TypeOK'  BY TypePreserved
<1>3. ASSUME NEW s \in Symbols, NEW d \in bars'[s]
      PROVE  d <= today'
  <2>1. d \in Int  BY <1>2 DEF TypeOK, Days
  <2>2. CASE d \in bars[s]
    BY <1>1, <2>1, <2>2 DEF NothingAhead
  <2>3. CASE d \notin bars[s]
    <3>1. d <= item.to /\ pc = "fetch"  BY <2>3, NewBars
    <3>2. item.to <= today /\ item.to \in Int
      BY <3>1 DEF NothingAhead, InFlight, Busy, Item, Days
    <3>. QED  BY <1>1, <2>1, <3>1, <3>2
  <2>. QED  BY <2>2, <2>3
<1>4. ASSUME NEW s \in Symbols
      PROVE  cursor'[s] <= today'
  <2>1. cursor'[s] \in {cursor[s], NewCursor(cursor[s], last)}
    BY CursorStep DEF TypeOK
  <2>2. cursor[s] \in Int /\ last \in Int /\ cursor[s] <= today /\ last <= today
    BY DEF TypeOK, NothingAhead, DateOrNull, Days, NoDate
  <2>. QED  BY <1>1, <2>1, <2>2 DEF NewCursor
<1>5. ASSUME NEW k \in GapKey, gaps'[k].status = "open"
      PROVE  k[3] <= today'
  <2>1. k[1] \in Symbols /\ k[3] \in Int  BY DEF GapKey, Days
  <2>2. k[3] <= today
    <3>1. CASE gaps[k].status = "open"
      BY <3>1 DEF NothingAhead
    <3>2. CASE k[3] = today
      BY <1>1, <3>2
    <3>3. CASE k[3] \in Missing(k[1])
      BY <2>1, <3>3, MissingIs DEF NothingAhead
    <3>. QED  BY <1>5, <3>1, <3>2, <3>3, OpenStep
  <2>. QED  BY <1>1, <2>1, <2>2
<1>6. ASSUME NEW it \in plan'
      PROVE  it.to <= today'
  <2>1. CASE it \in plan
    <3>1. it.to \in Int /\ it.to <= today
      BY <2>1 DEF TypeOK, Item, Days, NothingAhead
    <3>. QED  BY <1>1, <3>1
  <2>2. CASE BeginRun /\ it \in Plan(gaps')
    <3>1. today' = today  BY <2>2 DEF BeginRun
    <3>2. CASE it.to = today  BY <1>1, <3>1, <3>2
    <3>3. CASE \E k \in GapKey : gaps'[k].status = "open" /\ it.to = k[3]
      BY <1>5, <3>3
    <3>. QED  BY <2>2, <3>2, <3>3, PlanUntil
  <2>. QED  BY <2>1, <2>2, ItemStep
<1>7. Busy' => item'.to <= today'
  <2>1. ASSUME Busy', item' = item, Busy
        PROVE  item'.to <= today'
    <3>1. item.to \in Int /\ item.to <= today  BY <2>1 DEF InFlight, Item, Days, NothingAhead
    <3>. QED  BY <1>1, <2>1, <3>1
  <2>2. ASSUME item' \in plan
        PROVE  item'.to <= today'
    <3>1. item'.to \in Int /\ item'.to <= today  BY <2>2 DEF TypeOK, Item, Days, NothingAhead
    <3>. QED  BY <1>1, <3>1
  <2>. QED  BY <2>1, <2>2, ItemStep
<1>8. last' <= today'
  <2>1. last \in Int /\ last' \in Int /\ last <= today
    BY <1>2 DEF TypeOK, NothingAhead, DateOrNull, Days, NoDate
  <2>2. ASSUME pc = "fetch", last' <= item.to
        PROVE  last' <= today'
    <3>1. item.to \in Int /\ item.to <= today  BY <2>2 DEF InFlight, Busy, Item, Days, NothingAhead
    <3>. QED  BY <1>1, <2>1, <2>2, <3>1
  <2>3. NoDate <= today'  BY <1>1 DEF NoDate
  <2>. QED  BY <1>1, <2>1, <2>2, <2>3, ItemStep
<1>. QED  BY <1>3, <1>4, <1>5, <1>6, <1>7, <1>8 DEF NothingAhead

\* A kill or a failed write is the only way out between the two writes of an
\* answer.
LEMMA FollowsPreserved ==
  ASSUME TypeOK, InFlight, LastStored, CursorFollows, [Next]_vars
  PROVE  CursorFollows'
<1>. USE DEF store, locals, bounds, history
<1>. SUFFICES ASSUME crashes' = 0, NEW s \in Symbols, cursor'[s] = NoDate, bars'[s] # {}
              PROVE  pc' = "cursor" /\ item'.sym = s
  BY DEF CursorFollows
<1>1. ~Crash /\ ~WriteFails /\ crashes = 0
  <2>1. Crash \/ WriteFails => crashes' # 0  BY DEF Crash, WriteFails, TypeOK
  <2>2. ~Crash /\ ~WriteFails => crashes' = crashes
    BY DEF Next, RunStep, BeginRun, Skip, Send, FetchFails, WriteFails, EmptyRepair, EmptyFetch, StoreBars,
         CloseNoData, SetCursor, ResolveGap, FundsStored, FundsDenied,
         Account, FinishRun, Tick, Lose, Add, Remove, vars
  <2>. QED  BY <2>1, <2>2
<1>2. CASE \E d \in bars'[s] : d \notin bars[s]
  BY <1>2, NewBars
<1>3. CASE bars'[s] \subseteq bars[s]
  <2>1. bars[s] # {}  BY <1>3
  <2>2. cursor[s] = NoDate
    <3>1. cursor'[s] \in {cursor[s], NewCursor(cursor[s], last)}
      BY CursorStep DEF TypeOK
    <3>2. cursor[s] \in Nat /\ last \in Nat
      BY DEF TypeOK, DateOrNull, Days, NoDate
    <3>. QED  BY <3>1, <3>2 DEF NewCursor, NoDate
  <2>3. pc = "cursor" /\ item.sym = s
    BY <1>1, <2>1, <2>2 DEF CursorFollows
  <2>4. ~SetCursor
    <3>1. ASSUME SetCursor PROVE FALSE
      <4>1. cursor'[s] = NewCursor(cursor[s], last)
        BY <2>3, <3>1 DEF SetCursor, TypeOK
      <4>2. last \in Nat \ {0} /\ cursor[s] = 0
        BY <2>2, <2>3 DEF LastStored, TypeOK, Days, NoDate
      <4>. QED  BY <4>1, <4>2 DEF NewCursor, NoDate
    <3>. QED  BY <3>1
  <2>5. Tick \/ UNCHANGED vars
    BY <1>1, <2>3, <2>4 DEF Next, RunStep, BeginRun, Skip, Send, FetchFails, WriteFails, EmptyRepair, EmptyFetch,
         StoreBars, CloseNoData, ResolveGap, FundsStored, FundsDenied, Account, FinishRun,
         Lose, Add, Remove
  <2>. QED  BY <2>3, <2>5 DEF Tick, vars
<1>. QED  BY <1>2, <1>3

\* Detection looks no further than the cursor, and only where there is one.
LEMMA BehindPreserved ==
  ASSUME TypeOK, InFlight, CursorFollows, GapsOfCursor, [Next]_vars
  PROVE  GapsOfCursor'
<1>. USE DEF store, locals, bounds, history
<1>. SUFFICES ASSUME crashes' = 0, NEW k \in GapKey, gaps'[k].status = "open", k[2] # 1
              PROVE  cursor'[k[1]] # NoDate /\ k[2] <= cursor'[k[1]]
  BY DEF GapsOfCursor
<1>1. crashes = 0
  <2>1. Crash \/ WriteFails => crashes' # 0  BY DEF Crash, WriteFails, TypeOK
  <2>2. ~Crash /\ ~WriteFails => crashes' = crashes
    BY DEF Next, RunStep, BeginRun, Skip, Send, FetchFails, WriteFails, EmptyRepair, EmptyFetch, StoreBars,
         CloseNoData, SetCursor, ResolveGap, FundsStored, FundsDenied,
         Account, FinishRun, Tick, Lose, Add, Remove, vars
  <2>. QED  BY <2>1, <2>2
<1>2. k[1] \in Symbols /\ k[2] \in Nat  BY DEF GapKey, Days
<1>3. cursor[k[1]] # NoDate /\ k[2] <= cursor[k[1]]
  <2>1. CASE gaps[k].status = "open"
    BY <1>1, <2>1 DEF GapsOfCursor
  <2>2. CASE pc \in {"idle", "exec"} /\ k[2] \in Missing(k[1])
    <3>1. bars[k[1]] # {}  BY <1>2, <2>2, MissingIs
    <3>2. cursor[k[1]] # NoDate  BY <1>1, <1>2, <2>2, <3>1 DEF CursorFollows
    <3>. QED  BY <1>2, <2>2, <3>2, MissingIs
  <2>. QED  BY <2>1, <2>2, OpenStep
<1>4. cursor'[k[1]] \in {cursor[k[1]], NewCursor(cursor[k[1]], last)}
  BY <1>2, CursorStep DEF TypeOK
<1>5. cursor[k[1]] \in Nat /\ last \in Nat
  BY <1>2 DEF TypeOK, DateOrNull, Days, NoDate
<1>. QED  BY <1>2, <1>3, <1>4, <1>5 DEF NewCursor, NoDate
-----------------------------------------------------------------------------
(* The theorems. *)

\* Every reachable state of every run satisfies the inductive invariant.
THEOREM Invariance == Spec => []IInv
<1>1. Init => IInv
  BY InitInvariant
<1>2. IInv /\ [Next]_vars => IInv'
  BY TypePreserved, PhasePreserved, RowsPreserved, CursorPreserved, LastPreserved,
     FilledPreserved, RepairPreserved, PacePreserved, ClosePreserved, NoDataPreserved,
     SharePreserved, AheadPreserved, FollowsPreserved, BehindPreserved DEF IInv
<1>. QED  BY <1>1, <1>2, PTL DEF Spec

\* The store and the run always hold values of their types; in particular every
\* planned request has a first date, whatever is missing from the store.
THEOREM TypeCorrect == Spec => []TypeOK
<1>1. IInv => TypeOK  BY DEF IInv
<1>. QED  BY <1>1, Invariance, PTL

\* try_spend keeps the day's calls within EODHD_DAILY_CALLS, across items,
\* crashes, restarts and midnights.
THEOREM BudgetSafe == Spec => []BudgetWithinCap
<1>1. IInv => BudgetWithinCap
  BY BudgetAssumption DEF IInv, RowsDated, BudgetWithinCap, Used, TypeOK, Counter
<1>. QED  BY <1>1, Invariance, PTL

\* However the process interleaves with kills and midnights, what it does to
\* the budget row is an atomic budget (AtomicBudget): every step spends one
\* item's cost within the cap, starts a new day at zero, or leaves both alone.
THEOREM BudgetRefined == Spec => ImplementsBudget
<1>. USE DEF store, locals, bounds, history
<1>1. Init => Budget!Init
  BY DEF Init, Budget!Init, Used, NoDate
<1>2. ASSUME IInv, [Next]_vars
      PROVE  [Budget!Next]_<<Used(budget), today>>
  <2>1. today \in Int /\ budget.date <= today
    BY <1>2 DEF IInv, TypeOK, RowsDated, Days
  <2>2. CASE Send
    <3>. PICK it \in plan : Affordable(Cost(it)) /\ budget' = Spend(budget, Cost(it))
      BY <2>2 DEF Send
    <3>1. Cost(it) \in {1, FundCost}  BY DEF Cost
    <3>2. today' = today  BY <2>2 DEF Send
    <3>3. Used(budget)' = Used(budget) + Cost(it)
      BY <3>2 DEF Used, Spend
    <3>4. Budget!Spend(Cost(it))
      BY <3>2, <3>3 DEF Budget!Spend, Affordable
    <3>. QED  BY <3>1, <3>4 DEF Budget!Next
  <2>3. CASE Tick
    <3>1. today' = today + 1 /\ budget' = budget  BY <2>3 DEF Tick
    <3>2. Used(budget)' = 0  BY <2>1, <3>1 DEF Used
    <3>. QED  BY <3>1, <3>2 DEF Budget!Next, Budget!NewDay
  <2>4. CASE ~Send /\ ~Tick
    <3>1. budget' = budget /\ today' = today
      BY <1>2, <2>4 DEF Next, RunStep, BeginRun, Skip, FetchFails, WriteFails, EmptyRepair, EmptyFetch,
           StoreBars, CloseNoData, SetCursor, ResolveGap, FundsStored, FundsDenied,
           Account, FinishRun, Crash, Lose, Add, Remove, vars
    <3>. QED  BY <3>1 DEF Used
  <2>. QED  BY <2>2, <2>3, <2>4
<1>. QED  BY <1>1, <1>2, Invariance, PTL DEF Spec, ImplementsBudget, Budget!Spec

\* `data through <cursor>` always names a date whose bar was stored.
THEOREM CursorSafe == Spec => []CursorBacked
<1>1. IInv => CursorBacked  BY DEF IInv
<1>. QED  BY <1>1, Invariance, PTL

\* A gap is only ever booked as repaired on the strength of a stored bar.
THEOREM RepairSafe == Spec => []FilledGapHasBars
<1>1. IInv => FilledGapHasBars  BY DEF IInv
<1>. QED  BY <1>1, Invariance, PTL

\* No schedule of runs, kills and midnights closes a gap as no-data before the
\* third day of empty answers.
THEOREM NoDataSafe == Spec => []NoDataTakesThreeDays
<1>1. ASSUME IInv, NEW k \in GapKey, gaps[k].status = "no-data"
      PROVE  gaps[k].attempts >= MaxEmptyAttempts /\ gaps[k].tried >= gaps[k].since + 2
  <2>1. gaps[k] \in GapRow  BY <1>1 DEF IInv, TypeOK
  <2>2. /\ gaps[k].attempts \in Int /\ gaps[k].tried \in Int /\ gaps[k].since \in Int
    BY <2>1 DEF GapRow, DateOrNull, Days, NoDate
  <2>3. gaps[k].attempts >= 3  BY <1>1 DEF IInv, NoDataCounted, MaxEmptyAttempts
  <2>4. gaps[k].tried >= gaps[k].since + gaps[k].attempts - 1
    BY <1>1, <2>2, <2>3 DEF IInv, AttemptsPaced
  <2>. QED  BY <2>2, <2>3, <2>4 DEF MaxEmptyAttempts
<1>2. IInv => NoDataTakesThreeDays
  BY <1>1 DEF NoDataTakesThreeDays
<1>. QED  BY <1>2, Invariance, PTL

\* However often the user syncs in a day, gap repair stays within half the cap,
\* while no run is killed and none straddles midnight.
THEOREM ShareSafe == Spec => []GapShareHonoured
<1>1. IInv => GapShareHonoured
  BY DEF IInv, ShareBooked, GapShareHonoured
<1>. QED  BY <1>1, Invariance, PTL

\* No step of any action moves a cursor backwards.
THEOREM CursorForward == Spec => CursorNeverRegresses
<1>1. ASSUME IInv, [Next]_vars PROVE [\A s \in Symbols : cursor'[s] >= cursor[s]]_cursor
  <2>. SUFFICES ASSUME cursor' # cursor, NEW s \in Symbols
                PROVE  cursor'[s] >= cursor[s]
    OBVIOUS
  <2>1. TypeOK /\ TypeOK'  BY <1>1, TypePreserved DEF IInv
  <2>2. cursor[s] \in Int /\ cursor'[s] \in Int /\ last \in Int
    BY <2>1 DEF TypeOK, DateOrNull, Days, NoDate
  <2>3. cursor'[s] \in {cursor[s], NewCursor(cursor[s], last)}
    BY <1>1, <2>1, CursorStep DEF TypeOK
  <2>. QED  BY <2>2, <2>3 DEF NewCursor
<1>. QED  BY <1>1, Invariance, PTL DEF Spec, CursorNeverRegresses

\* Detection queues no day the next incremental fetches: while no run was
\* killed or failed to write, every open gap starts at or behind its cursor (a kill
\* between store_bars and _set_cursor leaves bars without a cursor, and the
\* next detection looks up to today).
THEOREM GapsQueuedOnce == Spec => [](crashes = 0 => GapsBehindCursor)
<1>1. ASSUME IInv, crashes = 0, NEW k \in GapKey,
             gaps[k].status = "open", cursor[k[1]] # NoDate
      PROVE  k[2] <= cursor[k[1]]
  <2>1. k[1] \in Symbols  BY DEF GapKey
  <2>2. cursor[k[1]] \in 1 .. MaxDay  BY <1>1, <2>1 DEF IInv, TypeOK, DateOrNull, Days
  <2>3. k[2] = 1 \/ k[2] <= cursor[k[1]]  BY <1>1 DEF IInv, GapsOfCursor
  <2>. QED  BY <2>2, <2>3
<1>2. IInv => (crashes = 0 => GapsBehindCursor)
  BY <1>1 DEF GapsBehindCursor
<1>. QED  BY <1>2, Invariance, PTL

\* No row of the store is ahead of the clock, whatever is killed or lost: no
\* bar, no cursor, no open gap and no planned request lies in the future.
THEOREM StoreNotAhead == Spec => []NothingAhead
<1>1. IInv => NothingAhead  BY DEF IInv
<1>. QED  BY <1>1, Invariance, PTL

\* A plan takes up every index that is behind, whatever was killed or lost, but
\* for one that has bars and no cursor: that is the only way to freeze the
\* calendar.
Frozen(i) == bars[i] # {} /\ cursor[i] = NoDate

THEOREM OnlyFrozenIndices ==
  Spec => [][BeginRun =>
               \A i \in Indices :
                 cursor[i] # today /\ ~Frozen(i) =>
                   \E it \in plan' : it.sym = i /\ it.kind # "gap-repair"]_vars
<1>. USE DEF store, locals, bounds, history
<1>1. ASSUME IInv, BeginRun, NEW i \in Indices, cursor[i] # today, ~Frozen(i)
      PROVE  \E it \in plan' : it.sym = i /\ it.kind # "gap-repair"
  <2>1. i \in Symbols /\ plan' = Plan(Enqueued)
    BY <1>1 DEF BeginRun, Symbols
  <2>2. bars[i] = {} \/ cursor[i] # NoDate
    BY <1>1 DEF Frozen
  <2>3. cursor[i] < today
    <3>1. cursor[i] \in Int /\ today \in Int /\ cursor[i] <= today
      BY <1>1, <2>1 DEF IInv, TypeOK, NothingAhead, DateOrNull, Days, NoDate
    <3>. QED  BY <1>1, <3>1
  <2>4. Fetch(i, bars[i] = {}, 0) \in IndexItems
    BY <1>1, <2>2, <2>3 DEF IndexItems
  <2>5. Fetch(i, bars[i] = {}, 0).sym = i /\ Fetch(i, bars[i] = {}, 0).kind # "gap-repair"
    BY DEF Fetch
  <2>. QED  BY <2>1, <2>4, <2>5 DEF Plan
<1>2. IInv => [BeginRun =>
                 \A i \in Indices :
                   cursor[i] # today /\ ~Frozen(i) =>
                     \E it \in plan' : it.sym = i /\ it.kind # "gap-repair"]_vars
  BY <1>1
<1>. QED  BY <1>2, Invariance, PTL

\* Where nothing is killed and no write fails, no index is frozen, and every plan
\* takes up every index that is behind (_plan; sync_frozen_index is what a kill
\* does to it).
THEOREM IndicesTakenUp ==
  ASSUME MaxCrashes = 0
  PROVE  Spec => IndicesIngestedDaily
<1>. USE DEF store, locals, bounds, history
<1>. DEFINE Unkilled == crashes = 0
<1>1. ASSUME Unkilled, [Next]_vars
      PROVE  Unkilled'
  <2>1. ~Crash /\ ~WriteFails  BY <1>1 DEF Crash, WriteFails
  <2>2. crashes' = crashes
    BY <1>1, <2>1 DEF Next, RunStep, BeginRun, Skip, Send, FetchFails, WriteFails, EmptyRepair, EmptyFetch,
         StoreBars, CloseNoData, SetCursor, ResolveGap, FundsStored, FundsDenied,
         Account, FinishRun, Tick, Lose, Add, Remove, vars
  <2>. QED  BY <1>1, <2>2
<1>2. Init => Unkilled  BY DEF Init
<1>3. ASSUME IInv, Unkilled, BeginRun, NEW i \in Indices
      PROVE  ~Frozen(i)
  <2>1. i \in Symbols /\ pc = "idle"  BY <1>3 DEF BeginRun, Symbols
  <2>. QED  BY <1>3, <2>1 DEF IInv, CursorFollows, Frozen
<1>4. ASSUME IInv, Unkilled,
             [BeginRun => \A i \in Indices :
                cursor[i] # today /\ ~Frozen(i) =>
                  \E it \in plan' : it.sym = i /\ it.kind # "gap-repair"]_vars
      PROVE  [BeginRun => \A i \in Indices : cursor[i] # today =>
                \E it \in plan' : it.sym = i /\ it.kind # "gap-repair"]_vars
  BY <1>3, <1>4
<1>. HIDE DEF Unkilled
<1>. QED
  BY <1>1, <1>2, <1>4, Invariance, OnlyFrozenIndices, PTL DEF Spec, IndicesIngestedDaily

\* missing_ranges cuts a set of missing days into its runs: every day lies in one
\* range and in no other, every day of a range is missing, and two ranges have a
\* day between them, so that no run is asked for in pieces or twice.
THEOREM RangesPartition ==
  ASSUME NEW m, m \subseteq Days
  PROVE  /\ UNION {r[1] .. r[2] : r \in Ranges(m)} = m
         /\ \A q, r \in Ranges(m) : q # r => q[2] + 1 < r[1] \/ r[2] + 1 < q[1]
<1>1. \A x \in m : x \in Int  BY DEF Days
<1>2. \A r \in Ranges(m) : r \in m \X m /\ (r[1] .. r[2]) \subseteq m  BY DEF Ranges
<1>3. ASSUME NEW d \in m
      PROVE  d \in UNION {r[1] .. r[2] : r \in Ranges(m)}
  <2>1. PICK r \in Ranges(m) : r[1] <= d /\ d <= r[2]  BY RangesCover
  <2>2. r[1] \in Int /\ r[2] \in Int /\ d \in Int  BY <1>1, <1>2
  <2>3. d \in r[1] .. r[2]  BY <2>1, <2>2
  <2>. QED  BY <2>3
<1>4. ASSUME NEW q \in Ranges(m), NEW r \in Ranges(m), q # r
      PROVE  q[2] + 1 < r[1] \/ r[2] + 1 < q[1]
  <2>1. ~(q[1] <= r[2] + 1 /\ r[1] <= q[2] + 1)  BY <1>4, RangesApart
  <2>2. q[1] \in Int /\ q[2] \in Int /\ r[1] \in Int /\ r[2] \in Int  BY <1>1, <1>2
  <2>. QED  BY <2>1, <2>2
<1>. QED  BY <1>2, <1>3, <1>4

\* Detection overlooks no missing day: at the start and at the end of a run
\* every day a tracked symbol lacks, up to its cursor, lies in a row of the
\* gap table, open or closed (_enqueue_detected_gaps, _completeness_pass).
THEOREM DetectionComplete ==
  Spec => [][BeginRun \/ FinishRun =>
               \A s \in Tracked : \A d \in Missing(s) :
                 \E k \in GapKey : /\ k[1] = s /\ k[2] <= d /\ d <= k[3]
                                   /\ gaps'[k].status # "none"]_vars
<1>1. ASSUME IInv, BeginRun \/ FinishRun, NEW s \in Tracked, NEW d \in Missing(s)
      PROVE  \E k \in GapKey : k[1] = s /\ k[2] <= d /\ d <= k[3] /\ gaps'[k].status # "none"
  <2>1. s \in Symbols  BY DEF Tracked, Active, Symbols
  <2>2. Missing(s) \subseteq Days  BY <1>1, <2>1, MissingIs DEF IInv
  <2>3. PICK r \in Ranges(Missing(s)) : r[1] <= d /\ d <= r[2]
    BY <2>2, RangesCover
  <2>4. r \in Missing(s) \X Missing(s)  BY DEF Ranges
  <2>. DEFINE k == <<s, r[1], r[2]>>
  <2>5. k \in GapKey /\ k[1] = s /\ k[2] = r[1] /\ k[3] = r[2] /\ <<k[2], k[3]>> = r
    BY <2>1, <2>2, <2>4 DEF GapKey
  <2>6. gaps' = Enqueued  BY <1>1 DEF BeginRun, FinishRun
  <2>. HIDE DEF k
  <2>7. gaps'[k] = Insert(gaps[k])  BY <2>3, <2>5, <2>6 DEF Enqueued
  <2>8. gaps'[k].status # "none"  BY <2>7 DEF Insert
  <2>. QED  BY <2>3, <2>5, <2>8
<1>2. IInv => [BeginRun \/ FinishRun =>
                 \A s \in Tracked : \A d \in Missing(s) :
                   \E k \in GapKey : /\ k[1] = s /\ k[2] <= d /\ d <= k[3]
                                     /\ gaps'[k].status # "none"]_vars
  BY <1>1
<1>. QED  BY <1>2, Invariance, PTL
=============================================================================
