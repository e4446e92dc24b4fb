----------------------------- MODULE MarketSync -----------------------------
(***************************************************************************)
(* The market track of one sync process (data/ingest/sync.py) over the    *)
(* SQLite store: the call budget (budget.py), the gap queue, the cursors,  *)
(* the benchmark calendar (calendar.py), the bar store (market.py) and the *)
(* watchlist (store/watchlist.py).                                         *)
(*                                                                         *)
(* One action is one committed transaction or one network call, because   *)
(* the code commits after each: the process may be killed between any two *)
(* (Crash), and midnight UTC may pass between any two (Tick).              *)
(*                                                                         *)
(* Dates are calendar days 1..MaxDay, day 1 being the start of the        *)
(* five-year window (the window does not slide over the modelled days);   *)
(* 0 is SQL NULL.  A bar is its date: OHLCV values are not modelled.      *)
(*                                                                         *)
(* Definitions named Wrong... are mistakes this code has made or could    *)
(* make, one for each property: with it in place of the definition that   *)
(* follows it, TLC finds the property violated.                           *)
(***************************************************************************)
EXTENDS Integers, FiniteSets

CONSTANTS
  Indices,        \* BENCHMARK_INDICES
  Watch,          \* the verified symbols a user may put on the watchlist
  Calendar,       \* symbol -> the index whose bars are its trading calendar
  Order,          \* symbol -> its place in BENCHMARK_INDICES / alphabet
  MaxDay,         \* bound: last calendar day of the model
  TradingDays,    \* the days the exchange is open
  Holes,          \* <<symbol, day>> the vendor never has (suspensions)
  Cap,            \* EODHD_DAILY_CALLS
  FundCost,       \* FUNDAMENTALS_COST
  WatchCap,       \* ACTIVE_CAP
  FundsServed,    \* does the vendor plan include fundamentals (no 403)?
  ForceFunds,     \* EODHD_FUNDAMENTALS=1: probe again after a denial
  MaxFaults,      \* bound: wrong or missing vendor answers, keyless runs
  MaxCrashes,     \* bound: kills of the process, and failed writes, inside a run
  MaxMidnights,   \* bound: changes of date inside a run
  MaxLosses,      \* bound: bars deleted behind the program's back
  MaxEdits        \* bound: watchlist edits

Symbols == Indices \union Watch
Days == 1 .. MaxDay

ASSUME SymbolsAssumption ==
  /\ Indices \intersect Watch = {}
  /\ Calendar \in [Symbols -> Indices]
  /\ Order \in [Symbols -> Nat]

ASSUME DaysAssumption ==
  /\ MaxDay \in Nat \ {0}
  /\ TradingDays \subseteq Days
  /\ Holes \subseteq Symbols \X Days

ASSUME BudgetAssumption ==
  /\ Cap \in Nat \ {0}
  /\ FundCost \in Nat \ {0}
  /\ WatchCap \in Nat

ASSUME SwitchAssumption ==
  /\ FundsServed \in BOOLEAN
  /\ ForceFunds \in BOOLEAN

ASSUME BoundAssumption ==
  /\ MaxFaults \in Nat
  /\ MaxCrashes \in Nat
  /\ MaxMidnights \in Nat
  /\ MaxLosses \in Nat
  /\ MaxEdits \in Nat

NoDate == 0
DateOrNull == Days \union {NoDate}
MaxEmptyAttempts == 3

(***************************************************************************)
(* Rows.  A gap's status folds resolved_at and resolution: open is        *)
(* resolved_at IS NULL, filled is resolved with no resolution, no-data is *)
(* resolved with resolution 'no-data'.  "none": there is no such row.     *)
(***************************************************************************)
GapKey == Symbols \X Days \X Days
GapRow == [status : {"none", "open", "filled", "no-data"},
           attempts : Nat,          \* empty_attempts
           tried : DateOrNull,      \* empty_attempts_date
           since : DateOrNull]      \* detected_at (its day)
NoGap == [status |-> "none", attempts |-> 0, tried |-> NoDate, since |-> NoDate]

Counter == [calls : Int, date : DateOrNull]  \* a sync_state row's calls_today, calls_date

Item == [kind : {"backfill", "incremental", "gap-repair", "fundamentals"},
         sym : Symbols, from : Days, to : Days, class : 0 .. 3, ord : Nat]
NoItem == [kind |-> "none"]

VARIABLES
  today,     \* the UTC date every clock read returns
  bars,      \* market_bars: symbol -> dates stored
  cursor,    \* sync_state.cursor of track market:{symbol}
  gaps,      \* sync_gaps
  budget,    \* sync_state row 'eodhd-budget'
  share,     \* sync_state row 'gap-repair-daily'
  watch,     \* watchlist.status
  funds,     \* symbols whose newest stored quarter is recent enough
  access,    \* sync_state row 'fundamentals-access'
  pc,        \* where run() is
  plan,      \* the plan items not yet executed
  item,      \* the item being executed
  last,      \* last_date in _execute
  before,    \* used_today() read before the item
  gapSpent,  \* gap_spent
  live,      \* is a vendor key configured (require_live)?
  lost,      \* history: <<symbol, date>> deleted out of band
  repairs,   \* history: gap-repair calls made today
  faults, crashes, midnights, losses, edits   \* the bounded counters

store == <<bars, cursor, gaps, budget, share, watch, funds, access>>
locals == <<plan, item, last, before, gapSpent, live>>
bounds == <<faults, crashes, midnights, losses, edits>>
history == <<lost, repairs>>
vars == <<today, store, pc, locals, history, bounds>>

-----------------------------------------------------------------------------
(* The call budget (budget.py). *)

\* A row of another date reads as zero: the lazy reset.
Used(c) == IF c.date = today THEN c.calls ELSE 0

\* spend(n): the row of today's date with n more calls; n may be negative.
Spend(c, n) == [calls |-> Used(c) + n, date |-> today]

WrongAffordable(n) == Used(budget) < Cap

\* try_spend's test: remaining() is max(0, cap - used), and a cost is positive.
Affordable(n) == Used(budget) + n <= Cap

\* gap_quota: half the cap per day, at least one.
Quota == IF Cap \div 2 > 1 THEN Cap \div 2 ELSE 1

Cost(it) == IF it.kind = "fundamentals" THEN FundCost ELSE 1

-----------------------------------------------------------------------------
(* Gap detection (_enqueue_detected_gaps, _completeness_pass: same rule). *)

Active == {s \in Watch : watch[s] = "active"}
Tracked == Active \union Indices

\* Detection up to today, whatever the cursor.
WrongExpected(s) == {d \in bars[Calendar[s]] : \E e \in bars[s] : e <= d}

\* Dates the symbol should have: the calendar's stored dates from the
\* symbol's own first bar up to its cursor (or today when it has none).
Expected(s) ==
  {d \in bars[Calendar[s]] :
     /\ \E e \in bars[s] : e <= d
     /\ d <= IF cursor[s] = NoDate THEN today ELSE cursor[s]}

Missing(s) == Expected(s) \ bars[s]

\* A run is closed only by a second missing day.
WrongRanges(m) ==
  {r \in m \X m : /\ r[1] < r[2]
                  /\ (r[1] .. r[2]) \subseteq m
                  /\ (r[1] - 1) \notin m
                  /\ (r[2] + 1) \notin m}

\* missing_ranges: the maximal runs of consecutive calendar days in a set.
Ranges(m) ==
  {r \in m \X m : /\ r[1] <= r[2]
                  /\ (r[1] .. r[2]) \subseteq m
                  /\ (r[1] - 1) \notin m
                  /\ (r[2] + 1) \notin m}

\* INSERT OR IGNORE: a row that exists, open or resolved, is left alone.
Insert(row) ==
  IF row.status = "none"
  THEN [status |-> "open", attempts |-> 0, tried |-> NoDate, since |-> today]
  ELSE row

Enqueued ==
  [k \in GapKey |->
     IF k[1] \in Tracked /\ <<k[2], k[3]>> \in Ranges(Missing(k[1]))
     THEN Insert(gaps[k]) ELSE gaps[k]]

-----------------------------------------------------------------------------
(* Planning (_plan): benchmark indices, open gaps oldest first, active    *)
(* watchlist symbols, then fundamentals.  `class` and `ord` carry that    *)
(* order; gaps detected on one day are taken in any order.                *)

\* Always from the cursor, NULL or not.
WrongFetch(s, noHistory, class) ==
  [kind |-> IF noHistory THEN "backfill" ELSE "incremental",
   sym |-> s, from |-> cursor[s], to |-> today, class |-> class, ord |-> Order[s]]

\* Full history when there is none to continue from, else from the cursor.
Fetch(s, noHistory, class) ==
  [kind |-> IF noHistory THEN "backfill" ELSE "incremental",
   sym |-> s, from |-> IF noHistory THEN 1 ELSE cursor[s], to |-> today,
   class |-> class, ord |-> Order[s]]

\* The indices are backfilled once (before TP-019).
WrongIndexItems == {Fetch(i, TRUE, 0) : i \in {j \in Indices : bars[j] = {}}}

IndexItems ==
  {Fetch(s, bars[s] = {}, 0) :
     s \in {i \in Indices : \/ bars[i] = {}
                            \/ cursor[i] # NoDate /\ cursor[i] < today}}

GapItems(g) ==
  {[kind |-> "gap-repair", sym |-> k[1], from |-> k[2], to |-> k[3],
    class |-> 1, ord |-> g[k].since] : k \in {k \in GapKey : g[k].status = "open"}}

WatchItems == {Fetch(s, cursor[s] = NoDate, 2) : s \in {w \in Active : cursor[w] < today}}

FundsEnabled == ForceFunds \/ access # "denied"

FundItems ==
  {[kind |-> "fundamentals", sym |-> s, from |-> 1, to |-> today,
    class |-> 3, ord |-> Order[s]] :
     s \in {w \in Active : FundsEnabled /\ bars[w] # {} /\ w \notin funds}}

Plan(g) == IndexItems \union GapItems(g) \union WatchItems \union FundItems

Precedes(a, b) == a.class < b.class \/ (a.class = b.class /\ a.ord <= b.ord)
AtHead(it) == it \in plan /\ \A other \in plan : Precedes(it, other)

KeyOf(it) == <<it.sym, it.from, it.to>>

-----------------------------------------------------------------------------
Init ==
  /\ today = 1
  /\ bars = [s \in Symbols |-> {}]
  /\ cursor = [s \in Symbols |-> NoDate]
  /\ gaps = [k \in GapKey |-> NoGap]
  /\ budget = [calls |-> 0, date |-> NoDate]
  /\ share = [calls |-> 0, date |-> NoDate]
  /\ watch = [s \in Watch |-> "absent"]
  /\ funds = {}
  /\ access = "unknown"
  /\ pc = "idle"
  /\ plan = {} /\ item = NoItem
  /\ last = NoDate /\ before = 0 /\ gapSpent = 0 /\ live = TRUE
  /\ lost = {} /\ repairs = 0
  /\ faults = 0 /\ crashes = 0 /\ midnights = 0 /\ losses = 0 /\ edits = 0

(***************************************************************************)
(* run(): detect, plan, then execute item by item.                        *)
(***************************************************************************)
BeginRun ==
  /\ pc = "idle"
  /\ gaps' = Enqueued
  /\ plan' = Plan(Enqueued)
  /\ gapSpent' = Used(share)
  /\ pc' = "exec"
  /\ \/ live' = TRUE /\ UNCHANGED faults
     \/ live' = FALSE /\ faults < MaxFaults /\ faults' = faults + 1
  /\ UNCHANGED <<today, bars, cursor, budget, share, watch, funds, access,
                 item, last, before, history, crashes, midnights, losses, edits>>

\* The item leaves the plan without a call: the gap share is used up, no
\* key is configured, or the day's cap does not cover the cost.
Skip ==
  /\ pc = "exec"
  /\ \E it \in plan :
       /\ AtHead(it)
       /\ \/ it.kind = "gap-repair" /\ gapSpent >= Quota
          \/ ~live
          \/ ~Affordable(Cost(it))
       /\ plan' = plan \ {it}
  /\ UNCHANGED <<today, store, pc, item, last, before, gapSpent, live, history, bounds>>

\* try_spend commits, then the request goes out.
Send ==
  /\ pc = "exec"
  /\ \E it \in plan :
       /\ AtHead(it)
       /\ ~(it.kind = "gap-repair" /\ gapSpent >= Quota)
       /\ live
       /\ Affordable(Cost(it))
       /\ plan' = plan \ {it}
       /\ item' = it
       /\ budget' = Spend(budget, Cost(it))
       /\ before' = Used(budget)
       /\ repairs' = IF it.kind = "gap-repair" THEN repairs + 1 ELSE repairs
  /\ pc' = "fetch"
  /\ UNCHANGED <<today, bars, cursor, gaps, share, watch, funds, access,
                 last, gapSpent, live, lost, bounds>>

\* _execute returns: a gap repair still has to be booked on the share.
Return ==
  IF item.kind = "gap-repair"
  THEN pc' = "account" /\ last' = NoDate /\ UNCHANGED <<item, before>>
  ELSE pc' = "exec" /\ last' = NoDate /\ item' = NoItem /\ before' = 0

(***************************************************************************)
(* The vendor (external).  It answers with the bars it has in the range,  *)
(* or, a bounded number of times, with fewer of them, none, or an error.  *)
(***************************************************************************)
Available(it) ==
  {d \in TradingDays : it.from <= d /\ d <= it.to /\ <<it.sym, d>> \notin Holes}

Answers(rows) ==
  \/ rows = Available(item) /\ UNCHANGED faults
  \/ rows # Available(item) /\ faults < MaxFaults /\ faults' = faults + 1

FetchFails ==
  /\ pc = "fetch"
  /\ faults < MaxFaults /\ faults' = faults + 1
  /\ Return
  /\ UNCHANGED <<today, store, plan, gapSpent, live, history, crashes, midnights, losses, edits>>

\* A write after the answer raises (a locked or full database): the item
\* fails with what it had committed, and the run goes on.
WriteFails ==
  /\ pc \in {"cursor", "resolve", "close"}
  /\ crashes < MaxCrashes /\ crashes' = crashes + 1
  /\ Return
  /\ UNCHANGED <<today, store, plan, gapSpent, live, history, faults, midnights, losses, edits>>

\* Every run counts (before DE-08).
WrongCountAttempt(row) ==
  IF row.status # "open" THEN row ELSE [row EXCEPT !.attempts = @ + 1, !.tried = today]

\* An empty answer counts once per calendar day, on an open row only.
CountAttempt(row) ==
  IF row.tried = today \/ row.status # "open"
  THEN row
  ELSE [row EXCEPT !.attempts = @ + 1, !.tried = today]

EmptyRepair ==
  /\ pc = "fetch" /\ item.kind = "gap-repair"
  /\ Answers({})
  /\ LET row == CountAttempt(gaps[KeyOf(item)])
     IN /\ gaps' = [gaps EXCEPT ![KeyOf(item)] = row]
        /\ pc' = IF row.attempts >= MaxEmptyAttempts THEN "close" ELSE "account"
  /\ UNCHANGED <<today, bars, cursor, budget, share, watch, funds, access,
                 locals, history, crashes, midnights, losses, edits>>

\* The resolution column is forgotten: no-data reads as repaired.
WrongResolve(row, as) == IF row.status = "open" THEN [row EXCEPT !.status = "filled"] ELSE row

Resolve(row, as) == IF row.status = "open" THEN [row EXCEPT !.status = as] ELSE row

CloseNoData ==
  /\ pc = "close"
  /\ gaps' = [gaps EXCEPT ![KeyOf(item)] = Resolve(@, "no-data")]
  /\ Return
  /\ UNCHANGED <<today, bars, cursor, budget, share, watch, funds, access,
                 plan, gapSpent, live, history, bounds>>

\* The cursor advances to to_date on an empty answer (before TP-019).
WrongEmptyFetch ==
  /\ pc = "fetch" /\ item.kind \in {"backfill", "incremental"}
  /\ Answers({})
  /\ cursor' = [cursor EXCEPT ![item.sym] = item.to]
  /\ Return
  /\ UNCHANGED <<today, bars, gaps, budget, share, watch, funds, access,
                 plan, gapSpent, live, history, crashes, midnights, losses, edits>>

\* An empty backfill or incremental proves nothing: the cursor stays.
EmptyFetch ==
  /\ pc = "fetch" /\ item.kind \in {"backfill", "incremental"}
  /\ Answers({})
  /\ Return
  /\ UNCHANGED <<today, store, plan, gapSpent, live, history, crashes, midnights, losses, edits>>

StoreBars ==
  /\ pc = "fetch" /\ item.kind # "fundamentals"
  /\ \E rows \in SUBSET Available(item) :
       /\ Answers(rows)
       /\ bars' = [bars EXCEPT ![item.sym] = @ \union rows]
       /\ \E d \in rows : (\A e \in rows : e <= d) /\ last' = d
  /\ pc' = "cursor"
  /\ UNCHANGED <<today, cursor, gaps, budget, share, watch, funds, access,
                 plan, item, before, gapSpent, live, history, crashes, midnights, losses, edits>>

\* Never regress: a repaired gap lies behind the cursor.
NewCursor(old, date) == IF old > date THEN old ELSE date

SetCursor ==
  /\ pc = "cursor"
  /\ cursor' = [cursor EXCEPT ![item.sym] = NewCursor(@, last)]
  /\ IF item.kind = "gap-repair"
     THEN pc' = "resolve" /\ last' = NoDate /\ UNCHANGED <<item, before>>
     ELSE Return
  /\ UNCHANGED <<today, bars, gaps, budget, share, watch, funds, access,
                 plan, gapSpent, live, history, bounds>>

ResolveGap ==
  /\ pc = "resolve"
  /\ gaps' = [gaps EXCEPT ![KeyOf(item)] = Resolve(@, "filled")]
  /\ Return
  /\ UNCHANGED <<today, bars, cursor, budget, share, watch, funds, access,
                 plan, gapSpent, live, history, bounds>>

FundsStored ==
  /\ pc = "fetch" /\ item.kind = "fundamentals" /\ FundsServed
  /\ \/ funds' = funds \union {item.sym}   \* a recent quarter came
     \/ UNCHANGED funds                    \* the vendor's newest one is old
  /\ Return
  /\ UNCHANGED <<today, bars, cursor, gaps, budget, share, watch, access,
                 plan, gapSpent, live, history, bounds>>

FundsDenied ==
  /\ pc = "fetch" /\ item.kind = "fundamentals" /\ ~FundsServed
  /\ access' = "denied"
  /\ Return
  /\ UNCHANGED <<today, bars, cursor, gaps, budget, share, watch, funds,
                 plan, gapSpent, live, history, bounds>>

\* Calls the item is booked with: used_today() now minus used_today() then.
Delta == Used(budget) - before

\* The share is kept per run only (before DE-08).
WrongBooked == share

Booked == IF Delta # 0 THEN Spend(share, Delta) ELSE share

Account ==
  /\ pc = "account"
  /\ share' = Booked
  /\ gapSpent' = gapSpent + Delta
  /\ pc' = "exec" /\ item' = NoItem /\ before' = 0
  /\ UNCHANGED <<today, bars, cursor, gaps, budget, watch, funds, access,
                 plan, last, live, history, bounds>>

FinishRun ==
  /\ pc = "exec" /\ plan = {}
  /\ gaps' = Enqueued
  /\ pc' = "idle" /\ gapSpent' = 0 /\ live' = TRUE
  /\ UNCHANGED <<today, bars, cursor, budget, share, watch, funds, access,
                 plan, item, last, before, history, bounds>>

-----------------------------------------------------------------------------
(* The environment: kills, the clock, deletions, the user's watchlist.    *)

Crash ==
  /\ pc # "idle" /\ crashes < MaxCrashes
  /\ crashes' = crashes + 1
  /\ pc' = "idle" /\ plan' = {} /\ item' = NoItem
  /\ last' = NoDate /\ before' = 0 /\ gapSpent' = 0 /\ live' = TRUE
  /\ UNCHANGED <<today, store, history, faults, midnights, losses, edits>>

Tick ==
  /\ today < MaxDay
  /\ \/ pc = "idle" /\ UNCHANGED midnights
     \/ pc # "idle" /\ midnights < MaxMidnights /\ midnights' = midnights + 1
  /\ today' = today + 1
  /\ repairs' = 0
  /\ UNCHANGED <<store, pc, locals, lost, faults, crashes, losses, edits>>

Lose ==
  /\ pc = "idle" /\ losses < MaxLosses
  /\ \E s \in Symbols : \E d \in bars[s] :
       /\ bars' = [bars EXCEPT ![s] = @ \ {d}]
       /\ lost' = lost \union {<<s, d>>}
  /\ losses' = losses + 1
  /\ UNCHANGED <<today, cursor, gaps, budget, share, watch, funds, access,
                 pc, locals, repairs, faults, crashes, midnights, edits>>

\* add_verified for a confirmed, verified, non-index symbol: it activates the
\* row and queues the whole window as a gap in the same transaction.
Add(s) ==
  /\ pc = "idle" /\ edits < MaxEdits
  /\ Cardinality(Active) < WatchCap \/ watch[s] = "active"
  /\ watch' = [watch EXCEPT ![s] = "active"]
  /\ gaps' = [gaps EXCEPT ![<<s, 1, today>>] = Insert(@)]
  /\ edits' = edits + 1
  /\ UNCHANGED <<today, bars, cursor, budget, share, funds, access,
                 pc, locals, history, faults, crashes, midnights, losses>>

Remove(s) ==
  /\ pc = "idle" /\ edits < MaxEdits
  /\ watch[s] = "active"
  /\ watch' = [watch EXCEPT ![s] = "removed"]
  /\ edits' = edits + 1
  /\ UNCHANGED <<today, bars, cursor, gaps, budget, share, funds, access,
                 pc, locals, history, faults, crashes, midnights, losses>>

-----------------------------------------------------------------------------
RunStep ==
  \/ BeginRun \/ Skip \/ Send
  \/ FetchFails \/ WriteFails \/ EmptyRepair \/ EmptyFetch \/ StoreBars
  \/ CloseNoData \/ SetCursor \/ ResolveGap
  \/ FundsStored \/ FundsDenied
  \/ Account \/ FinishRun

Next ==
  \/ RunStep
  \/ Crash \/ Tick \/ Lose
  \/ \E s \in Watch : Add(s) \/ Remove(s)

Spec == Init /\ [][Next]_vars

\* A run that has begun is executed, the user syncs again and again, and
\* time passes.  Nothing is assumed of the user's edits, kills or losses.
FairSpec == Spec /\ WF_vars(RunStep) /\ SF_vars(Tick)

-----------------------------------------------------------------------------
TypeOK ==
  /\ today \in Days
  /\ bars \in [Symbols -> SUBSET Days]
  /\ cursor \in [Symbols -> DateOrNull]
  /\ gaps \in [GapKey -> GapRow]
  /\ budget \in Counter /\ share \in Counter
  /\ watch \in [Watch -> {"absent", "active", "removed"}]
  /\ funds \in SUBSET Symbols
  /\ access \in {"unknown", "denied"}
  /\ pc \in {"idle", "exec", "fetch", "cursor", "resolve", "close", "account"}
  /\ plan \in SUBSET Item
  /\ item \in Item \union {NoItem}
  /\ last \in DateOrNull /\ before \in Int /\ gapSpent \in Int /\ live \in BOOLEAN
  /\ lost \in SUBSET (Symbols \X Days) /\ repairs \in Nat
  /\ faults \in Nat /\ crashes \in Nat /\ midnights \in Nat
  /\ losses \in Nat /\ edits \in Nat

\* The day's calls never exceed the cap.
BudgetWithinCap == Used(budget) <= Cap

\* The rows, the tests and the writes of every item, kill and midnight are
\* one atomic budget: a call is counted before it is sent and in full, a
\* refused item counts nothing, only a new date resets the count, and it
\* never passes the cap (CallBudget.try_spend, INV-003).
Budget == INSTANCE AtomicBudget WITH calls <- Used(budget), day <- today, Costs <- {1, FundCost}
ImplementsBudget == Budget!Spec

\* A cursor names a date whose bar was really stored: an empty or failed
\* fetch never lets `data through <cursor>` outrun the bars (TP-019).
CursorBacked ==
  \A s \in Symbols :
    cursor[s] # NoDate => cursor[s] \in bars[s] \/ <<s, cursor[s]>> \in lost

\* A gap recorded as filled got at least one bar inside its range: an empty
\* answer is never booked as a repair (TP-018 low-4).
FilledGapHasBars ==
  \A k \in GapKey :
    gaps[k].status = "filled" =>
      \E d \in k[2] .. k[3] : d \in bars[k[1]] \/ <<k[1], d>> \in lost

\* A gap closes as no-data only when empty answers were counted on three
\* different days since its detection: same-day re-runs and restarts cannot
\* exhaust the attempts (DE-08).
NoDataTakesThreeDays ==
  \A k \in GapKey :
    gaps[k].status = "no-data" =>
      gaps[k].attempts >= MaxEmptyAttempts /\ gaps[k].tried >= gaps[k].since + 2

\* Over all runs of one day, gap repair makes at most its share of the calls,
\* so the rest of the cap stays available to the updates and no sequence of
\* same-day runs claims the share twice (DE-08, TP-018b). A kill between a
\* call and its booking may lose that call from the count, and a run that
\* straddles midnight brings the old day's spending along.
GapShareHonoured == midnights = 0 /\ crashes = 0 => repairs <= Quota

\* A symbol's open gaps start at or behind its cursor: days the next
\* incremental will fetch are not queued, and paid for, a second time (TP-019).
GapsBehindCursor ==
  \A k \in GapKey :
    gaps[k].status = "open" /\ cursor[k[1]] # NoDate => k[2] <= cursor[k[1]]

\* No step moves a cursor back: repairing an old gap never makes the next
\* incremental fetch again what is stored.
CursorNeverRegresses == [][\A s \in Symbols : cursor'[s] >= cursor[s]]_cursor

\* Every run plans a fetch for every benchmark index that is behind: the
\* indices are the calendar gap detection compares against, and a frozen
\* calendar blinds it (TP-019).
IndicesIngestedDaily ==
  [][BeginRun =>
       \A i \in Indices :
         cursor[i] # today => \E it \in plan' : it.sym = i /\ it.kind # "gap-repair"]_vars

\* With finitely many faults, and syncs that keep coming, every tracked
\* symbol ends at the last trading day with every date of its calendar that
\* the vendor has.
UpToDate ==
  \A s \in Tracked :
    /\ cursor[s] = MaxDay
    /\ \A d \in Missing(s) : <<s, d>> \in Holes
Converges == <>[]UpToDate
=============================================================================
