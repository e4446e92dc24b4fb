------------------------------ MODULE Startup ------------------------------
(***************************************************************************)
(* The freshness check of a start (ingest/freshness.py) and the sync it    *)
(* runs (cli/app.py _startup_sync, ingest/sync.py SyncService.run): which  *)
(* symbols the stored bars leave behind, what a run of the market track    *)
(* writes about them, and when the check fires again. Several terminals    *)
(* may start over one store.                                               *)
(*                                                                         *)
(* Time is counted in instants, three to a UTC day: before 10:00, from     *)
(* 10:00, from 23:00. One item of a plan takes less than an instant.       *)
(*                                                                         *)
(* Definitions named Wrong... are mistakes this code has made or could     *)
(* make, one for each property: with it in place of the definition that    *)
(* follows it, TLC finds the property violated.                            *)
(***************************************************************************)
EXTENDS Integers, FiniteSets, Sequences, SequencesExt

CONSTANTS
  Procs,      \* the terminals
  Indices,    \* BENCHMARK_INDICES
  Watchlist,  \* the active watchlist symbols
  Exchange,   \* symbol -> the calendar that governs it, "HK" or "US"
  MaxDay,     \* bound: calendar days
  MaxStarts,  \* bound: commands given
  Weekend,    \* the days that are no weekdays
  Sessions    \* exchange -> the days it trades: weekdays, but not every one

Symbols == Indices \union Watchlist
Days == 0 .. MaxDay
NoDay == -1
Instants == 0 .. 3 * MaxDay + 2
Never == -1

ASSUME CalendarAssumption ==
  /\ IsFiniteSet(Symbols)
  /\ MaxDay \in Nat \ {0} /\ MaxStarts \in Nat
  /\ Exchange \in [Symbols -> {"HK", "US"}]
  /\ Weekend \subseteq 1 .. MaxDay
  /\ Sessions \in [{"HK", "US"} -> SUBSET (Days \ Weekend)]
  /\ \A x \in {"HK", "US"} : 0 \in Sessions[x]

DayOf(t) == t \div 3

\* The first instant from which a session's bar is expected at the vendor.
AvailableAt(x, d) == 3 * d + (IF x = "HK" THEN 1 ELSE 2)

\* The vendor may serve a bar while its session runs, an instant earlier.
ServableFrom(x, d) == AvailableAt(x, d) - 1

\* The latest weekday whose bar is available.
ExpectedSession(x, t) ==
  CHOOSE d \in Days \union {NoDay} :
    /\ d = NoDay \/ (d \notin Weekend /\ AvailableAt(x, d) <= t)
    /\ \A e \in Days : e \notin Weekend /\ AvailableAt(x, e) <= t => e <= d

-----------------------------------------------------------------------------
VARIABLES
  now,        \* the instant
  published,  \* symbol -> the newest session the vendor holds
  newest,     \* market_bars: symbol -> MAX(date), NoDay without a bar
  cursor,     \* sync_state: symbol -> the market track's cursor, NoDay for NULL
  lastRun,    \* sync_state: symbol -> the market track's last_run_at
  gap,        \* sync_gaps: symbol -> an open gap, NoDay without one
  pc,         \* terminal -> "shell", "plan", "sync", "embed" or "session"
  plan,       \* terminal -> the items left
  sound,      \* terminal -> the sessions expected when an all-ok run was planned
  starts,     \* the bounded counter
  answered,   \* history: symbol -> when the vendor last sent bars of it
  settled     \* history: exchange -> the session expected at the last all-ok run

store == <<newest, cursor, lastRun, gap>>
history == <<answered, settled>>
vars == <<now, published, store, pc, plan, sound, starts, history>>

Expected(x) == ExpectedSession(x, now)
Today == DayOf(now)

\* behind: the symbols a start finds stale.
Behind == {s \in Symbols : /\ newest[s] < Expected(Exchange[s])
                           /\ lastRun[s] < AvailableAt(Exchange[s], Expected(Exchange[s]))}

NotSound == [x \in {"HK", "US"} |-> NoDay]

\* An empty store, or one synced at the end of day 0.
Init ==
  /\ now = 3
  /\ published = [s \in Symbols |-> 0]
  /\ \/ /\ newest = [s \in Symbols |-> NoDay] /\ lastRun = [s \in Symbols |-> Never]
     \/ /\ newest = [s \in Symbols |-> 0] /\ lastRun = [s \in Symbols |-> 2]
  /\ cursor = newest /\ answered = lastRun
  /\ gap = [s \in Symbols |-> NoDay]
  /\ pc = [p \in Procs |-> "shell"] /\ plan = [p \in Procs |-> <<>>]
  /\ sound = [p \in Procs |-> NotSound] /\ starts = 0
  /\ settled = NotSound

-----------------------------------------------------------------------------
(* A start: quiet, told that no key is configured, or syncing.             *)

Goto(p, place) == pc' = [pc EXCEPT ![p] = place]

Check(p) ==
  /\ pc[p] = "shell" /\ starts < MaxStarts /\ starts' = starts + 1
  /\ \/ Behind # {} /\ Goto(p, "plan")
     \/ Goto(p, "session")              \* nothing behind, not live, --no-sync
  /\ UNCHANGED <<now, published, store, plan, sound, history>>

\* `stockinsider sync`: the same run without the check.
Sync(p) ==
  /\ pc[p] = "shell" /\ starts < MaxStarts /\ starts' = starts + 1
  /\ Goto(p, "plan")
  /\ UNCHANGED <<now, published, store, plan, sound, history>>

\* The indices, then the open gaps, then the watchlist.
Items(action, S, day) == SetToSeq({[sym |-> s, action |-> action, day |-> day[s]] : s \in S})
Incremental(s) == cursor[s] # NoDay /\ cursor[s] < Today
PlanOf(gaps) ==
  LET until == [s \in Symbols |-> Today] IN
  Items("bars", {i \in Indices : newest[i] = NoDay \/ Incremental(i)}, until)
    \o Items("gap-repair", {s \in Symbols : gaps[s] # NoDay}, gaps)
    \o Items("bars", {s \in Watchlist : cursor[s] = NoDay \/ Incremental(s)}, until)

\* The days up to the cursor that an index of the exchange has and s may
\* lack; MarketSync models the detection itself.
Lackable(s) ==
  {d \in Sessions[Exchange[s]] :
     /\ newest[s] # NoDay /\ d # newest[s] /\ gap[s] = NoDay
     /\ d <= (IF cursor[s] = NoDay THEN Today ELSE cursor[s])
     /\ \E i \in Indices : Exchange[i] = Exchange[s] /\ d <= newest[i]}

Plan(p) ==
  /\ pc[p] = "plan"
  /\ \/ gap' = gap
     \/ \E s \in Symbols : \E d \in Lackable(s) : gap' = [gap EXCEPT ![s] = d]
  /\ plan' = [plan EXCEPT ![p] = PlanOf(gap')]
  /\ sound' = [sound EXCEPT ![p] = [x \in {"HK", "US"} |-> Expected(x)]]
  /\ Goto(p, "sync")
  /\ UNCHANGED <<starts, now, published, newest, cursor, lastRun, history>>

-----------------------------------------------------------------------------
(* One item of the plan: fetch_eod, store_bars, _set_cursor.               *)

Larger(a, b) == IF a < b THEN b ELSE a

\* The newest day of a non-empty answer; NoDay when the vendor has none.
Served(item) ==
  LET x == Exchange[item.sym]
      held == {d \in Sessions[x] : d <= item.day /\ d <= published[item.sym]}
  IN CASE item.action = "gap-repair" -> IF item.day \in held THEN item.day ELSE NoDay
       [] OTHER -> CHOOSE d \in held : \A e \in held : e <= d

\* The cursor after an item: a non-empty answer moves it, never back.
WrongCursorAfter(item, last) ==
  IF last = NoDay THEN item.day ELSE Larger(cursor[item.sym], last)
CursorAfter(item, last) ==
  IF last = NoDay THEN cursor[item.sym] ELSE Larger(cursor[item.sym], last)

\* last_run_at after an item: written with the cursor.
WrongRunAfterNews(item, last) ==
  IF last <= cursor[item.sym] THEN lastRun[item.sym] ELSE now
WrongRunAfter(item, last) ==
  IF CursorAfter(item, last) = NoDay THEN lastRun[item.sym] ELSE now
RunAfter(item, last) == IF last = NoDay THEN lastRun[item.sym] ELSE now

Ran(p, item, last) ==
  /\ newest' = [newest EXCEPT ![item.sym] = Larger(@, last)]
  /\ cursor' = [cursor EXCEPT ![item.sym] = CursorAfter(item, last)]
  /\ lastRun' = [lastRun EXCEPT ![item.sym] = RunAfter(item, last)]
  /\ plan' = [plan EXCEPT ![p] = Tail(@)]

Ok(p) ==
  /\ pc[p] = "sync" /\ plan[p] # <<>>
  /\ LET item == Head(plan[p]) IN
     /\ Served(item) # NoDay
     /\ Ran(p, item, Served(item))
     /\ gap' = IF item.action = "gap-repair" THEN [gap EXCEPT ![item.sym] = NoDay] ELSE gap
     /\ answered' = [answered EXCEPT ![item.sym] = now]
  /\ UNCHANGED <<starts, now, published, pc, sound, settled>>

\* An error, an empty answer or no call left; the third empty day closes a gap.
NotOk(p) ==
  /\ pc[p] = "sync" /\ plan[p] # <<>>
  /\ LET item == Head(plan[p]) IN
     /\ Ran(p, item, NoDay)
     /\ gap' \in {gap, IF item.action = "gap-repair" THEN [gap EXCEPT ![item.sym] = NoDay] ELSE gap}
  /\ sound' = [sound EXCEPT ![p] = NotSound]
  /\ UNCHANGED <<starts, now, published, pc, history>>

\* The process dies after store_bars and before _set_cursor.
DiesBetween(p) ==
  /\ pc[p] = "sync" /\ plan[p] # <<>>
  /\ LET item == Head(plan[p]) IN
       newest' = [newest EXCEPT ![item.sym] = Larger(@, Served(item))]
  /\ Goto(p, "shell")
  /\ plan' = [plan EXCEPT ![p] = <<>>] /\ sound' = [sound EXCEPT ![p] = NotSound]
  /\ UNCHANGED <<starts, now, published, cursor, lastRun, gap, history>>

\* The market track is over; news and bodies do not touch its rows.
Finish(p) ==
  /\ pc[p] = "sync" /\ plan[p] = <<>>
  /\ settled' = [x \in {"HK", "US"} |-> Larger(settled[x], sound[p][x])]
  /\ Goto(p, "embed")
  /\ sound' = [sound EXCEPT ![p] = NotSound]
  /\ UNCHANGED <<starts, now, published, store, plan, answered>>

\* An exception of sync or embed is reported, and the session starts.
Abort(p) ==
  /\ pc[p] \in {"plan", "sync", "embed"}
  /\ Goto(p, "session")
  /\ plan' = [plan EXCEPT ![p] = <<>>] /\ sound' = [sound EXCEPT ![p] = NotSound]
  /\ UNCHANGED <<starts, now, published, store, history>>

Embed(p) ==
  /\ pc[p] = "embed"
  /\ Goto(p, "session")
  /\ UNCHANGED <<starts, now, published, store, plan, sound, history>>

Leave(p) ==
  /\ pc[p] = "session"
  /\ Goto(p, "shell")
  /\ UNCHANGED <<starts, now, published, store, plan, sound, history>>

\* The clock; the vendor may add, late or never, sessions that have begun.
Tick ==
  /\ now + 1 \in Instants
  /\ now' = now + 1
  /\ \E S \in SUBSET Symbols :
       published' = [s \in Symbols |->
         LET served == {d \in Sessions[Exchange[s]] : ServableFrom(Exchange[s], d) <= now'}
         IN IF s \in S THEN CHOOSE d \in served : \A e \in served : e <= d ELSE published[s]]
  /\ UNCHANGED <<starts, store, pc, plan, sound, history>>

Step(p) == Check(p) \/ Sync(p) \/ Plan(p) \/ Ok(p) \/ NotOk(p) \/ DiesBetween(p)
             \/ Finish(p) \/ Abort(p) \/ Embed(p) \/ Leave(p)
Next == Tick \/ \E p \in Procs : Step(p)
Spec == Init /\ [][Next]_vars

-----------------------------------------------------------------------------
(* Properties.                                                             *)

\* The cursor of a market track names a day a bar was stored of, and a track
\* has run exactly when it has a cursor (sync.py _execute, _set_cursor).
TypeOK ==
  /\ now \in Instants
  /\ published \in [Symbols -> Days]
  /\ newest \in [Symbols -> Days \union {NoDay}] /\ cursor \in [Symbols -> Days \union {NoDay}]
  /\ lastRun \in [Symbols -> Instants \union {Never}] /\ gap \in [Symbols -> Days \union {NoDay}]
  /\ pc \in [Procs -> {"shell", "plan", "sync", "embed", "session"}]
  /\ plan \in [Procs -> Seq([sym : Symbols, action : {"bars", "gap-repair"}, day : Days])]
  /\ sound \in [Procs -> [{"HK", "US"} -> Days \union {NoDay}]]
  /\ answered \in [Symbols -> Instants \union {Never}]
  /\ settled \in [{"HK", "US"} -> Days \union {NoDay}] /\ starts \in 0 .. MaxStarts
  /\ \A s \in Symbols : cursor[s] <= newest[s] /\ (lastRun[s] = Never <=> cursor[s] = NoDay)

\* An index with bars and no cursor, which no plan takes up (sync.py _plan).
Frozen(s) == s \in Indices /\ newest[s] # NoDay /\ cursor[s] = NoDay

\* After a run without a failed or deferred item the check fires again only
\* when a further session became available, holidays and late vendors or not
\* (freshness.py: "the check stays quiet until the next weekday instead of
\* re-firing on every start"); a frozen index is the exception.
Settles ==
  \A s \in Behind : Expected(Exchange[s]) > settled[Exchange[s]] \/ Frozen(s)

\* A start that finds a symbol current is right about it: the expected
\* session is stored, or the vendor sent bars of the symbol since the session
\* became available: attempts that brought no bar of it never silence the
\* check (freshness.py behind, sync.py _set_cursor).  An ok gap repair does,
\* whatever became of the symbol's incremental.
QuietHonest ==
  \A s \in Symbols \ Behind :
    LET x == Exchange[s] IN
    newest[s] >= Expected(x) \/ answered[s] >= AvailableAt(x, Expected(x))
=============================================================================
