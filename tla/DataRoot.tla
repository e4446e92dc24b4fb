------------------------------ MODULE DataRoot ------------------------------
(***************************************************************************)
(* Terminals over one data root: the command line (cli/app.py) and the     *)
(* REPL's /watch and /sync (agent/repl.py), each a process of its own,     *)
(* open and migrate the same SQLite store (store/db.py, schema.py),        *)
(* resolve mentions into the symbol map (store/resolver.py), put symbols   *)
(* on the watchlist behind the INV-004 gate (store/watchlist.py) and spend *)
(* the one call budget of the day (ingest/budget.py).                      *)
(*                                                                         *)
(* One action is one statement or one committed transaction: another       *)
(* process may run, or this one be killed, between any two.                *)
(*                                                                         *)
(* Definitions named Wrong... are mistakes this code has made or could     *)
(* make, one for each property: with it in place of the definition that    *)
(* follows it, TLC finds the property violated.                            *)
(***************************************************************************)
EXTENDS Integers, FiniteSets, Sequences

CONSTANTS
  Procs,         \* the terminals
  Listings,      \* the symbols the vendor's search may return, and the seeds
  Answers,       \* what a search may return: sets of listings
  Venue,         \* symbol -> "HK", "US", "INDX" or a secondary venue
  IndexTyped,    \* the listings whose Type the vendor gives as an index
  Seeds,         \* BENCHMARK_INDICES
  OldVersion,    \* the schema an older build left behind
  OldRows,       \* its symbol map
  OldWatch,      \* its watchlist
  ActiveCap,     \* ACTIVE_CAP
  Cap,           \* EODHD_DAILY_CALLS
  FundCost,      \* FUNDAMENTALS_COST
  MaxDay,        \* bound: calendar days
  MaxItems,      \* bound: items of one sync plan
  MaxCommands,   \* bound: commands given
  MaxKills       \* bound: processes killed

Days == 1 .. MaxDay
PrimaryExchanges == {"HK", "US", "INDX"}

\* exchange: what the row says, which an older build may have spelled "HKEX".
\* name: the vendor's, or the placeholder of a direct verification.
Row == [verified : BOOLEAN, index : BOOLEAN, exchange : PrimaryExchanges \union {"HKEX", "other"},
        name : {"official", "placeholder"}]
NoRow == [verified |-> FALSE, index |-> FALSE, exchange |-> "none", name |-> "none"]

ASSUME ListingsAssumption ==
  /\ IsFiniteSet(Procs) /\ Procs # {} /\ IsFiniteSet(Listings)
  /\ Venue \in [Listings -> PrimaryExchanges \union {"other"}]
  /\ IndexTyped \subseteq Listings
  /\ Seeds \subseteq {s \in Listings : Venue[s] = "INDX"}
  /\ Answers \subseteq SUBSET Listings /\ {} \notin Answers

ASSUME OldAssumption ==
  /\ OldVersion \in 1 .. 9
  /\ OldRows \in [Listings -> Row \union {NoRow}]
  /\ OldWatch \in [Listings -> {"absent", "active", "removed"}]
  /\ \A s \in Listings : OldRows[s].exchange \in PrimaryExchanges => Venue[s] \in PrimaryExchanges
  /\ OldVersion >= 6 => \A s \in Listings : OldRows[s].verified => Venue[s] \in PrimaryExchanges
  /\ Cardinality({s \in Listings : OldWatch[s] = "active"}) <= ActiveCap

ASSUME BoundAssumption ==
  /\ ActiveCap \in Nat /\ Cap \in Nat \ {0} /\ FundCost \in Nat \ {0}
  /\ MaxDay \in Nat \ {0} /\ MaxItems \in Nat \ {0}
  /\ MaxCommands \in Nat /\ MaxKills \in Nat

-----------------------------------------------------------------------------
(* The migrations (schema.py): "ddl" is a CREATE, ALTER or DROP, which     *)
(* fails when it was applied before; the two UPDATEs can be repeated.      *)

Ddl(n) == [i \in 1 .. n |-> "ddl"]
MigrationV1 == Ddl(11)
MigrationV4 == Ddl(12)
MigrationV6 == Ddl(2) \o <<"demote">>
MigrationV8 == Ddl(10)
MigrationV9 == <<"restore">>
Migrations == <<MigrationV1, Ddl(1), Ddl(1), MigrationV4, Ddl(4),
                MigrationV6, Ddl(1), MigrationV8, MigrationV9>>
SchemaVersion == Len(Migrations)
Statements == UNION {{v} \X (1 .. Len(Migrations[v])) : v \in 1 .. SchemaVersion}

\* What a statement does to the symbol map.
Effect(kind, map) ==
  [s \in Listings |->
     CASE kind = "demote" /\ map[s].exchange \notin PrimaryExchanges /\ map[s] # NoRow
            -> [map[s] EXCEPT !.verified = FALSE]
       [] kind = "restore" /\ Venue[s] = "HK" /\ map[s].exchange = "HKEX" /\ map[s].name = "official"
            -> [map[s] EXCEPT !.exchange = "HK", !.verified = TRUE]
       [] OTHER -> map[s]]

-----------------------------------------------------------------------------
VARIABLES
  today,      \* the UTC date
  applied,    \* the statements of migrations that took effect
  stamped,    \* schema_history: the versions recorded
  rows,       \* symbols: symbol -> its row
  watch,      \* watchlist.status
  queue,      \* sync_gaps: the windows queued by an add, <<symbol, day>>
  budget,     \* sync_state row 'eodhd-budget'
  pc,         \* process -> where it is
  job,        \* process -> the locals of what it is doing
  commands, kills   \* the bounded counters

store == <<applied, stamped, rows, watch, queue, budget>>
vars == <<today, store, pc, job, commands, kills>>

\* front: the command line or the REPL; version, at: the migration and the
\* statement it is at; found: candidates of a resolution, todo: those not yet
\* recorded, name: how the row will name them; sym: the symbol of the
\* command; full: what the cap test read; cost, used, date: a spending;
\* left: items of the sync plan left.
NoJob == [front |-> "none", version |-> 0, at |-> 1, found |-> {}, todo |-> {}, name |-> "official",
          sym |-> "none", full |-> FALSE, cost |-> 0, used |-> 0, date |-> 0, left |-> 0]

Init ==
  /\ today = 1
  /\ \/ /\ applied = {} /\ stamped = {}
        /\ rows = [s \in Listings |-> NoRow] /\ watch = [s \in Listings |-> "absent"]
     \/ /\ stamped = 1 .. OldVersion
        /\ applied = {st \in Statements : st[1] <= OldVersion}
        /\ rows = OldRows /\ watch = OldWatch
  /\ queue = {} /\ budget = [calls |-> 0, date |-> 0]
  /\ pc = [p \in Procs |-> "shell"] /\ job = [p \in Procs |-> NoJob]
  /\ commands = 0 /\ kills = 0

Goto(p, place) == pc' = [pc EXCEPT ![p] = place]
Local(p, j) == job' = [job EXCEPT ![p] = j]

\* A command is over: the process of a command line ends, the REPL goes on.
Done(p) ==
  /\ Goto(p, IF job[p].front = "cli" THEN "shell" ELSE "ready")
  /\ Local(p, IF job[p].front = "cli" THEN NoJob ELSE [NoJob EXCEPT !.front = "repl"])

\* An exception that ends the process.
Dies(p) == Goto(p, "shell") /\ Local(p, NoJob)

-----------------------------------------------------------------------------
(* Opening the store: open_db, one migration after the other from the      *)
(* version read first, then seed_benchmarks.                               *)

Version == IF stamped = {} THEN 0 ELSE CHOOSE v \in stamped : \A w \in stamped : w <= v

Open(p) ==
  /\ pc[p] = "shell"
  /\ commands < MaxCommands
  /\ \E front \in {"cli", "repl"} :
       Local(p, [NoJob EXCEPT !.front = front, !.version = Version + 1])
  /\ Goto(p, IF Version = SchemaVersion THEN "seed" ELSE "migrate")
  /\ UNCHANGED <<today, store, commands, kills>>

\* executescript runs in autocommit: a statement is on disk when it returns.
Statement(p) ==
  LET v == job[p].version
      i == job[p].at
  IN
  /\ pc[p] = "migrate" /\ i <= Len(Migrations[v])
  /\ IF Migrations[v][i] = "ddl" /\ <<v, i>> \in applied
     THEN Dies(p) /\ UNCHANGED <<applied, rows>>
     ELSE /\ applied' = applied \union {<<v, i>>}
          /\ rows' = Effect(Migrations[v][i], rows)
          /\ Local(p, [job[p] EXCEPT !.at = i + 1])
          /\ UNCHANGED pc
  /\ UNCHANGED <<today, stamped, watch, queue, budget, commands, kills>>

\* The newest version is stamped, not the one just applied.
WrongStamped(v) == stamped \union {SchemaVersion}

Stamped(v) == stamped \union {v}

\* INSERT INTO schema_history: its key refuses a second row of a version.
Stamp(p) ==
  LET v == job[p].version IN
  /\ pc[p] = "migrate" /\ job[p].at > Len(Migrations[v])
  /\ IF v \in stamped
     THEN Dies(p) /\ UNCHANGED stamped
     ELSE /\ stamped' = Stamped(v)
          /\ Local(p, [job[p] EXCEPT !.version = v + 1, !.at = 1])
          /\ Goto(p, IF v = SchemaVersion THEN "seed" ELSE "migrate")
  /\ UNCHANGED <<today, applied, rows, watch, queue, budget, commands, kills>>

SeedRow == [verified |-> TRUE, index |-> TRUE, exchange |-> "INDX", name |-> "official"]

\* seed_benchmarks: INSERT OR IGNORE, in one transaction.
Seed(p) ==
  /\ pc[p] = "seed"
  /\ rows' = [s \in Listings |-> IF s \in Seeds /\ rows[s] = NoRow THEN SeedRow ELSE rows[s]]
  /\ Goto(p, "ready")
  /\ Local(p, [job[p] EXCEPT !.version = 0])
  /\ UNCHANGED <<today, applied, stamped, watch, queue, budget, commands, kills>>

-----------------------------------------------------------------------------
(* Commands.                                                               *)

Command(p) == pc[p] = "ready" /\ commands < MaxCommands /\ commands' = commands + 1

\* Resolver.search: the seed a mention matches, else what the vendor lists
\* under it, in any venue; every candidate will be recorded.
Search(p) ==
  /\ Command(p)
  /\ \E found \in {{s} : s \in Seeds} \union Answers :
       Local(p, [job[p] EXCEPT !.found = found, !.todo = found])
  /\ Goto(p, "record")
  /\ UNCHANGED <<today, store, kills>>

\* `watch add 0700.HK`: a symbol in canonical shape that the search does not
\* index is verified by one budgeted fetch (verify_symbol).
Verify(p) ==
  /\ Command(p)
  /\ job[p].front = "cli"
  /\ \E s \in Listings :
       /\ Venue[s] \in {"HK", "US"}
       /\ Local(p, [job[p] EXCEPT !.sym = s, !.cost = 1])
  /\ Goto(p, "test")
  /\ UNCHANGED <<today, store, kills>>

\* Every sync starts with a plan; each of its items is one call.
Sync(p) ==
  /\ Command(p)
  /\ \E n \in 1 .. MaxItems, cost \in {1, FundCost} : Local(p, [job[p] EXCEPT !.left = n, !.cost = cost])
  /\ Goto(p, "test")
  /\ UNCHANGED <<today, store, kills>>

\* A watchlist.add the model proposed and the human confirmed with the
\* one-time token: any symbol, whatever was resolved before.
Propose(p) ==
  /\ Command(p)
  /\ job[p].front = "repl"
  /\ \E s \in Listings : Local(p, [job[p] EXCEPT !.sym = s])
  /\ Goto(p, "gate")
  /\ UNCHANGED <<today, store, kills>>

\* `watch remove` and /watch remove, confirmed: a symbol that is not active
\* is refused.
Remove(p) ==
  /\ Command(p)
  /\ \E s \in Listings :
       IF watch[s] = "active"
       THEN Goto(p, "remove") /\ Local(p, [job[p] EXCEPT !.sym = s])
       ELSE Done(p)
  /\ UNCHANGED <<today, store, kills>>

DropSymbol(p) ==
  /\ pc[p] = "remove"
  /\ watch' = [watch EXCEPT ![job[p].sym] = "removed"]
  /\ Done(p)
  /\ UNCHANGED <<today, applied, stamped, rows, queue, budget, commands, kills>>

-----------------------------------------------------------------------------
(* Resolution: recording, choosing, the INV-004 gate.                      *)

\* Every listing verified, whatever its venue (before ADR-005 Am2).
WrongRecorded(s, name) ==
  IF rows[s] = NoRow
  THEN [verified |-> TRUE, index |-> s \in IndexTyped, exchange |-> Venue[s], name |-> name]
  ELSE [rows[s] EXCEPT !.verified = TRUE, !.name = name]

\* record_resolution: a row that exists keeps its exchange and its type; only
\* a primary listing is verified.
Recorded(s, name) ==
  IF rows[s] = NoRow
  THEN [verified |-> Venue[s] \in PrimaryExchanges, index |-> s \in IndexTyped,
        exchange |-> Venue[s], name |-> name]
  ELSE [rows[s] EXCEPT !.verified = Venue[s] \in PrimaryExchanges, !.name = name]

\* Each candidate in a transaction of its own.
Record(p) ==
  /\ pc[p] = "record"
  /\ \E s \in job[p].todo :
       /\ rows' = [rows EXCEPT ![s] = Recorded(s, job[p].name)]
       /\ Local(p, [job[p] EXCEPT !.todo = @ \ {s}])
       /\ Goto(p, IF job[p].todo = {s} THEN "choose" ELSE "record")
  /\ UNCHANGED <<today, applied, stamped, watch, queue, budget, commands, kills>>

\* Listings of other venues are folded to a summary line.
Selectable(found) == {s \in found : Venue[s] \in PrimaryExchanges}

\* The human picks one of the listings shown and says yes, or not.
Choose(p) ==
  /\ pc[p] = "choose"
  /\ \/ \E s \in Selectable(job[p].found) :
          /\ Local(p, [job[p] EXCEPT !.sym = s, !.found = {}])
          /\ Goto(p, "gate")
     \/ Done(p)
  /\ UNCHANGED <<today, store, commands, kills>>

Active == {s \in Listings : watch[s] = "active"}

\* add_verified, its reads: the record, the number of active symbols ...
Gate(p) ==
  LET row == rows[job[p].sym] IN
  /\ pc[p] = "gate"
  /\ IF row # NoRow /\ row.verified /\ ~row.index
     THEN Goto(p, "admit") /\ Local(p, [job[p] EXCEPT !.full = Cardinality(Active) >= ActiveCap])
     ELSE Done(p)
  /\ UNCHANGED <<today, store, commands, kills>>

\* A symbol that was on the list before passes (before TP-017).
WrongRefused(p) == job[p].full /\ watch[job[p].sym] = "absent"

Refused(p) == job[p].full /\ watch[job[p].sym] # "active"

\* ... and the symbol's own status: the cap covers reactivation.
Admit(p) ==
  /\ pc[p] = "admit"
  /\ IF Refused(p) THEN Done(p) ELSE Goto(p, "commit") /\ UNCHANGED job
  /\ UNCHANGED <<today, store, commands, kills>>

\* The row and its backfill window, in one transaction.
Commit(p) ==
  /\ pc[p] = "commit"
  /\ watch' = [watch EXCEPT ![job[p].sym] = "active"]
  /\ queue' = queue \union {<<job[p].sym, today>>}
  /\ Done(p)
  /\ UNCHANGED <<today, applied, stamped, rows, budget, commands, kills>>

-----------------------------------------------------------------------------
(* Spending: try_spend is a test, then the read and the write of spend.    *)

Used == IF budget.date = today THEN budget.calls ELSE 0

\* The last item is not counted off.
WrongNextItem(p) ==
  IF job[p].left >= 1
  THEN Goto(p, "test") /\ Local(p, [job[p] EXCEPT !.left = @ - 1])
  ELSE Done(p)

\* What a sync does after an item.
NextItem(p) ==
  IF job[p].left > 1
  THEN Goto(p, "test") /\ Local(p, [job[p] EXCEPT !.left = @ - 1])
  ELSE Done(p)

\* Not covered: the item is deferred, the verification refused.
Test(p) ==
  /\ pc[p] = "test"
  /\ IF Used + job[p].cost <= Cap
     THEN Goto(p, "read") /\ UNCHANGED job
     ELSE NextItem(p)
  /\ UNCHANGED <<today, store, commands, kills>>

Read(p) ==
  /\ pc[p] = "read"
  /\ Local(p, [job[p] EXCEPT !.used = Used, !.date = today])
  /\ Goto(p, "write")
  /\ UNCHANGED <<today, store, commands, kills>>

Write(p) ==
  /\ pc[p] = "write"
  /\ budget' = [calls |-> job[p].used + job[p].cost, date |-> job[p].date]
  /\ Goto(p, "call") /\ UNCHANGED job
  /\ UNCHANGED <<today, applied, stamped, rows, watch, queue, commands, kills>>

\* The vendor's answer: bars prove that a verified symbol exists, under a
\* placeholder name; none, or an error, ends the command.
Call(p) ==
  /\ pc[p] = "call"
  /\ \/ job[p].left > 0 /\ NextItem(p)
     \/ /\ job[p].left = 0
        /\ Goto(p, "record")
        /\ Local(p, [job[p] EXCEPT !.found = {job[p].sym}, !.todo = {job[p].sym}, !.name = "placeholder"])
     \/ job[p].left = 0 /\ Done(p)
  /\ UNCHANGED <<today, store, commands, kills>>

-----------------------------------------------------------------------------
Kill(p) ==
  /\ pc[p] # "shell"
  /\ kills < MaxKills /\ kills' = kills + 1
  /\ Dies(p)
  /\ UNCHANGED <<today, store, commands>>

\* Ctrl-D at the prompt of the REPL.
Leave(p) ==
  /\ pc[p] = "ready" /\ job[p].front = "repl"
  /\ Dies(p)
  /\ UNCHANGED <<today, store, commands, kills>>

Tick ==
  /\ today < MaxDay /\ today' = today + 1
  /\ UNCHANGED <<store, pc, job, commands, kills>>

Step(p) ==
  \/ Open(p) \/ Statement(p) \/ Stamp(p) \/ Seed(p)
  \/ Search(p) \/ Verify(p) \/ Sync(p) \/ Propose(p) \/ Remove(p) \/ DropSymbol(p)
  \/ Record(p) \/ Choose(p) \/ Gate(p) \/ Admit(p) \/ Commit(p)
  \/ Test(p) \/ Read(p) \/ Write(p) \/ Call(p) \/ Kill(p) \/ Leave(p)

Next == Tick \/ \E p \in Procs : Step(p)
Spec == Init /\ [][Next]_vars

-----------------------------------------------------------------------------
(* Properties.                                                             *)

Places == {"shell", "migrate", "seed", "ready", "record", "choose", "gate", "admit", "commit",
           "remove", "test", "read", "write", "call"}
Job == [front : {"none", "cli", "repl"}, version : 0 .. SchemaVersion + 1, at : Nat,
        found : SUBSET Listings, todo : SUBSET Listings, name : {"official", "placeholder"},
        sym : Listings \union {"none"}, full : BOOLEAN, cost : Nat, used : Nat, date : 0 .. MaxDay,
        left : 0 .. MaxItems]

TypeOK ==
  /\ today \in Days /\ applied \subseteq Statements /\ stamped \subseteq 1 .. SchemaVersion
  /\ rows \in [Listings -> Row \union {NoRow}]
  /\ watch \in [Listings -> {"absent", "active", "removed"}]
  /\ queue \subseteq Listings \X Days
  /\ budget \in [calls : Nat, date : 0 .. MaxDay]
  /\ pc \in [Procs -> Places] /\ job \in [Procs -> Job]
  /\ \A p \in Procs : pc[p] \in {"gate", "admit", "commit", "remove"} => job[p].sym \in Listings
  /\ commands \in Nat /\ kills \in Nat

\* A version on record has all its statements on disk, every version before
\* it is on record, and no command runs on an older store, whatever two
\* processes that migrate it at once and a kill in a script leave (db.py).
StampedComplete ==
  /\ \A st \in Statements : st[1] \in stamped => st \in applied
  /\ \A v \in stamped : 1 .. v \subseteq stamped
  /\ \A p \in Procs : pc[p] \notin {"shell", "migrate"} => stamped = 1 .. SchemaVersion

\* The symbols that are active, or that a process has found room for.
Admitted == Active \union {job[p].sym : p \in {q \in Procs : pc[q] = "commit"}}

\* Terminals that test and write in two steps pass the cap of the watchlist
\* by one each, and not by more, whatever adds, reactivations and removals
\* overlap (GOV-004).
CapNearlyHeld == Cardinality(Admitted) <= ActiveCap + Cardinality(Procs) - 1

\* And two of them pass the cap of the calls on record for a day by one item;
\* a lost update lets them make more calls than are on record (INV-003).
LimitsNearlyHeld ==
  /\ CapNearlyHeld
  /\ Cardinality(Procs) <= 2 => budget.calls <= Cap + (Cardinality(Procs) - 1) * FundCost

\* Whoever asked for it, only a symbol with a record of its resolution, of a
\* primary exchange and no index, is ever added to the watchlist and gets a
\* backfill queued; what an older build added is migrated, not judged again
\* (INV-004, ADR-005 Am2).
WatchInScope ==
  \A s \in Listings : (\E d \in Days : <<s, d>> \in queue) =>
    rows[s] # NoRow /\ ~rows[s].index /\ Venue[s] \in PrimaryExchanges

\* "Every migration runs inside one transaction" (db.py, schema.py): when no
\* process is migrating, a version that is not on record left nothing behind
\* that keeps the store from being opened again.
MigrationAtomic ==
  (\A p \in Procs : pc[p] # "migrate") =>
    \A st \in applied : st[1] \in stamped \/ Migrations[st[1]][st[2]] # "ddl"
=============================================================================
