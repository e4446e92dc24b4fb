# Verification of stock-insider

TLA+ models of stock-insider (`src/src/stockinsider`), the TLC runs that check
them on small instances, and machine-checked proofs of what matters most for
every instance. Paths below are relative to `src/src/stockinsider`.

## The system

A single-user command-line agent: it keeps a SQLite store of market data and
news up to date under a small daily budget of vendor calls (*sync*), and answers
questions over that store with a language model whose numbers and claims are
checked before they are shown (*agent*).

| Part | State it keeps | Operations | Correct when |
| --- | --- | --- | --- |
| Sync engine, `data/ingest/sync.py` | `sync_state` cursors, `sync_gaps` | `run`: detect gaps, plan, execute item by item, completeness pass | cursors never outrun the bars, no gap is lost or paid for twice, everything converges |
| Call budget, `data/ingest/budget.py` | two counters with a date | `try_spend`, `spend`, lazy reset | a day never spends more than its cap |
| Calendar, `data/ingest/calendar.py` | none | `trading_dates`, `missing_ranges` | the ranges are exactly the missing days |
| Market adapter, `data/ingest/market.py` | `market_bars` | `fetch_eod`, `store_bars` | only valid rows are stored |
| Fundamentals, `data/ingest/fundamentals.py` | statements, profiles | `fetch_and_store` | a denial stops the spending |
| Watchlist, `data/store/watchlist.py` | `watchlist` | `add_verified`, `remove` | capped; only a verified primary listing is added, with its history queued in the same transaction |
| Resolver, `data/store/resolver.py` | `symbols` | `search`, `verify_symbol`, `record_resolution`, `seed_benchmarks` | verified means: a primary listing the vendor knows |
| Schema, `data/store/{schema,db}.py` | the schema version | `open_db` | a version on record is on disk, whole |
| Freshness, `data/ingest/freshness.py` | none of its own: reads bars and `last_run_at` | `behind` | a start that stays quiet is right to; a start that syncs settles the check |
| News, `data/ingest/{news,eodnews,newsrss,newsfilter}.py` | `news`, cursors | three tracks | an article is stored once; a failed window is covered again |
| Bodies, `data/ingest/newsbody.py` | body state and attempts of a row | promote, queue, fetch | a body is given up only when earned; the caps are spent in order |
| Vectors, `data/ingest/embed.py`, `data/store/vector.py` | embeddings, the registered model | `run_embed`, `knn`, `prune_orphans` | a vector joins the row it was computed from; nothing is left out silently |
| Turn engine, `agent/loop.py` | ledgers, open turn, abort flag | `run_turn` | every question has its answer or its marker; only evidence verifies |
| Confirmation broker, `agent/confirm.py` | pending tokens | `issue`, `consume`, `expire_turns` | a write runs once, with fresh consent |
| Post-check, `agent/guardrail.py`, `guardrail_claims.py` | none: a text against the ledger | `run_postcheck`, `mark_claims`, `run_with_regeneration` | what the ledger does not verify is marked or withheld, on every path to the screen and to a report |
| INV-002 counter, `agent/guardrail.py` | the total of violations | `record` | over the budget the session is aborted for good |
| Session store, `agent/session.py` | `session.jsonl`, `context/`, `index.json` | `create`, `close`, `abort`, `resume`, `append_event`, `snapshot` | append-only; a verdict is never undone |
| REPL, `agent/repl.py` | the bound session | prompt, `/resume`, `confirm`, `/report` | never bound to a closed session |
| Command line, `cli/app.py` | none | `watch`, `sync`, a start with its check | each command over the one store, beside other processes |
| Registry, providers, digest, TUI, indicators, shared | see `PROJECT.json` | | |

The parts interact through calls in one process and through the two stores on disk.
Nothing runs in parallel within a process, but a second process (another terminal, an
embedding on the command line, a sync in a session) shares the stores. What makes the
system hard is that it can stop between any two writes (Ctrl-C, a kill, an exception),
that the date changes under it, that the vendor answers wrongly, late or with less
than it has, that the user edits the watchlist and switches sessions in between, and
that every one of these leaves state the next run or turn starts from.

The hazards, each at its line and with the properties that cover it, are listed
in `PROJECT.json`.

## Modules

| Module | Models | Runs and proofs |
| --- | --- | --- |
| `MarketSync` | the sync engine's market track over budget, calendar, bars, gap queue, watchlist | `sync_*`; `MarketSyncProofs` |
| `MarketSyncProofs` | its inductive invariant and theorems | tlapm |
| `MCMarketSync` | one index, one or two symbols, four days | TLC |
| `AgentSession` | one terminal: REPL, turn engine, broker, counter, session store | `agent_*` |
| `AgentSessionProofs` | its inductive invariant and theorems | tlapm |
| `MCAgentSession` | one or two session ids | TLC |
| `NewsCorpus` | the table `news` under the three news tracks, retention, the body track and an embedding process | `news_*`; `NewsCorpusProofs` |
| `NewsCorpusProofs` | its inductive invariant and theorems | tlapm |
| `MCNewsCorpus` | one or three listings of one domain | TLC |
| `AtomicBudget` | what the call budget promises: the abstract specification `MarketSync` implements | `sync_safety` (`ImplementsBudget`), theorem `BudgetRefined` |
| `PostCheck` | the evidence index, the verdict on a text, and a turn's choice between answer, rewrite, refusal and withholding | `post_check`; `PostCheckProofs` |
| `PostCheckProofs` | its inductive invariant and theorems | tlapm |
| `MCPostCheck` | seven tool results, answers of no, one or two sentences | TLC |
| `DataRoot` | several processes over one store: migration, resolution, watchlist, the budget's test, read and write | `data_root*`; `DataRootProofs` |
| `DataRootProofs` | its inductive invariant and theorems | tlapm |
| `MCDataRoot` | two terminals, four listings, a store of version 5 | TLC |
| `Startup` | the check of a start, the sync it runs, and when it fires again, for several terminals | `startup`; `StartupProofs` |
| `StartupProofs` | its inductive invariant and theorems | tlapm |
| `MCStartup` | two terminals, one index and one listing | TLC |

### MarketSync

State: `bars`, `cursor`, `gaps`, `budget`, `share`, `watch`, `access` are the
tables (`funds` is what `_fundamentals_stale` reads of them); `pc`, `plan`,
`item`, `last`, `before`, `gapSpent`, `live` are the locals of `run` and
`_execute`; `lost` and `repairs` are history.

One action is one committed transaction or one network call, because the code
commits after each. `BeginRun` is the detection pass followed by `_plan`; a plan
item is then skipped (`Skip`: no key, no budget, no share) or sent (`Send`:
`try_spend`, then the request). The answer is stored (`StoreBars`), the cursor
advanced (`SetCursor`), the gap resolved (`ResolveGap`), the call of a gap repair
booked on its share (`Account`). Empty answers (`EmptyRepair`, `CloseNoData`,
`EmptyFetch`), errors of the fetch (`FetchFails`) and of a write after it
(`WriteFails`: the item fails with what it had committed, the run goes on) and
fundamentals (`FundsStored`, `FundsDenied`) are the other ways out of `_execute`. `FinishRun` is the
completeness pass. `Crash`, `Tick` (midnight UTC, also inside a run), `Lose`
(bars deleted behind the program's back), `Add` and `Remove` are the environment.

Abstractions: a bar is its date; a day is a number and day 1 is the start of the
five-year window, which does not slide over the modelled days; the vendor is
`Available` and `Answers` (what it has in a range, or, a bounded number of times,
something else, but never a day outside the range: `fetch_eod` stores what comes
without comparing it with what was asked, `market.py:141`); failed writes share the
bound of the kills; the detection pass is one step although it commits row by row
(the rows are independent, and a kill inside it leaves a subset that the next
detection completes); the gaps detected on one day are taken in any order.

### AgentSession

State: `log`, `snaps` and `status` are the three files of a session; `pending`,
`total`, `halted`, `ledger` are the engine's memory, lost with the process;
`turn`, `open`, `iter`, `gathered`, `counted` are the locals of a turn; `bound`
and `target` are the loop's binding; `executed`, `recorded` are history.

One action is one file write or one call of the provider or of a tool. `Ask`
computes the turn id, expires tokens, reads history and appends the question;
`OpenTurn` notes it as open; the tool loop is `CallTool` and one of
`ToolSucceeds`, `ToolFails`, `ProposeWrite`, `ProposeGarbled`; a turn leaves it
with an answer (`Candidate`), at the cap (`IterationCap`) or with an error
(`ProviderFails`). `Snapshot`, `PostCheck`, `Revise`, `Answer`, `CloseTurn`,
`Count`, `Persist` follow in the code's order. `Confirm`, `Execute`, `Record` are
the redemption of a token. `Switch`, `SwitchResumes`, `SwitchFails` are
`/resume`; `NewSession`, `ResumeSession`, `Exit`, `Close` enter and leave.
`InterruptTurn`, `InterruptLate`, `InterruptConfirm` are Ctrl-C, by what handles
it; `Kill` ends the process.

Abstractions: a text is not modelled, only the post-check's verdict on it (how
many INV-002 violations, and whether it is withheld); a response holds at most
one tool call, so a turn has at most `Limit` values; the log holds the events the
program reads back; an append and its rewrite of `index.json` are one step, and
the windows they open are the phases `asked` and `answered`; the profile of the
session only gives `Limit`; `append_event` finds its session, as one terminal leaves
it, so the `SessionError` that `repl.py:1105` turns into a return to the prompt
does not occur.

### NewsCorpus

State: `news` is the table, `lastId` its AUTOINCREMENT, `vectors` and `registry`
are `vec_news` and `vec_registry`; `pc`, `queue`, `asked`, `passed`, `streak` are
the locals of a sync's news part (the four tracks of `SyncService.run`, in its
order), `epc`, `model`, `batch`, `skipped` those of `run_embed` in another process;
`swept`, `failures`, `closed` are history.

`Gdelt`, `Eodhd` and `Rss` store one item in one bucket, by the rules they share
(`Store`: Key A on the url, Key B on the title, the survivor by tier and date) and
by what differs: the window of the gates, the buckets, and the tier the row records,
which is 0 for EODHD whatever the item's tier is. `EndGdelt` is the end of the first
track with retention. `BeginBodies` promotes and builds the queue; each article is
passed over (`PassBody`: its domain is paused or a cap is spent), extracted
(`BodyExtracted`), failed in a way that counts (`BodyFails`) or in one that does not
(`BodyUnreachable`). `TrackFails` is an exception of a track. The embedding reads its
backlog and calls the provider (`AskProvider`), creates the index (`Register`), and
stores what came back (`StoreVectors`) or skips the batch (`BatchFails`,
`Mismatch`); between `AskProvider` and `StoreVectors` the sync may do anything.
`KillSync`, `KillEmbed` and `Tick` are the environment.

Abstractions: an item is an article as a source lists it, with the buckets the
relevance filter keeps it for; what is not stored (a failed query, an item the gates
quarantine or the filter rejects, the topical cap, a symbol the budget defers) is as
if it had not been listed; a batch is stored item by item, since what a rollback
leaves is what a shorter batch leaves; a body is present exactly in status
`extracted`; time is counted in days and does not pass inside a sync (the code takes
`now` anew in each track, so a later window only begins later); the body track's
domains are those of the urls (the code reads the row's own), and the whitelist is
fixed, so that no queued article is skipped for having left it (`newsbody.py:226`);
a value of `Models` is a model with its dimensions, so that the same model with others
(`vector.py:111`) is another value. What a GDELT query reaches back to (the cursor) is not
in this module.

### AtomicBudget

`calls` and `day`, with `Spend` and `NewDay`: a spending happens whole or not at all
and never above the cap. `MarketSync` implements it under the mapping in
`MarketSync!Budget` (`calls` is the counter as the lazy reset reads it, 0 when its row
has an older date; `day` is the UTC date), stated as the property `ImplementsBudget`.
The refinement is of one process; what two do to the same row is in `DataRoot`.

### PostCheck

State: `ledger` is the session's tool results, `prelude`, `candidate`, `verdict` the
locals of `run_turn`, `shown` what is on the screen and in the log, `body` the same
without its prelude, `report` the artifact of `/report`, `epistemicTotal` the session's
count of violations.

`Ask` is the tool loop, which may add a result. `Answer` is the model's text with the
prelude of its tool calls and `run_postcheck` of the two; a text with violations is
rewritten (`Revise`, with the second check `loop.py` makes of it), any other shown
(`Show`: marked or withheld). Both feed the counter (`RecordVerdict`), after which the
session may be aborted, and then no turn begins; both end in `Stored`, what `/report`
makes of the outcome: the final answer, or what is shown where that is empty, unless it
was withheld, refused, is blank or aborts the session. Everything in between is pure: `Entries`, `Instants`,
`Windows` are the index built from the results; `SubjectOf`, `Fields`, `Sign`,
`StatedWindow` what the words around a number claim; `VerifyFielded`,
`VerifyUnfielded`, `VerifyTime` the verdict and its reason; `Violations` and `English`
the other two checks; `MarkClaims` the markers.

Abstractions: a text is the sequence of tokens the scanner's patterns cut, so a
pattern is not modelled and the use of its match is; distances are in tokens, values
in units of 1/10000; a result has one subject. Left out: time zones and fractions of a
second, fiscal periods, the reasons that name a derived value, tags other than a label.

How a year, a quotation, or a sentence of two companies is verified (`DatedYear`,
`Quoted`, `YearGroup`, `SubjectOf` with "respectively") is modelled because the verdict on a text
needs it, but no property depends on it: it stands on both sides of `MarkersExact`, and
`OwnEvidence`, which restates what evidence is without the index, speaks of numbers
with a field, days and times in sentences about one company.

### DataRoot

State: `applied` and `stamped` are the statements on disk and `schema_history`, `rows`
the table `symbols`, `watch`, `queue` and `budget` the watchlist, the windows an add
queues and the `sync_state` row of the budget; `pc` and `job` are each process with its
locals. Rows and watchlist start empty or as an older build left them.

One action is one statement or one committed transaction. `Open`, `Statement`, `Stamp`,
`Seed` are `open_db`: the version is read once, then every statement of a migration is
on disk as it returns (`executescript` runs in autocommit). `Search`, `Record`,
`Choose` are a resolution; `Verify` with `Test`, `Read`, `Write`, `Call` is a direct
verification by one paid fetch; `Propose` is an add a model proposed and the human
confirmed; `Gate`, `Admit`, `Commit` are `add_verified`, its reads apart from its
commit. `Sync` makes the calls of a plan through the same `Test`, `Read`, `Write`.
`Kill`, `Leave`, `Tick` are the environment.

Abstractions: a migration's statements are told apart by whether they can be repeated
and by what they do to `symbols` (the restoration asks for the market of the symbol, `.HK`,
as `Venue` has it); a listing is an index where the vendor's `Type` says so
(`IndexTyped`), whatever its venue; what a sync stores is `MarketSync`'s; a search that
finds nothing changes nothing and is left out; two processes that read at the same
time do so in either order.

### Startup

State: `newest`, `cursor`, `lastRun`, `gap` are what a market run writes of a symbol;
`pc` and `plan` are each terminal; `sound` (the sessions expected when a run that has
had no failure so far was planned), `answered` and `settled` are history.

`Check` is a start: `Behind` is evaluated, and the terminal syncs or stays quiet.
`Sync` is the command. `Plan` enqueues gaps and makes the plan; an item ends in `Ok` or
`NotOk` (an error, an empty answer, no call left), or the process dies between its bars
and its cursor (`DiesBetween`); `Finish`, `Embed`, `Abort`, `Leave` follow. `Tick` moves
the clock, and the vendor may publish, late or never, any session that has begun.

Abstractions: a UTC day has three instants, before 10:00, from 10:00 (Hong Kong's bar
is expected) and from 23:00 (New York's); an item takes less than an instant, so that
the time `_set_cursor` takes is that of the answer; the watchlist is fixed; a symbol has
one open gap at most, and which day detection finds is any it could find (`Lackable`;
detection itself is `MarketSync`'s); the budget only defers, which is `NotOk`.

## Runs

Passing runs check that a property holds in every behaviour within the bounds.

| Run | Bounds | Shows |
| --- | --- | --- |
| `sync_safety` | one index, one symbol, four days (one not a trading day), cap 5, one hole, one fault, one kill or failed write, one midnight in a run, one loss, one watchlist edit | cursors, gap queue and share stay honest under every interleaving, and the counters implement the abstract budget |
| `sync_converge` | one index, two symbols, cap 12, one fault, two edits, weak fairness of the run and strong fairness of the clock | gaps stay behind the cursor, every run plans the indices, and everything converges |
| `agent_session` | one session, three turns, two iterations, one Ctrl-C of each kind, one kill, one garbled call | log, snapshots, evidence, abort and confirmations are consistent |
| `agent_switch` | two sessions, two turns each, `/resume` of existing and mistyped ids, weak fairness of the engine | tokens do not cross sessions, the loop is not left on a closed session, turns end |
| `news_bodies` | three listings of one domain (one in two buckets, one the same story retitled, one topical), three days, three rows, three attempts, two fetches a run, a pause after one failure | bodies are given up only when earned, the queue's order is kept, retention is final |
| `news_vectors` | the same listings, two models, a read of two rows, batches of one, weak fairness of the embedding | the index stays true under concurrent syncs, the embedding leaves nothing out unreported and ends |
| `post_check` | three turns, seven results on three companies and an index, every answer of one or two sentences of a set of phrases, an empty and a blank one, with a prelude or none, with every rewrite or none, a budget of two violations | every unverified number on the screen is marked and no other, a report is stored exactly when it should be and says what the screen said, nothing unsafe is shown, a number passes on its own company's evidence |
| `data_root` | two terminals, four listings, an empty store or one of version 5, a watchlist of one, a cap of two calls, three commands, one kill, one midnight | versions on record are complete; watchlist and budget pass their limits by no more than the race allows; only what INV-004 admits is added |
| `startup` | two terminals, the Hong Kong index and one listing, four days with a weekend and a holiday, three starts | a quiet start is right to be quiet, and after a clean run the check is quiet until a further session is available |

Why these bounds are enough to be interesting: four days with a cap of five reach the
third empty attempt of a gap, a deferral, a share that is used up (half of five,
rounded down) and carried to the next run, and an item that costs more than what is
left. Three turns with a history window of three messages reach a window that cuts a
pair, a token that expires and one that does not (`TokenAge` 0 in one run, 1 in the
other), and an abort by one answer as well as by the sum of two. In the news runs
three days with windows of one reach an article that is too old for one track and not
yet for another, rows that are replaced, deleted and stored again under new ids, and,
in `news_bodies`, the third attempt; a read of two rows and batches of one reach a
backlog whose first rows are all skipped. The phrases of `MCPostCheck` reach a
number of two companies, of two listings of one name, read by a cue, a unit,
a direction, a window, a comparison, a range, "respectively", a quotation, before and
after the result that makes a name ambiguous; they reach an answer that is empty or
white space behind a prelude and alone, and a third violation, which aborts the session
in the turn of a report. In `data_root` a migration of version 6
and 9 meets rows they change, and every command is interrupted by the other terminal's
at every statement; a cap of two calls with items of one and of two reaches the
refused item and the race for the last call. In `startup` four days with three starts
reach a holiday with a quiet check, a late vendor, a run across 10:00 and two runs at
once. Every bound is a CONSTANT named `Max...` in the module that uses it, or a
parameter of the code (`Cap`, `Limit`, `HistoryWindow`, ...) given a small value.

Each property of a passing run has a mutant, a definition named after the mistake
(`Wrong...`) that stands before the one it replaces; with it TLC finds the
property violated. Several are mistakes the repository's own audits describe.

Runs that expect a violation show where the code does not do what its comments or
documents say:

| Run | What happens |
| --- | --- |
| `sync_frozen_index` | killed, or failing, between an index's first bars and its cursor: no later run fetches that index, and the calendar of its exchange is frozen |
| `news_reselected` | an article EODHD lists again replaces its own row on every run, because the row was stored with tier 0: its body, given up before, is fetched again, and its title embedded again |
| `data_root_migration` | killed between two statements of a migration: the first is on disk, the version is not on record, and every later start fails on it |

`CHECK_DEADLOCK FALSE` stands where the system may stop: a terminal may end and a
session's turns be used up (`agent_*`, `post_check`), and so may the commands and
starts given (`data_root*`, `startup`). The runs of `MarketSync` and `NewsCorpus` check
for deadlock.

### Fairness

`MarketSync!FairSpec`: a run that has begun goes on (`WF` of `RunStep`, which also
begins runs: the user syncs again and again, as `/sync` on demand is the only
scheduler), and the clock passes (`SF` of `Tick`: whatever runs, midnight comes).
Nothing is assumed of kills, faults, losses or edits; they are bounded.
`AgentSession!FairSpec`: the engine goes on with a turn that has begun (`WF` of
`TurnStep`). It is a loop without waiting other than on the provider and the
tools, whose calls end or raise. Nothing is assumed of the user.
`NewsCorpus!FairSpec`: an embedding that was started goes on (`WF` of `EmbedStep`):
it is a loop that waits for nothing but the provider, whose call returns or raises.
That an embedding is started, that a sync goes on and that batches succeed is not
assumed.

`PostCheck`, `DataRoot` and `Startup` state safety only and assume no fairness.

### Observations

What the models show of the code besides the three runs above; each is a behaviour of a
module here unless it says otherwise, and none has a run.

- A date lost a second time is not queued: the resolved row of the first loss masks
  the insertion (`sync.py:475`). Detection starts at the first stored bar, so that a
  loss at the leading edge is not found either (`sync.py:229`; outside the model's
  faults).
- A repair in flight at midnight is booked by a difference of two days' counters
  (`sync.py:565`), so that the new day repairs more than its share. `GapShareHonoured`
  is stated for behaviours without a midnight inside a run or a kill.
- `/resume` of an unknown id closes the bound session and goes on in it
  (`repl.py:939`): `BoundNotClosedIfNamed` is stated for ids that exist.
- Leaving and resuming a session starts its INV-002 total again (`loop.py:167`).
- The GDELT and EODHD tracks write one cursor row (`eodnews.py:308`; not modelled).
- With a cap below the length of a plan, the last symbols of the alphabet are never
  served (`sync.py:436`): `Converges` is checked with a cap that covers the plan.
- A number in the same word as an unverified one carries its marker although it is
  verified (`guardrail.py:741`): `MarkersExact` speaks of words.
- An answer restated later may be marked where the first was not: a result of another
  company of the same name takes the name its subject away.
- An empty final answer after a prelude is stored as a report of that prelude
  (`repl.py:1039`), although the comment above it says that the prelude stays in the
  session log: `ReportHonest` states what is stored.
- A report whose prelude had unverified numbers says "unverified numbers: N" in its
  header with no marker in its text: N counts the answer as it was shown.
- The violations of an answer whose rewrite is withheld are not charged (`loop.py`).
- A direct verification of a symbol that is on record overwrites the vendor's name
  with the placeholder (`record_resolution`).
- Two processes lose each other's budget updates, so that the calls made pass the cap
  by more than those on record (`budget.py:98`): `LimitsNearlyHeld` bounds what is on
  record.
- A gap repair that answers silences the check of a start although the incremental of
  the symbol failed (`freshness.py:79`), and a frozen index is reported behind on
  every start: `QuietHonest` and `Settles` name both. A bar the vendor serves while
  its session runs counts as that session (the limitation ADR-002 Am3 names).

## Proofs

`MarketSyncProofs` proves, for every set of symbols, every calendar, every cap and
every bound, under the named assumptions on the constants of `MarketSync` (which
TLC evaluates in every run): `TypeCorrect`, `BudgetSafe`, `CursorSafe`,
`RepairSafe`, `NoDataSafe`, `ShareSafe`, `CursorForward`, `StoreNotAhead`,
`RangesPartition`, `DetectionComplete`, `GapsQueuedOnce`, `OnlyFrozenIndices`,
`IndicesTakenUp`, and `BudgetRefined`, that every step of `MarketSync` is a step of
`AtomicBudget` or leaves its variables alone. Some are proved only: the refinement a
run checks implies `BudgetSafe`, `CursorForward` is an action property of a single
row, `StoreNotAhead` is part of the invariant, `RangesPartition` and
`DetectionComplete` are about what detection computes, and `OnlyFrozenIndices` says
where the finding of `sync_frozen_index` ends.

None of these properties is inductive: what a step of a run may do depends on the
item in flight and on what the earlier steps of the same item left. `IInv` adds

- `InFlight`: outside of planning the item is a plan item, and the phases of a gap
  repair belong to one;
- `RowsDated`: no counter is dated in the future, and the cap holds on the date a
  counter was written for, so that a lazy reset is never undone by the clock;
- `LastStored`, `RepairStored`: between the transaction that stored the bars and the
  ones that follow, the bars are there and inside the range;
- `AttemptsPaced`, `CloseCounted`, `NoDataCounted`: attempts are counted on different
  days from the detection on;
- `ShareBooked`: while no run was killed or crossed midnight, the share row holds the
  day's repairs, short of the one in flight, and `gap_spent` agrees with it;
- `NothingAhead`: no bar, cursor, open gap or planned request lies in the future. The
  calendar is made of the indices' stored days, so without it detection could find a
  day missing that no cursor has reached;
- `CursorFollows`, `GapsOfCursor`: while no run was killed and no write failed, a symbol has bars without a
  cursor only between `store_bars` and `_set_cursor`, and an open gap is the window of
  an addition or starts at or behind the cursor.

Two theorems have a hypothesis about kills (and failed writes, which `crashes` counts
too), because the code needs it.
`GapsQueuedOnce` is `[](crashes = 0 => GapsBehindCursor)`: a kill between `store_bars`
and `_set_cursor` leaves bars and no cursor, and detection then looks up to today.
`IndicesTakenUp` assumes `MaxCrashes = 0`; what a kill does is the finding of
`sync_frozen_index`, and `OnlyFrozenIndices` says, for every kill, that an index with
bars and no cursor is the only one a plan can miss. `DetectionComplete` is what
`missing_ranges` promises: at the start and at the end of a run no missing day is
outside the gap table. It rests on `RangesCover`, half of `RangesPartition` (the ranges
of a set of days are its maximal runs, apart from each other), proved by the least
counterexample (`WFMin`) instead of an induction over the days.

`Invariance` is `Spec => []IInv`. Its step is split by conjunct: each has a lemma
with one step per action that can disturb it, and the operators the model is built
from have theirs (`EnqueuedIsRows`, `PlanIsItems`, `CountedIsRow`,
`AvailableInRange`, `ReturnPhase`).

`AgentSessionProofs` proves, for every set of sessions and every limit and bound of
`AgentSession`, `TypeCorrect`, `SnapshotsNew`, `EvidenceComplete`, `AbortHolds`,
`AbortFinal`, `BudgetHolds`, `ConsentHolds`, `WritesKept`, `LoopOnOpen`, `AnswersKept`,
`NoQuestionOpen` and `TurnsAreBounded`. Its `IInv` adds

- `HasLatest`: the turns of a log have a largest one, so that `_next_turn_id` is
  larger than all of them. Stated as an invariant, it needs no induction over the log:
  an appended event brings no turn, or the next one;
- `Named`: a turn id is in the log before a snapshot, a token or a write carries it.
  This is what keeps ids from being given twice after a kill, and it rests on the
  question's being appended first;
- `TurnIsNew`: nothing was stored, answered or executed before under the id of the
  turn that is running;
- `Aborts`: the engine is halted exactly when its session is aborted on disk, but for
  the moment between the two (where a Ctrl-C breaks it: `late`);
- `Consent`, `Evidence`, `OnRecord`, `OnOpen`: what the broker, the pool, the log and
  the index row hold for the session the loop is bound to;
- `AnswersFollow`: an answer is the event after its question, because nothing else is
  written while a turn is unanswered;
- `OpenNoted`, `Settled`: a turn past its question is noted as open, so that, unless it
  is killed, interrupted before it is noted (`late`) or ended by the exception nothing
  handles (`garbled`), its question ends up answered or marked.

`AnswersKept` and `NoQuestionOpen` are about the replay. `Kept` is the comprehension of
`_history_messages` as a function over the prefixes of the log; that each kept event
is that of a step of the prefixes, in their order (`UpToExists`, `UpToGrows`,
`KeptNext`, `ReplayFrom`), is proved by the least prefix that would fail it.
`TurnsAreBounded` gives a turn a count, `Left`, that starts at `2 * Limit + 12` at most
and that every step of the engine lowers: the part of `TurnEnds` that is about the
code, short of the scheduler's fairness.

The step is split by conjunct again; `TurnsStep`, `AnsweredStep`, `StoredStep`,
`TurnGoesOn`, `BoundStep` and `EngineStepEffect` say once what the actions do to
one piece of state. TLC checked each conjunct of `IInv` on the instances of
`agent_session` and `agent_switch` before it was proved.

`NewsCorpusProofs` proves, for every set of listings, buckets, domains and models and
every window, cap and bound of `NewsCorpus` (of which the proofs use that the RSS
window lies inside retention), `TypeCorrect`, `EarnedHolds`, `QueueHonoured`,
`IndexTrue`, `RetentionFinal`, `ReportHolds` and `BatchesProgress`. Its `IInv` adds

- `IdsGiven`: every id in use was given, to one row. `IndexTrue` rests on it: the ids
  a batch carries while the provider works cannot come to name another row, because
  AUTOINCREMENT never gives them again (`NextId`);
- `BatchTrue`: the titles in flight are those of evidence rows;
- `Counted`: attempts stand for failures of different runs, since (`OnceARun`) an
  article is asked for once in a run, however many rows it has;
- `AskedFirst`, `PassedStay`: what was asked for came before what still waits, and
  what could not be afforded cannot be afforded later in the run, because the caps are
  only used up and a pause is only left by a success of that domain, which a paused
  domain cannot have (`Listed`: every article that waits is of a whitelisted domain,
  so that its streak is defined);
- `RunOnly`, `SweptBefore`: nothing of a body run outlives it, and retention does not
  run ahead of the clock;
- `RowsOne`: two rows never share an id, so a set of rows is as large as the set of
  its ids (`RowsAndIds`);
- `BatchNew`: a batch on its way is not empty and holds only rows that have no vector
  and have not failed: the backlog leaves both out, and nobody else writes vectors.

`ReportHolds` is a counting argument: the oldest `Limit` rows of a larger backlog are
`Limit` at least (`HeadIsFull`: the oldest row left out stands behind `Limit` others, all
of them read), so if every row that is read is to be skipped, `Limit` rows failed. `BatchesProgress` is
the variant of `EmbedEnds`: of the at most `MaxId` ids, those with a vector or a
failure of this embedding only become more, and every batch that comes back adds one,
whatever syncs insert meanwhile.

`StoreRows`, `FetchRows` and `RowsStep` say once what the actions do to the table.

`PostCheckProofs` proves, for every set of texts and results that meets
`TextsAssumption` and `ResultsAssumption` (a text ends at the end of a word, the values
are integers) and every number of turns, `TypeCorrect`, `MarkersHold`,
`ReportHonestHolds`, `NothingUnsafeHolds` and `OwnEvidenceHolds`. Its `IInv` adds

- `Judged`: what is about to be shown was judged whole, prelude included, against the
  ledger as it is now: nothing is added to the ledger between the check and the screen;
- `Seen`: the markers on the screen are those of the claims the ledger leaves
  unverified in that very text.

`ReportHonest` is an action property of the last step of a turn, where the prelude is
still known. Its proof (`ReportEnds`) follows each way out: the report of `Show` is
compared with the screen word by word (`StoredIs`), its markers are the screen's behind
the offset the prelude's length gives (`OffsetIs`, `Unshifted`), and the session aborts
exactly when the count says so (`CountedIs`).

`OwnEvidenceHolds` is about the verdict itself: it follows an unmarked number back
through `VerifyFielded`, `InScope` and `Match` to a leaf of a result about its company,
with the sign the words claim (`ReturnedIs`), and an unmarked day or time through
`VerifyTime` to one of its results (`HappenedIs`).

`DataRootProofs` proves, for every number of terminals, every set of listings and every
store an older build may have left (`OldAssumption`: a primary exchange of a row
is the listing's, a schema that has the demotion has it applied, the old watchlist
keeps the cap), `TypeCorrect`, `VersionsWhole`, `ScopeHolds`, `CapHolds` (the watchlist's
part of the limits, for any number of terminals) and `LimitsHold`. The theorems stand
beside each other, each with the invariant it needs:

- `Complete`: a process that is at a statement finds those before it on disk, so that
  a stamp is only written over a complete script;
- `Scoped`: once the demotion ran, which no command precedes, every verified row is a
  primary listing; what a terminal takes past the gate stays what the gate saw;
- `RoomHonoured`: who found room found it when there was some, so the last to commit
  exceeds the cap by the number of the others;
- `Spending`: of two processes that passed the test, what each is about to write
  exceeds the cap by the other's item at most.

`StartupProofs` proves, for every number of terminals and symbols and every calendar,
`TypeCorrect`, `CheckSettles` and `QuietIsHonest`. Its `IInv` adds

- `Covered`: a run that has had no failure has an item left for every symbol that is not
  yet settled, also where another terminal moved the cursor after its plan was made;
- `SettledFresh`: what a clean run settled stays settled;
- `RunsAnswered`: `last_run_at` is never later than the last answer with bars.

Only model-checked: liveness (`Converges`, `TurnEnds`, `EmbedEnds`), since fairness and
`ENABLED` are out of this prover's reach; of the last two the variants are proved. Every
safety property a passing run checks is a theorem. The call budget of three or more
terminals has none: a write with a stale count lowers what is on record, the others
pass the test again, and the record can then exceed the cap by more than an item for
each of them, so `LimitsHold` speaks of two. The properties of the violation runs are
refuted there.

## Not modelled

The parts marked `not_modelled` in `PROJECT.json`, with the reason. Text patterns,
statistics, display, argument parsing and configuration have no state a model checker
would find anything in; the scanner's patterns, fiscal periods and derived-value reasons
of the post-check are data the modelled verdict does not depend on beyond a token or a
reason. Of the partly modelled parts:

- two terminals over one session: `index.json` is rewritten from a fresh read by every
  event, and lost updates are possible (`session.py:303`); a torn append
  (`session.py:205`) would need the bytes of a line;
- the windows the news tracks ask for, their throttle, quarantine and feed health,
  which only narrow what a request returns; the cursor the GDELT and EODHD tracks
  share;
- the classification of vendor failures (`http.py`) and the parsing of rows
  (`market.py`, `fundamentals.py`), which are the answers the actions choose among;
- the registry's validation of arguments, a chain of early returns over one call.

## Plan

In order of importance:

1. `SessionIndex`: two terminals over `index.json` and one session's log (lost
   updates, equal turn ids, an abort overwritten), torn appends.
2. `NewsTracks`: the shared cursor and its advance after queries that failed without a
   throttle, the whole days of `_timespan_since`, budget gating, quarantine and feed
   health; composed with `NewsCorpus`.
3. `MarketSync` and `Startup` composed: the detection of gaps and the check over one
   state, so that `Lackable` is what detection finds.
4. Proofs of the variant of `Converges`, and of what a kill leaves open in the replay.
