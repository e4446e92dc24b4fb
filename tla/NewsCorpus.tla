----------------------------- MODULE NewsCorpus -----------------------------
(***************************************************************************)
(* The news corpus: the table `news`, the three tracks that write it in a  *)
(* sync (data/ingest/news.py, eodnews.py, newsrss.py), the body track that *)
(* follows them (newsbody.py), and the vector index (embed.py,             *)
(* data/store/vector.py), which a second process may be filling meanwhile. *)
(*                                                                         *)
(* An item is an article as one source lists it, with the buckets the     *)
(* relevance filter keeps it for.  What the tracks do not store (failed    *)
(* queries, items the gates or the filter reject, items over the topical   *)
(* cap, symbols the budget defers) is as if it had not been listed.  The   *)
(* items of a batch are stored one per step: the batch is one transaction, *)
(* and what a rollback leaves is what a shorter batch leaves.              *)
(*                                                                         *)
(* Time is counted in days; the clock does not pass inside a sync.         *)
(***************************************************************************)
EXTENDS Integers, FiniteSets

CONSTANTS
  Symbols,      \* buckets of watchlist symbols
  Macros,       \* buckets of MACRO_GROUPS
  Topical,      \* TOPICAL_BUCKET
  Items,        \* what the sources list
  Whitelist,    \* domains on BODY_WHITELIST
  Domain,       \* the domain of a url
  Similar,      \* pairs of titles with jaccard >= 0.8
  Models,       \* embedding models, with their dimensions
  Retention,    \* RETENTION_DAYS
  RssLookback,  \* RSS_LOOKBACK_DAYS
  DupWindow,    \* DUP_WINDOW_DAYS
  BodyMaxAge,   \* BODY_MAX_AGE_DAYS
  MaxAttempts,  \* MAX_ATTEMPTS
  PerRun,       \* ARTICLES_PER_RUN
  PerDomain,    \* ARTICLES_PER_DOMAIN
  PauseAfter,   \* DOMAIN_PAUSE_AFTER
  Limit,        \* limit of pending_news
  BatchSize,    \* batch_size of run_embed
  MaxDay,       \* bound: days
  MaxId         \* bound: rows ever inserted

Buckets == Symbols \union Macros \union {Topical}
Urls == DOMAIN Domain
NoModel == "none"

ASSUME WindowsAssumption ==
  /\ Retention \in Nat /\ RssLookback \in Nat /\ DupWindow \in Nat /\ BodyMaxAge \in Nat
  /\ RssLookback <= Retention
  /\ MaxDay \in Nat \ {0} /\ MaxId \in Nat

ASSUME CapsAssumption ==
  /\ MaxAttempts \in Nat \ {0} /\ PerRun \in Nat \ {0} /\ PerDomain \in Nat \ {0}
  /\ PauseAfter \in Nat \ {0} /\ Limit \in Nat \ {0} /\ BatchSize \in Nat \ {0}

ASSUME NamesAssumption ==
  /\ Topical \notin Symbols \union Macros
  /\ NoModel \notin Models
  /\ \A i \in Items : /\ i.url \in Urls
                      /\ i.seen \in 1 .. MaxDay
                      /\ i.tier \in Nat
                      /\ i.buckets \subseteq Symbols \union Macros

Titles == {i.title : i \in Items}

VARIABLES
  news,      \* the rows of news
  lastId,    \* the largest news_id ever given (AUTOINCREMENT)
  day,       \* the date
  pc,        \* where the sync is
  queue,     \* _work_queue of the body track, the articles not yet handled
  asked,     \* the articles the body track has fetched in this run
  passed,    \* the articles it has left for a later run
  streak,    \* consecutive failures by domain
  vectors,   \* vec_news, with the title and the model each vector came from
  registry,  \* vec_registry.model_id
  epc,       \* where the embedding is
  model,     \* the model it was started with
  batch,     \* the rows whose titles are being embedded
  skipped,   \* ids of the rows of failed batches
  swept,     \* history: the last day retention ran
  failures,  \* history: by url, the body runs with a failure that counts
  closed     \* history: <<bucket, url>> of the rows that became unavailable

corpus == <<news, lastId, swept, closed>>
bodies == <<queue, asked, passed, streak, failures>>
index  == <<vectors, registry>>
embed  == <<epc, model, batch, skipped>>
vars   == <<corpus, day, pc, bodies, index, embed>>

Statuses == {"not_applicable", "pending", "extracted", "failed", "unavailable"}

\* A row; its body is stored exactly in status "extracted".
Row == [id : 1 .. MaxId, bucket : Buckets, url : Urls, title : Titles, tier : Nat,
        seen : 1 .. MaxDay, status : Statuses, attempts : 0 .. MaxAttempts]

\* An entry of the body queue: one per url.
Article == [url : Urls, topical : BOOLEAN, seen : 1 .. MaxDay]

TypeOK ==
  /\ news \subseteq Row
  /\ lastId \in 0 .. MaxId
  /\ swept \in 0 .. MaxDay
  /\ day \in 1 .. MaxDay
  /\ pc \in {"idle", "gdelt", "eodhd", "rss", "body"}
  /\ queue \subseteq Article /\ asked \subseteq Article /\ passed \subseteq Article
  /\ streak \in [Whitelist -> Nat]
  /\ vectors \subseteq [id : 1 .. MaxId, title : Titles, model : Models]
  /\ registry \in Models \union {NoModel}
  /\ epc \in {"idle", "loop", "asked", "prune"}
  /\ model \in Models \union {NoModel}
  /\ batch \subseteq [id : 1 .. MaxId, title : Titles]
  /\ skipped \subseteq 1 .. MaxId
  /\ failures \in [Urls -> Nat]
  /\ closed \subseteq Buckets \X Urls

Init ==
  /\ news = {} /\ lastId = 0 /\ swept = 0
  /\ day = 1 /\ pc = "idle"
  /\ queue = {} /\ asked = {} /\ passed = {} /\ streak = [d \in Whitelist |-> 0]
  /\ vectors = {} /\ registry = NoModel
  /\ epc = "idle" /\ model = NoModel /\ batch = {} /\ skipped = {}
  /\ failures = [u \in Urls |-> 0] /\ closed = {}

(***************************************************************************)
(* Storing an item: Key A, Key B, survivor.                                *)
(***************************************************************************)

\* survivor_rank: the higher tier, then the earlier date.
Beats(i, r) == i.tier > r.tier \/ (i.tier = r.tier /\ i.seen < r.seen)

\* news_id is AUTOINCREMENT: an id is not given again when its row is gone.
WrongNextId(rows) ==
  CHOOSE n \in 1 .. MaxId + 1 : /\ \A r \in rows : r.id < n
                                /\ n = 1 \/ \E r \in rows : r.id = n - 1
NextId(rows) == lastId + 1

\* The INSERT: the body columns start at their defaults.
Inserted(id, b, i, tier) ==
  [id |-> id, bucket |-> b, url |-> i.url, title |-> i.title, tier |-> tier,
   seen |-> i.seen, status |-> "not_applicable", attempts |-> 0]

SameUrl(b, i) == {r \in news : r.bucket = b /\ r.url = i.url}

SameStory(b, i) ==
  {r \in news : r.bucket = b /\ r.seen >= day - DupWindow /\ <<i.title, r.title>> \in Similar}

\* The row an item is a duplicate of; with Key B, the first the scan meets.
Duplicates(b, i) == IF SameUrl(b, i) # {} THEN SameUrl(b, i) ELSE SameStory(b, i)

Replace(b, i, tier, old) ==
  LET id == NextId(news \ old)
  IN /\ id <= MaxId
     /\ news' = (news \ old) \union {Inserted(id, b, i, tier)}
     /\ lastId' = id

\* One item into one bucket; `tier` is what the row records.
Store(b, i, tier) ==
  /\ \/ /\ Duplicates(b, i) = {}
        /\ Replace(b, i, tier, {})
     \/ \E r \in Duplicates(b, i) : Beats(i, r) /\ Replace(b, i, tier, {r})
  /\ UNCHANGED <<swept, closed, day, pc, bodies, index, embed>>

\* The gate on the publication time.
InWindow(i, days) == i.seen >= day - days /\ i.seen <= day

(***************************************************************************)
(* The tracks of a sync.                                                   *)
(***************************************************************************)
BeginSync ==
  /\ pc = "idle"
  /\ pc' = "gdelt"
  /\ UNCHANGED <<corpus, day, bodies, index, embed>>

\* A query of one bucket; what it reaches back to is another module's matter.
Gdelt(b, i) ==
  /\ pc = "gdelt"
  /\ b \in i.buckets
  /\ InWindow(i, Retention)
  /\ Store(b, i, i.tier)

\* S5: articles older than the retention window go.
EndGdelt ==
  /\ pc = "gdelt"
  /\ pc' = "eodhd"
  /\ news' = {r \in news : r.seen >= day - Retention}
  /\ swept' = day
  /\ UNCHANGED <<lastId, closed, day, bodies, index, embed>>

\* The page of one symbol; _insert_eodhd leaves source_tier at its default.
WrongEodhd(b, i) ==
  /\ pc = "eodhd"
  /\ b \in i.buckets \intersect Symbols
  /\ i.seen <= day
  /\ Store(b, i, 0)
Eodhd(b, i) ==
  /\ pc = "eodhd"
  /\ b \in i.buckets \intersect Symbols
  /\ InWindow(i, Retention)
  /\ Store(b, i, 0)

EndEodhd ==
  /\ pc = "eodhd"
  /\ pc' = "rss"
  /\ UNCHANGED <<corpus, day, bodies, index, embed>>

\* An item no bucket keeps goes to the topical one.
FeedBuckets(i) == IF i.buckets = {} THEN {Topical} ELSE i.buckets

Rss(b, i) ==
  /\ pc = "rss"
  /\ b \in FeedBuckets(i)
  /\ InWindow(i, RssLookback)
  /\ Store(b, i, i.tier)

(***************************************************************************)
(* Bodies.                                                                 *)
(***************************************************************************)

\* promote_whitelisted
Promoted(rows) ==
  {[r EXCEPT !.status = IF @ = "not_applicable" /\ Domain[r.url] \in Whitelist
                          THEN "pending" ELSE @] : r \in rows}

Waiting(r) == r.status \in {"pending", "failed"}

Selected(rows) == {r \in rows : Waiting(r) /\ r.seen >= day - BodyMaxAge}

\* _work_queue: one article per url, topical when all its waiting rows are.
\* The whitelist does not shrink after the promotion.
WorkQueue(rows) ==
  {a \in [url : {r.url : r \in Selected(rows)}, topical : BOOLEAN, seen : 1 .. MaxDay] :
     LET mine == {r \in Selected(rows) : r.url = a.url}
     IN /\ a.topical = (\A r \in mine : r.bucket = Topical)
        /\ \A r \in mine : r.seen <= a.seen
        /\ \E r \in mine : r.seen = a.seen}

BeginBodies ==
  /\ pc = "rss"
  /\ pc' = "body"
  /\ news' = Promoted(news)
  /\ queue' = WorkQueue(news')
  /\ UNCHANGED <<lastId, swept, closed, day, asked, passed, streak, failures, index, embed>>

\* Evidence before topical, newest first within each.
WrongBefore(a, b) == a.seen > b.seen
Before(a, b) == \/ ~a.topical /\ b.topical
                \/ a.topical = b.topical /\ a.seen > b.seen

Head(a) == a \in queue /\ \A b \in queue : ~Before(b, a)

OfDomain(articles, d) == {a \in articles : Domain[a.url] = d}

Affordable(a) ==
  LET d == Domain[a.url]
  IN /\ streak[d] < PauseAfter
     /\ Cardinality(asked) < PerRun
     /\ Cardinality(OfDomain(asked, d)) < PerDomain

\* Paused or deferred: the article waits for a later run.
PassBody(a) ==
  /\ pc = "body" /\ Head(a) /\ ~Affordable(a)
  /\ queue' = queue \ {a}
  /\ passed' = passed \union {a}
  /\ UNCHANGED <<corpus, day, pc, asked, streak, failures, index, embed>>

\* The rows a fetch speaks for.
Served(a) == {r \in news : r.url = a.url /\ Waiting(r)}

\* A fetch, and the transaction that turns the waiting rows into `rows`.
FetchBody(a, fails, rows) ==
  /\ pc = "body" /\ Head(a) /\ Affordable(a)
  /\ queue' = queue \ {a}
  /\ asked' = asked \union {a}
  /\ streak' = [streak EXCEPT ![Domain[a.url]] = IF fails THEN @ + 1 ELSE 0]
  /\ news' = (news \ Served(a)) \union rows
  /\ UNCHANGED <<lastId, swept, day, pc, passed, index, embed>>

BodyExtracted(a) ==
  /\ FetchBody(a, FALSE, {[r EXCEPT !.status = "extracted"] : r \in Served(a)})
  /\ UNCHANGED <<failures, closed>>

WrongAttempted(r) == [r EXCEPT !.attempts = @ + 1, !.status = "failed"]
Attempted(r) ==
  [r EXCEPT !.attempts = @ + 1,
            !.status = IF r.attempts + 1 >= MaxAttempts THEN "unavailable" ELSE "failed"]

\* A failure that says something of the article; `failures` counts its runs.
BodyFails(a) ==
  /\ FetchBody(a, TRUE, {Attempted(r) : r \in Served(a)})
  /\ failures' = [failures EXCEPT ![a.url] =
                    IF \E b \in asked : b.url = a.url THEN @ ELSE @ + 1]
  /\ closed' = closed \union {<<r.bucket, r.url>> : r \in
                  {s \in Served(a) : Attempted(s).status = "unavailable"}}

\* A failure of the transport or of the host: reported, never counted.
WrongBodyUnreachable(a) ==
  /\ FetchBody(a, TRUE, {Attempted(r) : r \in Served(a)})
  /\ UNCHANGED <<failures, closed>>
BodyUnreachable(a) ==
  /\ FetchBody(a, TRUE, Served(a))
  /\ UNCHANGED <<failures, closed>>

ClearBodies ==
  /\ queue' = {} /\ asked' = {} /\ passed' = {}
  /\ streak' = [d \in Whitelist |-> 0]
  /\ UNCHANGED failures

EndSync ==
  /\ pc = "body" /\ queue = {}
  /\ pc' = "idle"
  /\ ClearBodies
  /\ UNCHANGED <<corpus, day, index, embed>>

\* An exception ends a track, and sync.run goes on with the next.
TrackFails ==
  /\ \/ pc = "gdelt" /\ pc' = "eodhd" /\ UNCHANGED bodies
     \/ pc = "eodhd" /\ pc' = "rss" /\ UNCHANGED bodies
     \/ pc = "body" /\ pc' = "idle" /\ ClearBodies
  /\ UNCHANGED <<corpus, day, index, embed>>

(***************************************************************************)
(* Vectors.                                                                *)
(***************************************************************************)

\* ORDER BY published_at, news_id
Older(r, s) == r.seen < s.seen \/ (r.seen = s.seen /\ r.id < s.id)

First(n, rows) == {r \in rows : Cardinality({s \in rows : Older(s, r)}) < n}

\* Rows without a vector, the topical ones left out.
Pending == {r \in news : r.bucket # Topical /\ \A v \in vectors : v.id # r.id}

\* pending_news, less the rows of failed batches.
WrongBacklog == {r \in First(BatchSize, Pending) : r.id \notin skipped}
Backlog == {r \in First(Limit, Pending) : r.id \notin skipped}

BeginEmbed(m) ==
  /\ epc = "idle"
  /\ epc' = "loop"
  /\ model' = m
  /\ UNCHANGED <<batch, skipped, corpus, day, pc, bodies, index>>

\* The titles go to the provider; the store is not locked meanwhile.
AskProvider ==
  /\ epc = "loop" /\ Backlog # {}
  /\ epc' = "asked"
  /\ batch' = {[id |-> r.id, title |-> r.title] : r \in First(BatchSize, Backlog)}
  /\ UNCHANGED <<model, skipped, corpus, day, pc, bodies, index>>

\* ensure_vec_table creates the table for this model.
Register ==
  /\ epc = "asked" /\ registry = NoModel
  /\ registry' = model
  /\ UNCHANGED <<vectors, embed, corpus, day, pc, bodies>>

\* The vectors of the batch, or of its first rows when the answer is short.
StoreVectors(n) ==
  /\ epc = "asked" /\ registry = model
  /\ LET got == {b \in batch : Cardinality({c \in batch : c.id < b.id}) < n}
     IN vectors' = {v \in vectors : \A b \in got : b.id # v.id}
                     \union {[id |-> b.id, title |-> b.title, model |-> model] : b \in got}
  /\ epc' = "loop"
  /\ batch' = {}
  /\ UNCHANGED <<model, skipped, registry, corpus, day, pc, bodies>>

\* An exception of the batch: its rows are left for another run.
WrongBatchFails ==
  /\ epc = "asked"
  /\ epc' = "loop"
  /\ batch' = {}
  /\ UNCHANGED <<model, skipped, corpus, day, pc, bodies, index>>
BatchFails ==
  /\ epc = "asked"
  /\ skipped' = skipped \union {b.id : b \in batch}
  /\ epc' = "loop"
  /\ batch' = {}
  /\ UNCHANGED <<model, corpus, day, pc, bodies, index>>

\* VectorModelMismatch ends the loop: another model, or other dimensions of the
\* same (two values of Models).
Mismatch ==
  /\ epc = "asked" /\ registry \notin {NoModel, model}
  /\ epc' = "prune"
  /\ batch' = {}
  /\ UNCHANGED <<model, skipped, corpus, day, pc, bodies, index>>

BacklogEmpty ==
  /\ epc = "loop" /\ Backlog = {}
  /\ epc' = "prune"
  /\ UNCHANGED <<model, batch, skipped, corpus, day, pc, bodies, index>>

\* prune_orphans
Prune ==
  /\ epc = "prune"
  /\ vectors' = {v \in vectors : \E r \in news : r.id = v.id}
  /\ epc' = "idle" /\ model' = NoModel /\ skipped' = {}
  /\ UNCHANGED <<batch, registry, corpus, day, pc, bodies>>

(***************************************************************************)
(* The environment.                                                        *)
(***************************************************************************)
KillSync ==
  /\ pc # "idle"
  /\ pc' = "idle"
  /\ ClearBodies
  /\ UNCHANGED <<corpus, day, index, embed>>

KillEmbed ==
  /\ epc # "idle"
  /\ epc' = "idle" /\ model' = NoModel /\ batch' = {} /\ skipped' = {}
  /\ UNCHANGED <<corpus, day, pc, bodies, index>>

Tick ==
  /\ pc = "idle" /\ day < MaxDay
  /\ day' = day + 1
  /\ UNCHANGED <<corpus, pc, bodies, index, embed>>

TrackStep ==
  \/ BeginSync \/ EndGdelt \/ EndEodhd \/ TrackFails
  \/ \E i \in Items, b \in Buckets : Gdelt(b, i) \/ Eodhd(b, i) \/ Rss(b, i)

BodyStep ==
  \/ BeginBodies \/ EndSync
  \/ \E a \in queue : PassBody(a) \/ BodyExtracted(a) \/ BodyFails(a) \/ BodyUnreachable(a)

EmbedStep ==
  \/ AskProvider \/ Register \/ BatchFails \/ Mismatch \/ BacklogEmpty \/ Prune
  \/ \E n \in 1 .. BatchSize : StoreVectors(n)

Next == \/ TrackStep \/ BodyStep \/ EmbedStep \/ KillSync \/ KillEmbed \/ Tick
        \/ \E m \in Models : BeginEmbed(m)

Spec == Init /\ [][Next]_vars

\* run_embed is a loop that waits for nothing but the provider.
FairSpec == Spec /\ WF_vars(EmbedStep)

(***************************************************************************)
(* Properties.                                                             *)
(***************************************************************************)

\* A body is given up only after failures of the article itself on
\* MaxAttempts different runs: no outage and no second row of the same
\* article brings it there sooner (newsbody.py:18).
UnavailableEarned ==
  \A r \in news : r.status = "unavailable" => failures[r.url] >= MaxAttempts

\* The caps of a body run are spent in order: no article of a domain is
\* fetched while one that comes before it is left waiting (newsbody.py:187).
NoQueueJumping ==
  \A a \in asked, b \in passed :
    Domain[a.url] = Domain[b.url] => ~(\/ ~b.topical /\ a.topical
                                       \/ b.topical = a.topical /\ b.seen > a.seen)

\* The index is sound whatever a sync does while titles are being embedded:
\* one model, and the row a vector is joined to is an evidence row with the
\* title the vector was computed from (vector.py:6, vector.py:222).
VectorsTrue ==
  \A v \in vectors :
    /\ v.model = registry
    /\ \A r \in news : r.id = v.id => r.title = v.title /\ r.bucket # Topical

\* What retention removed does not come back: no later listing stores an
\* article that was over age when retention last ran (news.py, S5).
RetentionHolds == \A r \in news : r.seen >= swept - Retention

\* The embedding leaves a row of its backlog without a vector only if the
\* batch of that row failed, or as many rows failed as one read returns
\* (embed.py:103).
EmbedReports ==
  [][epc = "loop" /\ epc' = "prune" =>
       \/ {r.id : r \in Pending} \subseteq skipped
       \/ Cardinality(skipped) >= Limit]_vars

\* The embedding ends, whatever batches fail and whatever syncs add.
EmbedEnds == (epc # "idle") ~> (epc = "idle")

\* Refuted: a row that is `unavailable` is never selected again.  A listing of
\* the same article that beats its row inserts the row anew.
NeverReselected == \A r \in news : <<r.bucket, r.url>> \in closed => ~Waiting(r)
=============================================================================
