-------------------------- MODULE NewsCorpusProofs --------------------------
(***************************************************************************)
(* The safety properties of NewsCorpus, proved for every set of articles,  *)
(* buckets, domains and models and every window, cap and bound.            *)
(*                                                                         *)
(* They rest on four facts: an id is given once, so whatever still         *)
(* carries it speaks of the same row (IdsGiven); an article is in the      *)
(* queue of a body run once, and gone from it when it was asked for        *)
(* (OnceARun); an article that could not be afforded cannot be afforded    *)
(* later in the same run (PassedStay); and the oldest n rows of a larger   *)
(* set are n (HeadIsFull), so a read that finds nothing to do has seen     *)
(* every row, or n failed ones.                                            *)
(***************************************************************************)
EXTENDS NewsCorpus, FiniteSetTheorems, WellFoundedInduction, TLAPS

\* What no step changes in a row that stays.
SameRow(r, s) == /\ s.id = r.id /\ s.bucket = r.bucket /\ s.url = r.url
                 /\ s.title = r.title /\ s.seen = r.seen

\* Every id in use was given, and to one row.
IdsGiven ==
  /\ \A r \in news : r.id <= lastId
  /\ \A r, s \in news : r.id = s.id => SameRow(r, s)
  /\ \A v \in vectors : v.id <= lastId
  /\ \A b \in batch : b.id <= lastId

\* The rows an embedding is done with: they have a vector, or their batch failed.
Handled == {v.id : v \in vectors} \union skipped

\* A batch on its way holds a row, and only rows that are not done with.
BatchNew == epc = "asked" => batch # {} /\ \A b \in batch : b.id \notin Handled

\* Ids are distinct, so a set of rows is as large as the set of its ids.
RowsOne == \A r, s \in news : r.id = s.id => r = s

\* The titles that are being embedded are those of evidence rows.
BatchTrue ==
  /\ epc # "asked" => batch = {}
  /\ epc # "idle" => model \in Models
  /\ \A b \in batch : \A r \in news : r.id = b.id => r.title = b.title /\ r.bucket # Topical

\* Attempts stand for failures, and a row is given up exactly at the limit.
Counted ==
  \A r \in news :
    /\ r.attempts <= failures[r.url]
    /\ r.status = "unavailable" => r.attempts >= MaxAttempts
    /\ r.status = "not_applicable" => r.attempts = 0
    /\ Waiting(r) => r.attempts < MaxAttempts

\* Nothing of a body run outlives it.
RunOnly == pc # "body" => queue = {} /\ asked = {} /\ passed = {}

\* An article is asked for once in a run.
OnceARun ==
  /\ \A a, b \in queue : a.url = b.url => a = b
  /\ \A a \in queue, b \in asked : a.url # b.url

\* What was asked for came before what still waits.
AskedFirst == \A a \in asked, b \in queue : ~Before(b, a)

\* What was passed over cannot be afforded any more.
PassedStay == IsFiniteSet(asked) /\ \A a \in passed : ~Affordable(a)

\* Only whitelisted articles wait for a body.
Listed ==
  /\ \A r \in news : Waiting(r) => Domain[r.url] \in Whitelist
  /\ \A a \in queue \union passed : Domain[a.url] \in Whitelist

\* Retention does not run ahead of the clock.
SweptBefore == swept <= day

IInv == /\ TypeOK /\ IdsGiven /\ RowsOne /\ BatchNew /\ BatchTrue /\ Counted /\ RunOnly /\ OnceARun
        /\ AskedFirst /\ PassedStay /\ Listed /\ SweptBefore
        /\ UnavailableEarned /\ NoQueueJumping /\ VectorsTrue /\ RetentionHolds

\* A row that was just stored.
NewRow(s) == /\ s.id = lastId + 1 /\ lastId' = lastId + 1
             /\ s.status = "not_applicable" /\ s.attempts = 0
             /\ s.seen >= day - Retention

\* The row an insertion adds has the type of a row.
LEMMA InsertedTyped ==
  ASSUME NEW id \in 1 .. MaxId, NEW b \in Buckets, NEW i \in Items, NEW tier \in Nat
  PROVE  Inserted(id, b, i, tier) \in Row
  BY WindowsAssumption, CapsAssumption, NamesAssumption DEF Inserted, Row, Statuses, Titles

\* Promotion keeps the rows and their type.
LEMMA PromotedRows ==
  ASSUME TypeOK
  PROVE  /\ Promoted(news) \subseteq Row
         /\ \A s \in Promoted(news) : \E r \in news :
              /\ SameRow(r, s) /\ s.attempts = r.attempts
              /\ \/ s.status = r.status
                 \/ r.status = "not_applicable" /\ s.status = "pending"
  <1> SUFFICES ASSUME NEW r \in news, NEW s,
                      s = [r EXCEPT !.status = IF @ = "not_applicable" /\ Domain[r.url] \in Whitelist
                                                 THEN "pending" ELSE @]
               PROVE  /\ s \in Row /\ SameRow(r, s) /\ s.attempts = r.attempts
                      /\ \/ s.status = r.status
                         \/ r.status = "not_applicable" /\ s.status = "pending"
    BY DEF Promoted
  <1>1. r \in Row
    BY DEF TypeOK
  <1> QED
    BY <1>1 DEF Row, Statuses, SameRow

\* A counted failure keeps a row and its type.
LEMMA AttemptedRow ==
  ASSUME NEW r \in Row, r.attempts < MaxAttempts
  PROVE  /\ Attempted(r) \in Row /\ SameRow(r, Attempted(r))
         /\ Attempted(r).attempts = r.attempts + 1
         /\ Attempted(r).status = IF r.attempts + 1 >= MaxAttempts THEN "unavailable" ELSE "failed"
  <1> DEFINE st == IF r.attempts + 1 >= MaxAttempts THEN "unavailable" ELSE "failed"
  <1>1. st \in Statuses
    BY DEF Statuses
  <1>2. r.attempts + 1 \in 0 .. MaxAttempts
    BY CapsAssumption DEF Row
  <1>3. Attempted(r) = [[r EXCEPT !.attempts = r.attempts + 1] EXCEPT !.status = st]
    BY DEF Attempted, Row
  <1> HIDE DEF st
  <1>4. /\ Attempted(r) \in Row /\ SameRow(r, Attempted(r))
        /\ Attempted(r).attempts = r.attempts + 1 /\ Attempted(r).status = st
    BY <1>1, <1>2, <1>3 DEF Row, SameRow
  <1> QED
    BY <1>4 DEF st

\* The work queue holds articles, one of each url.
LEMMA QueueTyped ==
  ASSUME NEW rows, rows \subseteq Row
  PROVE  /\ WorkQueue(rows) \subseteq Article
         /\ \A a, b \in WorkQueue(rows) : a.url = b.url => a = b
  <1>1. WorkQueue(rows) \subseteq Article
    BY DEF WorkQueue, Article, Selected, Row
  <1>2. ASSUME NEW a \in WorkQueue(rows), NEW b \in WorkQueue(rows), a.url = b.url
        PROVE  a = b
    <2> DEFINE mine == {r \in Selected(rows) : r.url = a.url}
    <2>1. a \in Article /\ b \in Article
      BY <1>1
    <2>2. a.topical = b.topical
      BY <1>2 DEF WorkQueue
    <2>3. PICK r \in mine : r.seen = a.seen
      BY DEF WorkQueue
    <2>4. PICK s \in mine : s.seen = b.seen
      BY <1>2 DEF WorkQueue
    <2>5. r.seen <= b.seen /\ s.seen <= a.seen
      BY <1>2, <2>3, <2>4 DEF WorkQueue
    <2>6. a.seen = b.seen
      BY <2>1, <2>3, <2>4, <2>5, WindowsAssumption DEF Article
    <2> QED
      BY <1>2, <2>1, <2>2, <2>6 DEF Article
  <1> QED
    BY <1>1, <1>2

\* Some item goes into some bucket.
Stores == \E i \in Items, b \in Buckets, tier \in Nat :
            i.seen >= day - Retention /\ Store(b, i, tier)

\* Some article is asked for.
Fetches == \E a \in queue : BodyExtracted(a) \/ BodyFails(a) \/ BodyUnreachable(a)

\* Only these steps change the corpus.
LEMMA CorpusSteps ==
  ASSUME TypeOK, [Next]_vars
  PROVE  Stores \/ EndGdelt \/ BeginBodies \/ Fetches \/ UNCHANGED corpus
  <1>1. ASSUME NEW i \in Items, NEW b \in Buckets, Gdelt(b, i) \/ Eodhd(b, i) \/ Rss(b, i)
        PROVE  Stores
    <2>1. i.seen \in Nat /\ i.tier \in Nat /\ 0 \in Nat /\ day \in Nat
      BY NamesAssumption DEF TypeOK
    <2>2. i.seen >= day - Retention
      BY <1>1, <2>1, WindowsAssumption DEF Gdelt, Eodhd, Rss, InWindow
    <2>3. Store(b, i, i.tier) \/ Store(b, i, 0)
      BY <1>1 DEF Gdelt, Eodhd, Rss
    <2> QED
      BY <2>1, <2>2, <2>3 DEF Stores
  <1>2. ASSUME BodyStep
        PROVE  BeginBodies \/ Fetches \/ UNCHANGED corpus
    BY <1>2 DEF BodyStep, Fetches, EndSync, PassBody, corpus
  <1>3. ASSUME EmbedStep \/ \E m \in Models : BeginEmbed(m)
        PROVE  UNCHANGED corpus
    BY <1>3 DEF EmbedStep, AskProvider, Register, BatchFails, Mismatch, BacklogEmpty, Prune,
                StoreVectors, BeginEmbed, corpus
  <1>4. ASSUME KillSync \/ KillEmbed \/ Tick \/ UNCHANGED vars
        PROVE  UNCHANGED corpus
    BY <1>4 DEF KillSync, KillEmbed, Tick, vars, corpus
  <1>5. ASSUME BeginSync \/ EndEodhd \/ TrackFails
        PROVE  UNCHANGED corpus
    BY <1>5 DEF BeginSync, EndEodhd, TrackFails, corpus
  <1> QED
    BY <1>1, <1>2, <1>3, <1>4, <1>5 DEF Next, TrackStep

\* What a store does to the table.
LEMMA StoreRows ==
  ASSUME TypeOK, Stores
  PROVE  /\ news' \subseteq Row /\ lastId' \in lastId .. MaxId
         /\ \E x : NewRow(x) /\ \A s \in news' : s \in news \/ s = x
         /\ UNCHANGED <<swept, closed, day, pc, bodies, index, embed>>
  <1>1. PICK i \in Items, b \in Buckets, tier \in Nat :
           i.seen >= day - Retention /\ Store(b, i, tier)
    BY DEF Stores
  <1>2. PICK old : Replace(b, i, tier, old)
    BY <1>1 DEF Store
  <1> DEFINE id == lastId + 1
             row == Inserted(id, b, i, tier)
  <1>3. /\ id <= MaxId /\ lastId' = id
        /\ news' = (news \ old) \union {row}
    BY <1>2 DEF Replace, NextId
  <1>4. lastId \in 0 .. MaxId /\ id \in 1 .. MaxId
    BY <1>3, WindowsAssumption DEF TypeOK
  <1>5. row \in Row
    BY <1>4, InsertedTyped
  <1>6. NewRow(row)
    BY <1>1, <1>3 DEF NewRow, Inserted
  <1> HIDE DEF row
  <1>7. news' \subseteq Row /\ \A s \in news' : s \in news \/ s = row
    BY <1>3, <1>5 DEF TypeOK
  <1>8. lastId' \in lastId .. MaxId
    BY <1>3, <1>4
  <1> QED
    BY <1>1, <1>6, <1>7, <1>8 DEF Store

\* What a fetch does to the table: the rows stay, those of the article move on.
LEMMA FetchRows ==
  ASSUME TypeOK, Counted, NEW a \in queue,
         BodyExtracted(a) \/ BodyFails(a) \/ BodyUnreachable(a)
  PROVE  /\ news' \subseteq Row
         /\ \A s \in news' : \E r \in news :
              /\ SameRow(r, s)
              /\ \/ s = r
                 \/ r.url = a.url /\ Waiting(r) /\ s.status = "extracted" /\ s.attempts = r.attempts
                 \/ /\ r.url = a.url /\ Waiting(r) /\ BodyFails(a)
                    /\ s.attempts = r.attempts + 1
                    /\ s.status = IF s.attempts >= MaxAttempts THEN "unavailable" ELSE "failed"
  <1>1. \A r \in news : r \in Row /\ SameRow(r, r)
    BY DEF TypeOK, SameRow
  <1>2. \A r \in Served(a) : r \in news /\ r.url = a.url /\ Waiting(r) /\ r.attempts < MaxAttempts
    BY DEF Served, Counted
  <1>3. CASE BodyExtracted(a)
    <2>1. news' = (news \ Served(a)) \union {[r EXCEPT !.status = "extracted"] : r \in Served(a)}
      BY <1>3 DEF BodyExtracted, FetchBody
    <2>2. ASSUME NEW r \in Served(a)
          PROVE  LET s == [r EXCEPT !.status = "extracted"]
                 IN s \in Row /\ SameRow(r, s) /\ s.status = "extracted" /\ s.attempts = r.attempts
      BY <1>1, <1>2 DEF Row, Statuses, SameRow
    <2>3. ASSUME NEW s \in news'
          PROVE  /\ s \in Row
                 /\ \E r \in news :
                      /\ SameRow(r, s)
                      /\ \/ s = r
                         \/ r.url = a.url /\ Waiting(r) /\ s.status = "extracted" /\ s.attempts = r.attempts
      <3>1. CASE s \in news
        BY <1>1, <3>1
      <3>2. CASE s \notin news
        <4>1. PICK r \in Served(a) : s = [r EXCEPT !.status = "extracted"]
          BY <2>1, <3>2
        <4> QED
          BY <1>2, <2>2, <4>1
      <3> QED
        BY <3>1, <3>2
    <2> QED
      BY <2>3
  <1>4. CASE BodyFails(a)
    <2>1. news' = (news \ Served(a)) \union {Attempted(r) : r \in Served(a)}
      BY <1>4 DEF BodyFails, FetchBody
    <2>2. ASSUME NEW r \in Served(a)
          PROVE  /\ Attempted(r) \in Row /\ SameRow(r, Attempted(r))
                 /\ Attempted(r).attempts = r.attempts + 1
                 /\ Attempted(r).status =
                      IF Attempted(r).attempts >= MaxAttempts THEN "unavailable" ELSE "failed"
      BY <1>1, <1>2, AttemptedRow
    <2> QED
      BY <1>1, <1>2, <1>4, <2>1, <2>2
  <1>5. CASE BodyUnreachable(a)
    <2>1. news' = (news \ Served(a)) \union Served(a)
      BY <1>5 DEF BodyUnreachable, FetchBody
    <2>2. news' = news
      BY <1>2, <2>1
    <2> QED
      BY <1>1, <2>2 DEF TypeOK
  <1> QED
    BY <1>3, <1>4, <1>5

\* A row of the next state is a row of this one, or was just stored.
LEMMA RowsStep ==
  ASSUME TypeOK, Counted, [Next]_vars
  PROVE  /\ news' \subseteq Row /\ lastId' \in lastId .. MaxId
         /\ \E x : \A s \in news' : (\E r \in news : SameRow(r, s)) \/ (NewRow(s) /\ s = x)
  <1>0. /\ news \subseteq Row /\ lastId \in 0 .. MaxId /\ MaxId \in Nat
        /\ \A r \in news : SameRow(r, r)
    BY WindowsAssumption DEF TypeOK, SameRow
  <1>1. CASE Stores
    BY <1>0, <1>1, StoreRows
  <1>2. CASE EndGdelt
    <2>1. news' \subseteq news /\ lastId' = lastId
      BY <1>2 DEF EndGdelt
    <2> QED
      BY <1>0, <2>1
  <1>3. CASE BeginBodies
    <2>1. news' = Promoted(news) /\ lastId' = lastId
      BY <1>3 DEF BeginBodies
    <2> QED
      BY <1>0, <2>1, PromotedRows
  <1>4. CASE Fetches
    <2>1. PICK a \in queue : BodyExtracted(a) \/ BodyFails(a) \/ BodyUnreachable(a)
      BY <1>4 DEF Fetches
    <2>2. lastId' = lastId
      BY <2>1 DEF BodyExtracted, BodyFails, BodyUnreachable, FetchBody
    <2> QED
      BY <1>0, <2>1, <2>2, FetchRows
  <1>5. CASE UNCHANGED corpus
    BY <1>0, <1>5 DEF corpus
  <1> QED
    BY <1>1, <1>2, <1>3, <1>4, <1>5, CorpusSteps

\* A set of naturals that is not empty has a least element.
LEMMA Least ==
  ASSUME NEW S, S \subseteq Nat, S # {}
  PROVE  \E d \in S : \A e \in S : d <= e
  <1>1. PICK d \in S : \A e \in S : <<e, d>> \notin OpToRel(<, Nat)
    BY WFMin, NatLessThanWellFounded, Zenon
  <1>2. ASSUME NEW e \in S
        PROVE  d <= e
    <2>1. d \in Nat /\ e \in Nat
      OBVIOUS
    <2>2. ~(e < d)
      BY <1>1, <2>1 DEF OpToRel
    <2> QED
      BY <2>1, <2>2
  <1> QED
    BY <1>2

\* Of rows with distinct ids, one is the oldest of all.
LEMMA OldestRow ==
  ASSUME NEW D, D \subseteq Row, D # {}, \A r, s \in D : r.id = s.id => r = s
  PROVE  \E r \in D : \A s \in D : ~Older(s, r)
  <1>0. \A r \in D : r.seen \in Nat /\ r.id \in Nat
    BY WindowsAssumption DEF Row
  <1> DEFINE days == {r.seen : r \in D}
  <1>1. days \subseteq Nat /\ days # {}
    BY <1>0
  <1> HIDE DEF days
  <1>2. PICK d \in days : \A e \in days : d <= e
    BY <1>1, Least
  <1> DEFINE ids == {r.id : r \in {s \in D : s.seen = d}}
  <1>3. ids \subseteq Nat /\ ids # {}
    BY <1>0 DEF days
  <1> HIDE DEF ids
  <1>4. PICK n \in ids : \A m \in ids : n <= m
    BY <1>3, Least
  <1>5. PICK r \in D : r.seen = d /\ r.id = n
    BY DEF ids
  <1>6. ASSUME NEW s \in D
        PROVE  ~Older(s, r)
    <2>1. d <= s.seen
      BY <1>2 DEF days
    <2>2. s.seen = d => n <= s.id
      BY <1>4 DEF ids
    <2> QED
      BY <1>0, <1>5, <2>1, <2>2 DEF Older
  <1> QED
    BY <1>6

\* There are no more rows with distinct ids than there are ids.
LEMMA RowsAndIds ==
  ASSUME NEW D, D \subseteq Row, \A r, s \in D : r.id = s.id => r = s,
         NEW I, IsFiniteSet(I), \A r \in D : r.id \in I
  PROVE  IsFiniteSet(D) /\ Cardinality(D) <= Cardinality(I)
  <1> DEFINE f == [r \in D |-> r.id]
  <1>1. f \in Injection(D, I)
    BY DEF Injection, IsInjective
  <1> QED
    BY <1>1, FS_Injection

\* What the head of a list leaves out, a full head stands before.
LEMMA HeadIsFull ==
  ASSUME NEW rows, rows \subseteq Row, \A r, s \in rows : r.id = s.id => r = s,
         NEW n \in Nat \ {0}, rows # First(n, rows)
  PROVE  IsFiniteSet(First(n, rows)) /\ Cardinality(First(n, rows)) >= n
  <1> DEFINE out == rows \ First(n, rows)
  <1>1. First(n, rows) \subseteq rows /\ out # {}
    BY DEF First
  <1>2. PICK r \in out : \A s \in out : ~Older(s, r)
    BY <1>1, OldestRow
  <1> DEFINE before == {s \in rows : Older(s, r)}
  <1>3. before \subseteq First(n, rows)
    BY <1>1, <1>2
  <1>4. IsFiniteSet(rows)
    <2>1. IsFiniteSet(1 .. MaxId)
      BY FS_Interval, WindowsAssumption
    <2>2. \A s \in rows : s.id \in 1 .. MaxId
      BY DEF Row
    <2> QED
      BY <2>1, <2>2, RowsAndIds
  <1>5. IsFiniteSet(First(n, rows)) /\ Cardinality(before) <= Cardinality(First(n, rows))
    BY <1>1, <1>3, <1>4, FS_Subset
  <1>6. Cardinality(before) \in Nat /\ Cardinality(First(n, rows)) \in Nat
    BY <1>3, <1>5, FS_Subset, FS_CardinalityType
  <1>7. ~(Cardinality(before) < n)
    BY <1>2 DEF First
  <1> HIDE DEF before
  <1> QED
    BY <1>5, <1>6, <1>7

\* The initial states.
LEMMA InitInv == Init => IInv
  <1> SUFFICES ASSUME Init PROVE IInv
    OBVIOUS
  <1> USE DEF Init
  <1>1. TypeOK
    BY WindowsAssumption, NamesAssumption DEF TypeOK
  <1>2. /\ IdsGiven /\ RowsOne /\ BatchNew /\ BatchTrue /\ Counted /\ RunOnly /\ OnceARun
        /\ AskedFirst /\ Listed /\ SweptBefore
    BY DEF IdsGiven, RowsOne, BatchNew, BatchTrue, Counted, RunOnly, OnceARun, AskedFirst, Listed, SweptBefore
  <1>3. PassedStay
    BY FS_EmptySet DEF PassedStay
  <1>4. UnavailableEarned /\ NoQueueJumping /\ VectorsTrue /\ RetentionHolds
    BY DEF UnavailableEarned, NoQueueJumping, VectorsTrue, RetentionHolds
  <1> QED
    BY <1>1, <1>2, <1>3, <1>4 DEF IInv

\* Only these steps change what the body track keeps.
LEMMA BodySteps ==
  ASSUME TypeOK, [Next]_vars
  PROVE  \/ BeginBodies \/ Fetches \/ \E a \in queue : PassBody(a)
         \/ ClearBodies /\ UNCHANGED corpus /\ pc' = "idle"
         \/ UNCHANGED <<bodies, closed>> /\ (pc' = pc \/ pc' # "body")
  <1> DEFINE Apart == UNCHANGED <<bodies, closed>> /\ (pc' = pc \/ pc' # "body")
  <1>1. ASSUME NEW i \in Items, NEW b \in Buckets, Gdelt(b, i) \/ Eodhd(b, i) \/ Rss(b, i)
        PROVE  Apart
    BY <1>1 DEF Gdelt, Eodhd, Rss, Store
  <1>2. CASE EndGdelt \/ BeginSync \/ EndEodhd \/ KillEmbed \/ Tick \/ UNCHANGED vars
             \/ \E m \in Models : BeginEmbed(m)
    BY <1>2 DEF EndGdelt, BeginSync, EndEodhd, KillEmbed, Tick, vars, corpus, bodies, BeginEmbed
  <1>3. CASE EmbedStep
    BY <1>3 DEF EmbedStep, AskProvider, Register, BatchFails, Mismatch, BacklogEmpty, Prune,
       StoreVectors, corpus, bodies
  <1>4. CASE TrackFails \/ KillSync \/ EndSync
    BY <1>4 DEF TrackFails, KillSync, EndSync, corpus, bodies
  <1> QED
    BY <1>1, <1>2, <1>3, <1>4 DEF Next, TrackStep, BodyStep, Fetches

\* The body track keeps its types.
LEMMA BodiesTyped ==
  ASSUME TypeOK, Counted, [Next]_vars
  PROVE  /\ queue' \subseteq Article /\ asked' \subseteq Article /\ passed' \subseteq Article
         /\ streak' \in [Whitelist -> Nat] /\ failures' \in [Urls -> Nat]
         /\ closed' \subseteq Buckets \X Urls
  <1> USE DEF TypeOK
  <1>1. CASE BeginBodies
    <2>1. news' \subseteq Row
      BY RowsStep
    <2> QED
      BY <1>1, <2>1, QueueTyped DEF BeginBodies
  <1>2. ASSUME NEW a \in queue, BodyExtracted(a) \/ BodyFails(a) \/ BodyUnreachable(a)
        PROVE  /\ queue' \subseteq Article /\ asked' \subseteq Article /\ passed' \subseteq Article
               /\ streak' \in [Whitelist -> Nat] /\ failures' \in [Urls -> Nat]
               /\ closed' \subseteq Buckets \X Urls
    <2>1. PICK rows : FetchBody(a, TRUE, rows) \/ FetchBody(a, FALSE, rows)
      BY <1>2 DEF BodyExtracted, BodyFails, BodyUnreachable
    <2>2. queue' \subseteq Article /\ asked' \subseteq Article /\ passed' \subseteq Article
      BY <2>1 DEF FetchBody
    <2>5. streak' \in [Whitelist -> Nat]
      BY <2>1 DEF FetchBody
    <2>3. failures' \in [Urls -> Nat]
      <3>1. CASE failures' = failures
        BY <3>1
      <3>2. ASSUME NEW n, failures' = [failures EXCEPT ![a.url] = n],
                   n \in {failures[a.url], failures[a.url] + 1}
            PROVE  failures' \in [Urls -> Nat]
        <4>1. failures[a.url] \in Nat /\ n \in Nat
          BY <3>2 DEF Article
        <4> QED
          BY <3>2, <4>1
      <3> DEFINE n == IF \E b \in asked : b.url = a.url THEN failures[a.url]
                                                        ELSE failures[a.url] + 1
      <3>3. CASE failures' = [failures EXCEPT ![a.url] = n]
        <4>1. n \in {failures[a.url], failures[a.url] + 1}
          OBVIOUS
        <4> HIDE DEF n
        <4> QED
          BY <3>2, <3>3, <4>1
      <3> QED
        BY <1>2, <3>1, <3>3 DEF BodyExtracted, BodyFails, BodyUnreachable
    <2>4. closed' \subseteq closed \union {<<r.bucket, r.url>> : r \in news}
      <3>1. CASE closed' = closed
        BY <3>1
      <3> DEFINE gone == {s \in Served(a) : Attempted(s).status = "unavailable"}
      <3>2. CASE closed' = closed \union {<<r.bucket, r.url>> : r \in gone}
        <4>1. gone \subseteq news
          BY DEF Served
        <4> HIDE DEF gone
        <4> QED
          BY <3>2, <4>1
      <3> QED
        BY <1>2, <3>1, <3>2 DEF BodyExtracted, BodyFails, BodyUnreachable
    <2> QED
      BY <2>2, <2>3, <2>4, <2>5 DEF Row
  <1>3. ASSUME NEW a \in queue, PassBody(a)
        PROVE  /\ queue' \subseteq Article /\ asked' \subseteq Article /\ passed' \subseteq Article
               /\ streak' \in [Whitelist -> Nat] /\ failures' \in [Urls -> Nat]
               /\ closed' \subseteq Buckets \X Urls
    BY <1>3 DEF PassBody, corpus
  <1>4. CASE ClearBodies /\ UNCHANGED corpus
    BY <1>4 DEF ClearBodies, corpus
  <1>5. CASE UNCHANGED <<bodies, closed>>
    BY <1>5 DEF bodies
  <1> QED
    BY <1>1, <1>2, <1>3, <1>4, <1>5, BodySteps DEF Fetches

\* Only these steps change the index and the embedding.
LEMMA EmbedSteps ==
  ASSUME [Next]_vars
  PROVE  \/ EmbedStep \/ KillEmbed \/ \E m \in Models : BeginEmbed(m)
         \/ UNCHANGED <<index, embed>>
  <1>1. ASSUME NEW i \in Items, NEW b \in Buckets, Gdelt(b, i) \/ Eodhd(b, i) \/ Rss(b, i)
        PROVE  UNCHANGED <<index, embed>>
    BY <1>1 DEF Gdelt, Eodhd, Rss, Store
  <1>2. ASSUME NEW a \in queue,
               PassBody(a) \/ BodyExtracted(a) \/ BodyFails(a) \/ BodyUnreachable(a)
        PROVE  UNCHANGED <<index, embed>>
    BY <1>2 DEF PassBody, BodyExtracted, BodyFails, BodyUnreachable, FetchBody
  <1> QED
    BY <1>1, <1>2 DEF Next, TrackStep, BodyStep, KillSync, Tick, vars, BeginSync, EndGdelt,
       EndEodhd, TrackFails, BeginBodies, EndSync

\* The titles that are sent are those of evidence rows.
LEMMA BatchRows ==
  ASSUME AskProvider
  PROVE  \A b \in batch' : \E r \in news :
           b = [id |-> r.id, title |-> r.title] /\ r.bucket # Topical
  <1>1. First(BatchSize, Backlog) \subseteq Backlog /\ First(Limit, Pending) \subseteq Pending
    BY DEF First
  <1>2. Backlog \subseteq First(Limit, Pending)
    BY DEF Backlog
  <1>3. \A r \in Pending : r \in news /\ r.bucket # Topical
    BY DEF Pending
  <1>4. \A r \in First(BatchSize, Backlog) : r \in news /\ r.bucket # Topical
    BY <1>1, <1>2, <1>3
  <1>5. batch' = {[id |-> r.id, title |-> r.title] : r \in First(BatchSize, Backlog)}
    BY DEF AskProvider
  <1> QED
    BY <1>4, <1>5

\* A stored vector is one of the batch, of the model in use.
LEMMA VectorRows ==
  ASSUME NEW n, StoreVectors(n)
  PROVE  \A v \in vectors' : \/ v \in vectors
                             \/ \E b \in batch :
                                  v = [id |-> b.id, title |-> b.title, model |-> model]
  <1> DEFINE got == {b \in batch : Cardinality({c \in batch : c.id < b.id}) < n}
  <1>1. got \subseteq batch
    OBVIOUS
  <1>2. vectors' = {v \in vectors : \A b \in got : b.id # v.id}
                     \union {[id |-> b.id, title |-> b.title, model |-> model] : b \in got}
    BY DEF StoreVectors
  <1> HIDE DEF got
  <1> QED
    BY <1>1, <1>2

\* The embedding keeps its types.
LEMMA EmbedTyped ==
  ASSUME TypeOK, BatchTrue, [Next]_vars
  PROVE  /\ vectors' \subseteq [id : 1 .. MaxId, title : Titles, model : Models]
         /\ registry' \in Models \union {NoModel}
         /\ epc' \in {"idle", "loop", "asked", "prune"}
         /\ model' \in Models \union {NoModel}
         /\ batch' \subseteq [id : 1 .. MaxId, title : Titles]
         /\ skipped' \subseteq 1 .. MaxId
  <1> USE DEF TypeOK
  <1>1. CASE UNCHANGED <<index, embed>>
    BY <1>1 DEF index, embed
  <1>2. CASE AskProvider
    <2>1. batch' \subseteq [id : 1 .. MaxId, title : Titles]
      BY <1>2, BatchRows DEF Row
    <2> QED
      BY <1>2, <2>1 DEF AskProvider, index
  <1>3. ASSUME NEW n \in 1 .. BatchSize, StoreVectors(n)
        PROVE  vectors' \subseteq [id : 1 .. MaxId, title : Titles, model : Models]
    <2>1. model \in Models
      BY <1>3 DEF StoreVectors, BatchTrue
    <2> QED
      BY <1>3, <2>1, VectorRows
  <1>4. ASSUME NEW n \in 1 .. BatchSize, StoreVectors(n)
        PROVE  /\ registry' = registry /\ epc' = "loop" /\ model' = model
               /\ batch' = {} /\ skipped' = skipped
    BY <1>4 DEF StoreVectors
  <1>5. CASE Register \/ Mismatch \/ BacklogEmpty \/ Prune \/ KillEmbed \/ \E m \in Models : BeginEmbed(m)
    BY <1>5 DEF Register, Mismatch, BacklogEmpty, Prune, KillEmbed, BeginEmbed, index, embed
  <1>6. CASE BatchFails
    BY <1>6 DEF BatchFails, index
  <1> QED
    BY <1>1, <1>2, <1>3, <1>4, <1>5, <1>6, EmbedSteps DEF EmbedStep

\* Every variable keeps its type.
LEMMA TypeStep ==
  ASSUME TypeOK, Counted, BatchTrue, [Next]_vars
  PROVE  TypeOK'
  <1>1. news' \subseteq Row /\ lastId' \in 0 .. MaxId
    <2>1. lastId \in 0 .. MaxId /\ MaxId \in Nat
      BY WindowsAssumption DEF TypeOK
    <2> QED
      BY <2>1, RowsStep
  <1>2. swept' \in 0 .. MaxDay /\ swept' \in {swept, day}
    <2>1. CASE Fetches
      BY <2>1 DEF Fetches, BodyExtracted, BodyFails, BodyUnreachable, FetchBody, TypeOK
    <2> QED
      BY <2>1, CorpusSteps, StoreRows, WindowsAssumption
         DEF EndGdelt, BeginBodies, corpus, TypeOK
  <1>3. /\ day' \in 1 .. MaxDay
        /\ pc' \in {"idle", "gdelt", "eodhd", "rss", "body"}
    <2>1. ASSUME NEW i \in Items, NEW b \in Buckets, Gdelt(b, i) \/ Eodhd(b, i) \/ Rss(b, i)
          PROVE  UNCHANGED <<day, pc>>
      BY <2>1 DEF Gdelt, Eodhd, Rss, Store
    <2>2. ASSUME NEW a \in queue,
                 PassBody(a) \/ BodyExtracted(a) \/ BodyFails(a) \/ BodyUnreachable(a)
          PROVE  UNCHANGED <<day, pc>>
      BY <2>2 DEF PassBody, BodyExtracted, BodyFails, BodyUnreachable, FetchBody
    <2>3. CASE EmbedStep \/ KillEmbed \/ \E m \in Models : BeginEmbed(m)
      BY <2>3 DEF EmbedStep, KillEmbed, TypeOK,
         AskProvider, Register, BatchFails, Mismatch, BacklogEmpty, Prune, StoreVectors, BeginEmbed
    <2>4. CASE Tick
      BY <2>4, WindowsAssumption DEF Tick, TypeOK
    <2> QED
      BY <2>1, <2>2, <2>3, <2>4 DEF Next, TrackStep, BodyStep, KillSync, vars, BeginSync, EndGdelt,
         EndEodhd, TrackFails, BeginBodies, EndSync, TypeOK
  <1> QED
    BY <1>1, <1>2, <1>3, BodiesTyped, EmbedTyped DEF TypeOK


\* Ids are given once.
LEMMA IdsStep ==
  ASSUME TypeOK, Counted, IdsGiven, [Next]_vars
  PROVE  IdsGiven'
  <1>0. /\ lastId' \in lastId .. MaxId /\ lastId \in Nat /\ MaxId \in Nat
        /\ \A r \in news : r.id \in Nat
        /\ \A v \in vectors : v.id \in Nat
        /\ \A b \in batch : b.id \in Nat
    BY RowsStep, WindowsAssumption DEF TypeOK, Row
  <1>3. PICK x : \A s \in news' : (\E r \in news : SameRow(r, s)) \/ (NewRow(s) /\ s = x)
    BY RowsStep
  <1>1. \A s \in news' : s.id <= lastId'
    BY <1>0, <1>3 DEF IdsGiven, SameRow, NewRow
  <1>4. ASSUME NEW s \in news', NEW t \in news', s.id = t.id
        PROVE  SameRow(s, t)
    <2>1. CASE s = x
      BY <1>0, <1>3, <1>4, <2>1 DEF IdsGiven, SameRow, NewRow
    <2>2. CASE t = x
      BY <1>0, <1>3, <1>4, <2>2 DEF IdsGiven, SameRow, NewRow
    <2>3. CASE s # x /\ t # x
      <3>1. PICK r \in news : SameRow(r, s)
        BY <1>3, <2>3
      <3>2. PICK q \in news : SameRow(q, t)
        BY <1>3, <2>3
      <3>3. SameRow(r, q)
        BY <1>4, <3>1, <3>2 DEF IdsGiven, SameRow
      <3> QED
        BY <3>1, <3>2, <3>3 DEF SameRow
    <2> QED
      BY <2>1, <2>2, <2>3
  <1>2. /\ \A v \in vectors' : v.id \in {w.id : w \in vectors} \union {b.id : b \in batch}
        /\ \A b \in batch' : b.id \in {r.id : r \in news} \union {c.id : c \in batch}
    <2>1. ASSUME NEW n \in 1 .. BatchSize, StoreVectors(n)
          PROVE  /\ \A v \in vectors' : v.id \in {w.id : w \in vectors} \union {b.id : b \in batch}
                 /\ batch' = {}
      <3>1. batch' = {}
        BY <2>1 DEF StoreVectors
      <3> QED
        BY <2>1, <3>1, VectorRows
    <2>2. CASE AskProvider
      BY <2>2, BatchRows DEF AskProvider, index
    <2>3. CASE Register \/ BatchFails \/ Mismatch \/ BacklogEmpty \/ Prune \/ KillEmbed
               \/ \E m \in Models : BeginEmbed(m)
      BY <2>3 DEF Register, BatchFails, Mismatch, BacklogEmpty, Prune, KillEmbed, BeginEmbed,
         index, embed
    <2>4. CASE UNCHANGED <<index, embed>>
      BY <2>4 DEF index, embed
    <2> QED
      BY <2>1, <2>2, <2>3, <2>4, EmbedSteps DEF EmbedStep
  <1> QED
    BY <1>0, <1>1, <1>2, <1>4 DEF IdsGiven


\* What is being embedded stays true of the rows.
LEMMA BatchStep ==
  ASSUME TypeOK, Counted, IdsGiven, BatchTrue, [Next]_vars
  PROVE  BatchTrue'
  <1>1. /\ epc' # "asked" => batch' = {}
        /\ epc' # "idle" => model' \in Models
    <2>1. ASSUME NEW n \in 1 .. BatchSize, StoreVectors(n)
          PROVE  epc' = "loop" /\ batch' = {} /\ model' = model /\ epc = "asked"
      BY <2>1 DEF StoreVectors
    <2> QED
      BY <2>1, EmbedSteps DEF BatchTrue, EmbedStep, AskProvider, Register, BatchFails, Mismatch,
         BacklogEmpty, Prune, KillEmbed, BeginEmbed, index, embed
  <1>2. CASE AskProvider
    <2>1. UNCHANGED news
      BY <1>2 DEF AskProvider, corpus
    <2> QED
      BY <1>1, <1>2, <2>1, BatchRows DEF BatchTrue, IdsGiven, SameRow
  <1>3. CASE batch' \subseteq batch
    <2>1. ASSUME NEW b \in batch', NEW s \in news', s.id = b.id
          PROVE  s.title = b.title /\ s.bucket # Topical
      <3>1. b \in batch /\ b.id <= lastId /\ b.id \in Nat /\ lastId \in Nat
        BY <1>3 DEF IdsGiven, TypeOK
      <3>2. PICK r \in news : SameRow(r, s)
        BY <2>1, <3>1, RowsStep DEF NewRow
      <3> QED
        BY <2>1, <3>1, <3>2 DEF BatchTrue, SameRow
    <2> QED
      BY <1>1, <2>1 DEF BatchTrue
  <1>4. AskProvider \/ batch' \subseteq batch
    <2>1. ASSUME NEW n \in 1 .. BatchSize, StoreVectors(n)
          PROVE  batch' = {}
      BY <2>1 DEF StoreVectors
    <2> QED
      BY <2>1, EmbedSteps DEF EmbedStep, Register, BatchFails, Mismatch, BacklogEmpty, Prune,
         KillEmbed, BeginEmbed, index, embed
  <1> QED
    BY <1>2, <1>3, <1>4

\* The index stays true of the rows.
LEMMA VectorsStep ==
  ASSUME TypeOK, Counted, IdsGiven, BatchTrue, VectorsTrue, [Next]_vars
  PROVE  VectorsTrue'
  <1>1. ASSUME NEW v \in vectors'
        PROVE  v.model = registry'
    <2>1. CASE v \in vectors /\ registry' = registry
      BY <2>1 DEF VectorsTrue
    <2>2. CASE v \in vectors /\ Register
      BY <2>2, NamesAssumption DEF Register, VectorsTrue, TypeOK
    <2>3. ASSUME NEW n \in 1 .. BatchSize, StoreVectors(n)
          PROVE  v.model = registry'
      <3>1. registry' = registry /\ registry = model
        BY <2>3 DEF StoreVectors
      <3> QED
        BY <2>3, <3>1, VectorRows DEF VectorsTrue
    <2> QED
      BY <1>1, <2>1, <2>2, <2>3, EmbedSteps DEF EmbedStep, AskProvider, BatchFails, Mismatch,
         BacklogEmpty, Prune, KillEmbed, BeginEmbed, Register, index, embed
  <1>2. ASSUME NEW v \in vectors', NEW s \in news', s.id = v.id
        PROVE  s.title = v.title /\ s.bucket # Topical
    <2>1. \/ v \in vectors
          \/ \E b \in batch : v.id = b.id /\ v.title = b.title
      <3>1. ASSUME NEW n \in 1 .. BatchSize, StoreVectors(n)
            PROVE  \/ v \in vectors
                   \/ \E b \in batch : v.id = b.id /\ v.title = b.title
        BY <3>1, VectorRows
      <3> QED
        BY <3>1, EmbedSteps DEF EmbedStep, AskProvider, BatchFails, Mismatch,
           BacklogEmpty, Prune, KillEmbed, BeginEmbed, Register, index, embed
    <2>2. v.id <= lastId /\ v.id \in Nat /\ lastId \in Nat
      BY <2>1 DEF IdsGiven, TypeOK
    <2>3. PICK r \in news : SameRow(r, s)
      BY <1>2, <2>2, RowsStep DEF NewRow
    <2> QED
      BY <1>2, <2>1, <2>3 DEF BatchTrue, VectorsTrue, SameRow
  <1> QED
    BY <1>1, <1>2 DEF VectorsTrue


\* The clock runs forward and retention with it.
LEMMA SweptStep ==
  ASSUME TypeOK, Counted, SweptBefore, RetentionHolds, [Next]_vars
  PROVE  SweptBefore' /\ RetentionHolds'
  <1>0. /\ swept \in Int /\ day \in Int /\ Retention \in Nat
        /\ \A r \in news : r.seen \in Int
    BY WindowsAssumption DEF TypeOK, Row
  <1>1. CASE Stores
    <2>1. UNCHANGED <<swept, day>>
      BY <1>1, StoreRows
    <2>2. PICK x : NewRow(x) /\ \A s \in news' : s \in news \/ s = x
      BY <1>1, StoreRows
    <2>3. x.seen >= day - Retention /\ (x \in news' => x.seen \in Int)
      BY <1>1, <2>2, StoreRows DEF NewRow, Row
    <2> QED
      BY <1>0, <2>1, <2>2, <2>3 DEF SweptBefore, RetentionHolds
  <1>2. CASE EndGdelt
    BY <1>0, <1>2 DEF EndGdelt, SweptBefore, RetentionHolds
  <1>3. ASSUME UNCHANGED <<swept, day>>,
               \A s \in news' : \E r \in news : SameRow(r, s)
        PROVE  SweptBefore' /\ RetentionHolds'
    BY <1>3 DEF SweptBefore, RetentionHolds, SameRow
  <1>4. CASE BeginBodies
    BY <1>3, <1>4, PromotedRows DEF BeginBodies
  <1>5. CASE Fetches
    <2>1. PICK a \in queue : BodyExtracted(a) \/ BodyFails(a) \/ BodyUnreachable(a)
      BY <1>5 DEF Fetches
    <2>2. UNCHANGED <<swept, day>>
      BY <2>1 DEF BodyExtracted, BodyFails, BodyUnreachable, FetchBody
    <2> QED
      BY <1>3, <2>1, <2>2, FetchRows
  <1>6. CASE UNCHANGED corpus
    <2>1. day' >= day /\ day' \in Int
      <3>1. ASSUME NEW i \in Items, NEW b \in Buckets, Gdelt(b, i) \/ Eodhd(b, i) \/ Rss(b, i)
            PROVE  day' = day
        BY <3>1 DEF Gdelt, Eodhd, Rss, Store
      <3>2. ASSUME NEW a \in queue,
                   PassBody(a) \/ BodyExtracted(a) \/ BodyFails(a) \/ BodyUnreachable(a)
            PROVE  day' = day
        BY <3>2 DEF PassBody, BodyExtracted, BodyFails, BodyUnreachable, FetchBody
      <3>3. CASE EmbedStep \/ KillEmbed \/ \E m \in Models : BeginEmbed(m)
        BY <1>0, <3>3 DEF EmbedStep, KillEmbed, AskProvider, Register, BatchFails, Mismatch,
           BacklogEmpty, Prune, StoreVectors, BeginEmbed
      <3>4. CASE Tick
        BY <1>0, <3>4 DEF Tick
      <3> QED
        BY <1>0, <3>1, <3>2, <3>3, <3>4 DEF Next, TrackStep, BodyStep, KillSync, vars, BeginSync,
           EndGdelt, EndEodhd, TrackFails, BeginBodies, EndSync
    <2> QED
      BY <1>0, <1>6, <2>1 DEF corpus, SweptBefore, RetentionHolds
  <1> QED
    BY <1>1, <1>2, <1>4, <1>5, <1>6, CorpusSteps

\* Where rows are replaced by rows of the same id, ids stay distinct.
LEMMA Mapped ==
  ASSUME NEW rows, \A r, s \in rows : r.id = s.id => r = s,
         NEW mine \in SUBSET rows, NEW f, \A r \in mine : f[r].id = r.id
  PROVE  \A r, s \in (rows \ mine) \union {f[t] : t \in mine} : r.id = s.id => r = s
  <1> DEFINE new == (rows \ mine) \union {f[t] : t \in mine}
  <1>1. ASSUME NEW r \in new
        PROVE  \E o \in rows : /\ o.id = r.id
                               /\ \/ o \notin mine /\ r = o
                                  \/ o \in mine /\ r = f[o]
    OBVIOUS
  <1> HIDE DEF new
  <1>2. ASSUME NEW r \in new, NEW s \in new, r.id = s.id
        PROVE  r = s
    <2>1. PICK o \in rows : /\ o.id = r.id
                            /\ \/ o \notin mine /\ r = o
                               \/ o \in mine /\ r = f[o]
      BY <1>1
    <2>2. PICK p \in rows : /\ p.id = s.id
                            /\ \/ p \notin mine /\ s = p
                               \/ p \in mine /\ s = f[p]
      BY <1>1
    <2>3. o = p
      BY <1>2, <2>1, <2>2
    <2> QED
      BY <2>1, <2>2, <2>3
  <1> QED
    BY <1>2 DEF new

\* Ids stay distinct: an insertion takes a fresh one, every other step keeps them.
LEMMA RowsOneStep ==
  ASSUME TypeOK, IdsGiven, RowsOne, Counted, [Next]_vars
  PROVE  RowsOne'
  <1>0. \A r \in news : r \in Row /\ r.id <= lastId /\ r.id \in Nat /\ lastId \in Nat
    BY DEF TypeOK, Row, IdsGiven
  <1>1. CASE Stores
    <2>1. PICK x : NewRow(x) /\ \A s \in news' : s \in news \/ s = x
      BY <1>1, StoreRows
    <2>2. \A r \in news : r.id # x.id
      BY <1>0, <2>1 DEF NewRow
    <2> QED
      BY <2>1, <2>2 DEF RowsOne
  <1>2. CASE EndGdelt
    BY <1>2 DEF EndGdelt, RowsOne
  <1>3. CASE BeginBodies
    <2> DEFINE f == [r \in news |->
                       [r EXCEPT !.status = IF @ = "not_applicable" /\ Domain[r.url] \in Whitelist
                                              THEN "pending" ELSE @]]
    <2>1. news' = (news \ news) \union {f[r] : r \in news}
      BY <1>3 DEF BeginBodies, Promoted
    <2>2. \A r \in news : f[r].id = r.id
      BY <1>0 DEF Row
    <2> HIDE DEF f
    <2> QED
      BY <2>1, <2>2, Mapped DEF RowsOne
  <1>4. CASE Fetches
    <2>1. PICK a \in queue : BodyExtracted(a) \/ BodyFails(a) \/ BodyUnreachable(a)
      BY <1>4 DEF Fetches
    <2>2. Served(a) \subseteq news /\ \A r \in Served(a) : r.attempts < MaxAttempts
      BY DEF Served, Counted
    <2>3. CASE BodyExtracted(a)
      <3> DEFINE f == [r \in Served(a) |-> [r EXCEPT !.status = "extracted"]]
      <3>1. news' = (news \ Served(a)) \union {f[r] : r \in Served(a)}
        BY <2>3 DEF BodyExtracted, FetchBody
      <3>2. \A r \in Served(a) : f[r].id = r.id
        BY <1>0, <2>2 DEF Row
      <3> HIDE DEF f
      <3> QED
        BY <2>2, <3>1, <3>2, Mapped DEF RowsOne
    <2>4. CASE BodyFails(a)
      <3> DEFINE f == [r \in Served(a) |-> Attempted(r)]
      <3>1. news' = (news \ Served(a)) \union {f[r] : r \in Served(a)}
        BY <2>4 DEF BodyFails, FetchBody
      <3>2. \A r \in Served(a) : f[r].id = r.id
        BY <1>0, <2>2, AttemptedRow DEF SameRow
      <3> HIDE DEF f
      <3> QED
        BY <2>2, <3>1, <3>2, Mapped DEF RowsOne
    <2>5. CASE BodyUnreachable(a)
      BY <2>2, <2>5 DEF BodyUnreachable, FetchBody, RowsOne
    <2> QED
      BY <2>1, <2>3, <2>4, <2>5
  <1>5. CASE UNCHANGED corpus
    BY <1>5 DEF corpus, RowsOne
  <1> QED
    BY <1>1, <1>2, <1>3, <1>4, <1>5, CorpusSteps

\* What the embedding does to its batch and to what it is done with.
LEMMA BatchSteps ==
  ASSUME [Next]_vars
  PROVE  \/ UNCHANGED <<vectors, epc, batch, skipped>>
         \/ AskProvider \/ Prune \/ KillEmbed \/ BatchFails
         \/ \E n \in 1 .. BatchSize : StoreVectors(n)
         \/ \E m \in Models : BeginEmbed(m)
         \/ UNCHANGED <<vectors, skipped>> /\ epc' = "prune"
  <1> DEFINE Same == UNCHANGED <<vectors, epc, batch, skipped>>
  <1>1. ASSUME Register
        PROVE  Same
    BY <1>1 DEF Register, embed
  <1>2. ASSUME Mismatch \/ BacklogEmpty
        PROVE  UNCHANGED <<vectors, skipped>> /\ epc' = "prune"
    BY <1>2 DEF Mismatch, BacklogEmpty, index
  <1>3. ASSUME UNCHANGED <<index, embed>>
        PROVE  Same
    BY <1>3 DEF index, embed
  <1> HIDE DEF Same
  <1> QED
    <2>1. CASE EmbedStep
      BY <1>1, <1>2, <2>1 DEF EmbedStep, Same
    <2>2. \/ Same \/ KillEmbed \/ EmbedStep \/ \E m \in Models : BeginEmbed(m)
      BY <1>3, EmbedSteps
    <2> QED
      BY <2>1, <2>2 DEF Same

\* A batch is new when it is asked for, and nobody else handles its rows.
LEMMA BatchNewStep ==
  ASSUME TypeOK, RowsOne, BatchNew, [Next]_vars
  PROVE  BatchNew'
  <1>1. CASE UNCHANGED <<vectors, epc, batch, skipped>>
    BY <1>1 DEF BatchNew, Handled
  <1>2. CASE AskProvider
    <2>1. /\ Backlog # {} /\ vectors' = vectors /\ skipped' = skipped
          /\ batch' = {[id |-> r.id, title |-> r.title] : r \in First(BatchSize, Backlog)}
      BY <1>2 DEF AskProvider, index
    <2>2. Backlog \subseteq Row /\ \A r, s \in Backlog : r.id = s.id => r = s
      BY DEF Backlog, First, Pending, TypeOK, RowsOne
    <2>3. \A r \in Backlog : r.id \notin Handled
      BY DEF Backlog, First, Pending, Handled
    <2>4. PICK r \in Backlog : \A s \in Backlog : ~Older(s, r)
      BY <2>1, <2>2, OldestRow
    <2>5. {s \in Backlog : Older(s, r)} = {}
      BY <2>4
    <2>6. r \in First(BatchSize, Backlog)
      <3>1. Cardinality({}) = 0 /\ 0 < BatchSize
        BY FS_EmptySet, CapsAssumption
      <3> QED
        BY <2>5, <3>1 DEF First
    <2>7. First(BatchSize, Backlog) \subseteq Backlog
      BY DEF First
    <2>8. Handled' = Handled
      BY <2>1 DEF Handled
    <2>9. batch' # {}
      BY <2>1, <2>6
    <2>10. ASSUME NEW b \in batch'
           PROVE  b.id \notin Handled'
      <3>1. PICK s \in First(BatchSize, Backlog) : b = [id |-> s.id, title |-> s.title]
        BY <2>1
      <3>2. b.id = s.id
        BY <3>1
      <3> QED
        BY <2>3, <2>7, <2>8, <3>2
    <2> QED
      BY <2>9, <2>10 DEF BatchNew
  <1>3. CASE epc' # "asked"
    BY <1>3 DEF BatchNew
  <1>4. ASSUME Prune \/ KillEmbed \/ BatchFails \/ epc' = "prune"
        PROVE  epc' # "asked"
    BY <1>4 DEF Prune, KillEmbed, BatchFails
  <1>5. ASSUME NEW n \in 1 .. BatchSize, StoreVectors(n)
        PROVE  epc' # "asked"
    BY <1>5 DEF StoreVectors
  <1>6. ASSUME NEW m \in Models, BeginEmbed(m)
        PROVE  epc' # "asked"
    BY <1>6 DEF BeginEmbed
  <1> QED
    BY <1>1, <1>2, <1>3, <1>4, <1>5, <1>6, BatchSteps

\* A batch that comes back, with an answer or with an error, is progress.
EmbedProgress ==
  /\ epc = "asked" /\ epc' = "loop" => Handled \subseteq Handled' /\ Handled' # Handled
  /\ epc \in {"loop", "asked"} /\ epc' # "idle" => Handled \subseteq Handled'

LEMMA ProgressStep ==
  ASSUME TypeOK, BatchNew, [Next]_vars
  PROVE  EmbedProgress
  <1>1. CASE UNCHANGED <<vectors, epc, batch, skipped>>
    BY <1>1 DEF EmbedProgress, Handled
  <1>2. CASE AskProvider
    BY <1>2 DEF AskProvider, index, EmbedProgress, Handled
  <1>3. CASE Prune \/ KillEmbed \/ \E m \in Models : BeginEmbed(m)
    BY <1>3 DEF Prune, KillEmbed, BeginEmbed, EmbedProgress
  <1>4. CASE BatchFails
    <2>1. epc = "asked" /\ vectors' = vectors /\ skipped' = skipped \union {b.id : b \in batch}
      BY <1>4 DEF BatchFails, index
    <2>2. PICK b \in batch : b.id \notin Handled
      BY <2>1 DEF BatchNew
    <2> QED
      BY <2>1, <2>2 DEF EmbedProgress, Handled
  <1>5. ASSUME NEW n \in 1 .. BatchSize, StoreVectors(n)
        PROVE  EmbedProgress
    <2>0. epc = "asked" /\ epc' = "loop"
      BY <1>5 DEF StoreVectors
    <2> DEFINE got == {b \in batch : Cardinality({c \in batch : c.id < b.id}) < n}
    <2>1. /\ epc = "asked" /\ skipped' = skipped
          /\ vectors' = {v \in vectors : \A b \in got : b.id # v.id}
                          \union {[id |-> b.id, title |-> b.title, model |-> model] : b \in got}
      BY <1>5 DEF StoreVectors
    <2>2. batch # {} /\ \A b \in batch : b.id \notin Handled /\ b.id \in Nat
      BY <2>1 DEF BatchNew, TypeOK
    <2> DEFINE ids == {b.id : b \in batch}
    <2>3. ids \subseteq Nat /\ ids # {}
      BY <2>2
    <2> HIDE DEF ids
    <2>4. PICK k \in ids : \A l \in ids : k <= l
      BY <2>3, Least
    <2>5. PICK b \in batch : b.id = k
      BY DEF ids
    <2>6. {c \in batch : c.id < b.id} = {}
      BY <2>2, <2>4, <2>5 DEF ids
    <2>7. b \in got
      <3>1. Cardinality({}) = 0 /\ 0 < n
        BY FS_EmptySet
      <3> QED
        BY <2>6, <3>1
    <2> HIDE DEF got
    <2>8. b.id \in Handled'
      <3>1. [id |-> b.id, title |-> b.title, model |-> model] \in vectors'
        BY <2>1, <2>7
      <3> QED
        BY <3>1 DEF Handled
    <2>9. Handled \subseteq Handled'
      <3>1. ASSUME NEW v \in vectors
            PROVE  \E w \in vectors' : w.id = v.id
        <4>1. CASE \A c \in got : c.id # v.id
          BY <2>1, <4>1
        <4>2. ASSUME NEW c \in got, c.id = v.id
              PROVE  \E w \in vectors' : w.id = v.id
          <5>1. [id |-> c.id, title |-> c.title, model |-> model] \in vectors'
            BY <2>1
          <5> QED
            BY <4>2, <5>1
        <4> QED
          BY <4>1, <4>2
      <3> QED
        BY <2>1, <3>1 DEF Handled
    <2> QED
      BY <2>0, <2>2, <2>5, <2>8, <2>9 DEF EmbedProgress
  <1>6. CASE UNCHANGED <<vectors, skipped>> /\ epc' = "prune"
    BY <1>6 DEF EmbedProgress, Handled
  <1> QED
    BY <1>1, <1>2, <1>3, <1>4, <1>5, <1>6, BatchSteps

\* Attempts stand for failures of different runs.
LEMMA CountedStep ==
  ASSUME TypeOK, Counted, OnceARun, [Next]_vars
  PROVE  Counted'
  <1> USE CapsAssumption
  <1>0. /\ \A r \in news : r \in Row /\ r.url \in Urls /\ r.attempts \in Nat
        /\ \A u \in Urls : failures[u] \in Nat
    BY DEF TypeOK, Row
  <1>1. CASE Stores
    <2>1. UNCHANGED failures /\ news' \subseteq Row
      BY <1>1, StoreRows DEF bodies
    <2>2. PICK x : NewRow(x) /\ \A s \in news' : s \in news \/ s = x
      BY <1>1, StoreRows
    <2>3. x.status = "not_applicable" /\ x.attempts = 0
      BY <2>2 DEF NewRow
    <2>4. \A s \in news' : failures[s.url] \in Nat
      BY <1>0, <2>1 DEF Row
    <2> QED
      BY <1>0, <2>1, <2>2, <2>3, <2>4 DEF Counted, Waiting
  <1>2. CASE EndGdelt
    BY <1>2 DEF EndGdelt, bodies, Counted, Waiting
  <1>3. CASE BeginBodies
    <2>1. news' = Promoted(news) /\ failures' = failures
      BY <1>3 DEF BeginBodies
    <2> QED
      BY <1>0, <2>1, PromotedRows DEF Counted, Waiting, SameRow
  <1>4. CASE Fetches
    <2>1. PICK a \in queue : BodyExtracted(a) \/ BodyFails(a) \/ BodyUnreachable(a)
      BY <1>4 DEF Fetches
    <2>2. a.url \in Urls
      BY DEF TypeOK, Article
    <2>3. /\ \A u \in Urls : failures'[u] >= failures[u] /\ failures'[u] \in Nat
          /\ BodyFails(a) => failures'[a.url] = failures[a.url] + 1
      <3>1. CASE failures' = failures /\ ~BodyFails(a)
        BY <1>0, <3>1
      <3>2. CASE BodyFails(a)
        <4>1. ~ \E b \in asked : b.url = a.url
          BY DEF OnceARun
        <4>2. failures' = [failures EXCEPT ![a.url] = failures[a.url] + 1]
          BY <3>2, <4>1 DEF BodyFails
        <4> QED
          BY <1>0, <2>2, <4>2 DEF TypeOK
      <3> QED
        BY <2>1, <3>1, <3>2 DEF BodyExtracted, BodyUnreachable
    <2>4. ASSUME NEW s \in news'
          PROVE  /\ s.attempts <= failures'[s.url]
                 /\ s.status = "unavailable" => s.attempts >= MaxAttempts
                 /\ s.status = "not_applicable" => s.attempts = 0
                 /\ Waiting(s) => s.attempts < MaxAttempts
      <3>1. PICK r \in news :
              /\ SameRow(r, s)
              /\ \/ s = r
                 \/ r.url = a.url /\ Waiting(r) /\ s.status = "extracted" /\ s.attempts = r.attempts
                 \/ /\ r.url = a.url /\ Waiting(r) /\ BodyFails(a)
                    /\ s.attempts = r.attempts + 1
                    /\ s.status = IF s.attempts >= MaxAttempts THEN "unavailable" ELSE "failed"
        BY <2>1, FetchRows
      <3>2. /\ r.attempts <= failures[r.url] /\ r.attempts \in Nat /\ r.url \in Urls
            /\ failures[r.url] \in Nat /\ s.url = r.url
            /\ failures'[r.url] >= failures[r.url] /\ failures'[r.url] \in Nat
        BY <1>0, <2>3, <3>1 DEF Counted, SameRow
      <3> QED
        BY <2>3, <3>1, <3>2 DEF Counted, Waiting
    <2> QED
      BY <2>4 DEF Counted, Waiting
  <1>5. CASE UNCHANGED corpus
    <2>1. CASE failures' = failures
      BY <1>5, <2>1 DEF corpus, Counted, Waiting
    <2>2. ASSUME NEW a \in queue, PassBody(a)
          PROVE  failures' = failures
      BY <2>2 DEF PassBody
    <2> QED
      BY <1>3, <1>4, <2>1, <2>2, BodySteps DEF ClearBodies, bodies
  <1> QED
    BY <1>1, <1>2, <1>3, <1>4, <1>5, CorpusSteps

\* Only whitelisted articles wait.
LEMMA ListedStep ==
  ASSUME TypeOK, Counted, Listed, [Next]_vars
  PROVE  Listed'
  <1>1. \A s \in news' : Waiting(s) => Domain[s.url] \in Whitelist
    <2>1. CASE Stores
      <3>1. PICK x : NewRow(x) /\ \A s \in news' : s \in news \/ s = x
        BY <2>1, StoreRows
      <3> QED
        BY <3>1 DEF NewRow, Listed, Waiting
    <2>2. CASE EndGdelt
      BY <2>2 DEF EndGdelt, Listed
    <2>3. CASE BeginBodies
      <3> SUFFICES ASSUME NEW r \in news,
                          NEW s, s = [r EXCEPT !.status = IF @ = "not_applicable" /\ Domain[r.url] \in Whitelist
                                                            THEN "pending" ELSE @],
                          Waiting(s)
                   PROVE  Domain[s.url] \in Whitelist
        BY <2>3 DEF BeginBodies, Promoted
      <3>1. r \in Row
        BY DEF TypeOK
      <3> QED
        BY <3>1 DEF Row, Listed, Waiting
    <2>4. CASE Fetches
      <3>1. PICK a \in queue : BodyExtracted(a) \/ BodyFails(a) \/ BodyUnreachable(a)
        BY <2>4 DEF Fetches
      <3>2. ASSUME NEW s \in news', Waiting(s)
            PROVE  \E r \in news : r.url = s.url /\ Waiting(r)
        BY <3>1, <3>2, FetchRows DEF SameRow, Waiting
      <3> QED
        BY <3>2 DEF Listed
    <2>5. CASE UNCHANGED corpus
      BY <2>5 DEF corpus, Listed
    <2> QED
      BY <2>1, <2>2, <2>3, <2>4, <2>5, CorpusSteps
  <1>2. \A a \in queue' \union passed' : Domain[a.url] \in Whitelist
    <2>1. CASE BeginBodies
      <3>1. queue' = WorkQueue(news') /\ passed' = passed
        BY <2>1 DEF BeginBodies
      <3>2. \A a \in WorkQueue(news') : \E r \in news' : Waiting(r) /\ r.url = a.url
        BY DEF WorkQueue, Selected
      <3> QED
        BY <1>1, <3>1, <3>2 DEF Listed
    <2>2. CASE Fetches
      <3>1. queue' \subseteq queue /\ passed' = passed
        BY <2>2 DEF Fetches, BodyExtracted, BodyFails, BodyUnreachable, FetchBody
      <3> QED
        BY <3>1 DEF Listed
    <2>3. ASSUME NEW a \in queue, PassBody(a)
          PROVE  queue' \union passed' \subseteq queue \union passed
      BY <2>3 DEF PassBody
    <2>4. CASE ClearBodies
      BY <2>4 DEF ClearBodies
    <2>5. CASE UNCHANGED bodies
      BY <2>5 DEF bodies, Listed
    <2> QED
      BY <2>1, <2>2, <2>3, <2>4, <2>5, BodySteps DEF Listed
  <1> QED
    BY <1>1, <1>2 DEF Listed

\* Nothing of a body run outlives it.
LEMMA RunOnlyStep ==
  ASSUME TypeOK, RunOnly, [Next]_vars
  PROVE  RunOnly'
  <1>1. CASE BeginBodies
    BY <1>1 DEF BeginBodies, RunOnly
  <1>2. ASSUME NEW a \in queue,
               PassBody(a) \/ BodyExtracted(a) \/ BodyFails(a) \/ BodyUnreachable(a)
        PROVE  pc' = "body"
    BY <1>2 DEF PassBody, BodyExtracted, BodyFails, BodyUnreachable, FetchBody
  <1>3. CASE ClearBodies
    BY <1>3 DEF ClearBodies, RunOnly
  <1>4. CASE UNCHANGED bodies /\ pc' = pc
    BY <1>4 DEF bodies, RunOnly
  <1>5. CASE UNCHANGED bodies /\ pc' # "body" /\ pc # "body"
    BY <1>5 DEF bodies, RunOnly
  <1>6. CASE UNCHANGED bodies /\ pc' # "body" /\ pc = "body"
    <2>1. ~(TrackFails \/ KillSync \/ EndSync) => pc' = pc
      <3>1. ASSUME NEW i \in Items, NEW b \in Buckets, Gdelt(b, i) \/ Eodhd(b, i) \/ Rss(b, i)
            PROVE  pc' = pc
        BY <3>1 DEF Gdelt, Eodhd, Rss, Store
      <3>2. CASE EmbedStep \/ KillEmbed \/ \E m \in Models : BeginEmbed(m)
        BY <3>2 DEF EmbedStep, KillEmbed, AskProvider, Register, BatchFails, Mismatch,
           BacklogEmpty, Prune, StoreVectors, BeginEmbed
      <3> QED
        BY <1>2, <1>6, <3>1, <3>2 DEF Next, TrackStep, BodyStep, vars, BeginSync,
           EndGdelt, EndEodhd, Tick, BeginBodies
    <2>2. TrackFails \/ KillSync \/ EndSync => ClearBodies
      BY <1>6 DEF TrackFails, KillSync, EndSync
    <2> QED
      BY <1>3, <1>6, <2>1, <2>2
  <1> QED
    BY <1>1, <1>2, <1>3, <1>4, <1>5, <1>6, BodySteps DEF Fetches, RunOnly, bodies

\* An article leaves the queue for good, and in order.
LEMMA OnceStep ==
  ASSUME TypeOK, Counted, RunOnly, OnceARun, AskedFirst, [Next]_vars
  PROVE  OnceARun' /\ AskedFirst'
  <1>1. CASE BeginBodies
    <2>1. queue' = WorkQueue(news') /\ asked' = {}
      BY <1>1 DEF BeginBodies, RunOnly
    <2>2. news' \subseteq Row
      BY RowsStep
    <2> QED
      BY <2>1, <2>2, QueueTyped DEF OnceARun, AskedFirst
  <1>2. CASE Fetches
    <2>1. PICK a \in queue : Head(a) /\ queue' = queue \ {a} /\ asked' = asked \union {a}
      BY <1>2 DEF Fetches, BodyExtracted, BodyFails, BodyUnreachable, FetchBody
    <2> QED
      BY <2>1 DEF OnceARun, AskedFirst, Head, Before
  <1>3. ASSUME NEW a \in queue, PassBody(a)
        PROVE  OnceARun' /\ AskedFirst'
    BY <1>3 DEF PassBody, OnceARun, AskedFirst, Before
  <1>4. CASE ClearBodies
    BY <1>4 DEF ClearBodies, OnceARun, AskedFirst
  <1>5. CASE UNCHANGED bodies
    BY <1>5 DEF bodies, OnceARun, AskedFirst, Before
  <1> QED
    BY <1>1, <1>2, <1>3, <1>4, <1>5, BodySteps

\* What could not be afforded cannot be afforded later.
LEMMA PassedStep ==
  ASSUME TypeOK, RunOnly, Listed, PassedStay, [Next]_vars
  PROVE  PassedStay'
  <1>1. CASE BeginBodies
    <2>1. asked' = asked /\ passed' = passed /\ passed = {}
      BY <1>1 DEF BeginBodies, RunOnly
    <2> QED
      BY <2>1 DEF PassedStay
  <1>2. CASE Fetches
    <2>1. PICK a \in queue, fails \in BOOLEAN :
             /\ Affordable(a) /\ asked' = asked \union {a} /\ passed' = passed
             /\ streak' = [streak EXCEPT ![Domain[a.url]] = IF fails THEN @ + 1 ELSE 0]
      BY <1>2 DEF Fetches, BodyExtracted, BodyFails, BodyUnreachable, FetchBody
    <2>2. IsFiniteSet(asked') /\ Cardinality(asked) <= Cardinality(asked')
          /\ Cardinality(asked) \in Nat /\ Cardinality(asked') \in Nat
      BY <2>1, FS_AddElement, FS_CardinalityType, FS_Subset DEF PassedStay
    <2>3. ASSUME NEW p \in passed
          PROVE  ~Affordable(p)'
      <3> DEFINE d == Domain[p.url]
                 mine == OfDomain(asked, d)
                 next == OfDomain(asked', d)
      <3>1. d # Domain[a.url]
        BY <2>1 DEF PassedStay, Affordable
      <3>2. streak'[d] = streak[d]
        BY <2>1, <3>1 DEF Listed, TypeOK
      <3>3. mine \subseteq next /\ next \subseteq asked'
        BY <2>1 DEF OfDomain
      <3>4. IsFiniteSet(next)
        BY <2>2, <3>3, FS_Subset
      <3>5. /\ IsFiniteSet(mine) /\ Cardinality(mine) <= Cardinality(next)
            /\ Cardinality(mine) \in Nat /\ Cardinality(next) \in Nat
        BY <3>3, <3>4, FS_Subset, FS_CardinalityType
      <3>6. ~(/\ streak[d] < PauseAfter /\ Cardinality(asked) < PerRun
              /\ Cardinality(mine) < PerDomain)
        BY DEF PassedStay, Affordable
      <3> HIDE DEF mine, next
      <3>7. ~(/\ streak'[d] < PauseAfter /\ Cardinality(asked') < PerRun
              /\ Cardinality(next) < PerDomain)
        BY <2>2, <3>2, <3>5, <3>6, CapsAssumption
      <3> QED
        BY <3>7 DEF Affordable, next
    <2> QED
      BY <2>1, <2>2, <2>3 DEF PassedStay
  <1>3. ASSUME NEW a \in queue, PassBody(a)
        PROVE  PassedStay'
    BY <1>3 DEF PassBody, PassedStay, Affordable, OfDomain
  <1>4. CASE ClearBodies
    BY <1>4, FS_EmptySet DEF ClearBodies, PassedStay
  <1>5. CASE UNCHANGED bodies
    BY <1>5 DEF bodies, PassedStay, Affordable, OfDomain
  <1> QED
    BY <1>1, <1>2, <1>3, <1>4, <1>5, BodySteps

\* The caps are spent in the order of the queue.
LEMMA QueueStep ==
  ASSUME TypeOK, RunOnly, AskedFirst, PassedStay, NoQueueJumping, [Next]_vars
  PROVE  NoQueueJumping'
  <1> DEFINE Order(a, b) == \/ ~b.topical /\ a.topical
                            \/ b.topical = a.topical /\ b.seen > a.seen
  <1>1. CASE asked' = {} \/ UNCHANGED <<asked, passed>>
    BY <1>1 DEF NoQueueJumping
  <1>2. CASE Fetches
    <2>1. PICK a \in queue : Affordable(a) /\ asked' = asked \union {a} /\ passed' = passed
      BY <1>2 DEF Fetches, BodyExtracted, BodyFails, BodyUnreachable, FetchBody
    <2>2. \A b \in passed : Domain[a.url] # Domain[b.url]
      BY <2>1 DEF PassedStay, Affordable
    <2> QED
      BY <2>1, <2>2 DEF NoQueueJumping
  <1>3. ASSUME NEW a \in queue, PassBody(a)
        PROVE  NoQueueJumping'
    <2>1. passed' = passed \union {a} /\ asked' = asked
      BY <1>3 DEF PassBody
    <2>2. \A b \in asked : ~Before(a, b)
      BY DEF AskedFirst, Before, TypeOK, Article
    <2> QED
      BY <2>1, <2>2 DEF NoQueueJumping, Before
  <1>4. CASE BeginBodies
    BY <1>1, <1>4 DEF BeginBodies
  <1> QED
    BY <1>1, <1>2, <1>3, <1>4, BodySteps DEF ClearBodies, bodies

\* The loop of run_embed ends by itself only when it finds nothing to ask for.
LEMMA StopStep ==
  ASSUME [Next]_vars, epc = "loop", epc' = "prune"
  PROVE  Backlog = {}
  <1>1. ASSUME NEW i \in Items, NEW b \in Buckets, Gdelt(b, i) \/ Eodhd(b, i) \/ Rss(b, i)
        PROVE  epc' = epc
    BY <1>1 DEF Gdelt, Eodhd, Rss, Store, embed
  <1>2. CASE TrackStep
    BY <1>1, <1>2 DEF TrackStep, BeginSync, EndGdelt, EndEodhd, TrackFails, embed
  <1>3. ASSUME NEW a \in queue,
               PassBody(a) \/ BodyExtracted(a) \/ BodyFails(a) \/ BodyUnreachable(a)
        PROVE  epc' = epc
    BY <1>3 DEF PassBody, BodyExtracted, BodyFails, BodyUnreachable, FetchBody, embed
  <1>4. CASE BodyStep
    BY <1>3, <1>4 DEF BodyStep, BeginBodies, EndSync, embed
  <1>5. CASE EmbedStep
    BY <1>5 DEF EmbedStep, AskProvider, Register, BatchFails, Mismatch, BacklogEmpty, Prune,
       StoreVectors
  <1>6. CASE KillSync \/ KillEmbed \/ Tick \/ UNCHANGED vars \/ \E m \in Models : BeginEmbed(m)
    BY <1>6 DEF KillSync, KillEmbed, Tick, vars, BeginEmbed, embed
  <1> QED
    BY <1>2, <1>4, <1>5, <1>6 DEF Next

\* The invariant of NewsCorpus is inductive: every step of the syncs, of the
\* body track, of the embedding and of the environment keeps it.
THEOREM Invariance == Spec => []IInv
  <1>1. IInv /\ [Next]_vars => IInv'
    <2> SUFFICES ASSUME IInv, [Next]_vars
                 PROVE  IInv'
      OBVIOUS
    <2>1. /\ TypeOK /\ IdsGiven /\ RowsOne /\ BatchNew /\ BatchTrue /\ Counted /\ RunOnly /\ OnceARun
          /\ AskedFirst /\ PassedStay /\ Listed /\ SweptBefore
          /\ UnavailableEarned /\ NoQueueJumping /\ VectorsTrue /\ RetentionHolds
      BY DEF IInv
    <2>2. TypeOK'
      BY <2>1, TypeStep
    <2>3. IdsGiven' /\ RowsOne' /\ BatchNew' /\ BatchTrue' /\ VectorsTrue'
      BY <2>1, IdsStep, RowsOneStep, BatchNewStep, BatchStep, VectorsStep
    <2>4. Counted' /\ Listed'
      BY <2>1, CountedStep, ListedStep
    <2>5. UnavailableEarned'
      <3>1. \A r \in news' : /\ r.attempts \in Nat /\ failures'[r.url] \in Nat
                             /\ r.attempts <= failures'[r.url]
        BY <2>2, <2>4 DEF TypeOK, Row, Counted
      <3> QED
        BY <2>4, <3>1, CapsAssumption DEF Counted, UnavailableEarned
    <2>6. RunOnly' /\ OnceARun' /\ AskedFirst' /\ PassedStay' /\ NoQueueJumping'
      BY <2>1, RunOnlyStep, OnceStep, PassedStep, QueueStep
    <2>7. SweptBefore' /\ RetentionHolds'
      BY <2>1, SweptStep
    <2> QED
      BY <2>2, <2>3, <2>4, <2>5, <2>6, <2>7 DEF IInv
  <1> QED
    BY InitInv, <1>1, PTL DEF Spec

\* Every variable of the corpus keeps its type, whatever the sources list.
THEOREM TypeCorrect == Spec => []TypeOK
  <1>1. IInv => TypeOK
    BY DEF IInv
  <1> QED
    BY Invariance, <1>1, PTL

\* A body is given up only after failures of MaxAttempts runs (newsbody.py).
THEOREM EarnedHolds == Spec => []UnavailableEarned
  <1>1. IInv => UnavailableEarned
    BY DEF IInv
  <1> QED
    BY Invariance, <1>1, PTL

\* The caps of a body run are spent in the order of _work_queue, for all caps.
THEOREM QueueHonoured == Spec => []NoQueueJumping
  <1>1. IInv => NoQueueJumping
    BY DEF IInv
  <1> QED
    BY Invariance, <1>1, PTL

\* A vector never joins a row it was not computed from, whatever a sync
\* deletes, replaces and stores while the provider works (embed.py, vector.py).
THEOREM IndexTrue == Spec => []VectorsTrue
  <1>1. IInv => VectorsTrue
    BY DEF IInv
  <1> QED
    BY Invariance, <1>1, PTL

\* An embedding that stops has read the whole backlog: it leaves no row without
\* a vector but those of failed batches, unless `Limit` of them fill the window
\* it reads, for every window, batch size and set of pending rows (embed.py:103).
THEOREM ReportHolds == Spec => EmbedReports
  <1>1. ASSUME IInv, [Next]_vars, epc = "loop", epc' = "prune"
        PROVE  {r.id : r \in Pending} \subseteq skipped \/ Cardinality(skipped) >= Limit
    <2> DEFINE head == First(Limit, Pending)
    <2>1. /\ Pending \subseteq Row /\ \A r, s \in Pending : r.id = s.id => r = s
          /\ skipped \subseteq 1 .. MaxId /\ Limit \in Nat \ {0}
      BY <1>1, CapsAssumption DEF IInv, TypeOK, RowsOne, Pending
    <2>2. \A r \in head : r.id \in skipped
      <3>1. Backlog = {}
        BY <1>1, StopStep
      <3> QED
        BY <3>1 DEF Backlog
    <2>3. IsFiniteSet(skipped)
      <3>1. IsFiniteSet(1 .. MaxId)
        BY FS_Interval, WindowsAssumption
      <3> QED
        BY <2>1, <3>1, FS_Subset
    <2>4. CASE head = Pending
      BY <2>2, <2>4
    <2>5. CASE head # Pending
      <3>1. head \subseteq Pending
        BY DEF First
      <3>2. IsFiniteSet(head) /\ Cardinality(head) >= Limit
        BY <2>1, <2>5, HeadIsFull
      <3>3. Cardinality(head) <= Cardinality(skipped)
        BY <2>1, <2>2, <2>3, <3>1, RowsAndIds
      <3>4. Cardinality(head) \in Nat /\ Cardinality(skipped) \in Nat
        BY <2>3, <3>2, FS_CardinalityType
      <3> HIDE DEF head
      <3> QED
        BY <2>1, <3>2, <3>3, <3>4
    <2> QED
      BY <2>4, <2>5
  <1> QED
    BY <1>1, Invariance, PTL DEF EmbedReports, Spec

\* Every batch that comes back settles a row for good: an embedding asks the
\* provider no more often than there are ids, whatever fails and whatever syncs
\* add meanwhile (run_embed).  The end of every embedding rests on it.
THEOREM BatchesProgress == Spec => [](Handled \subseteq 1 .. MaxId) /\ [][EmbedProgress]_vars
  <1>1. IInv => Handled \subseteq 1 .. MaxId
    BY DEF IInv, TypeOK, Handled
  <1>2. IInv /\ [Next]_vars => EmbedProgress
    BY ProgressStep DEF IInv
  <1> QED
    BY <1>1, <1>2, Invariance, PTL DEF Spec

\* No track stores an article retention had already removed (news.py, S5).
THEOREM RetentionFinal == Spec => []RetentionHolds
  <1>1. IInv => RetentionHolds
    BY DEF IInv
  <1> QED
    BY Invariance, <1>1, PTL
=============================================================================
