--------------------------- MODULE DataRootProofs ---------------------------
(***************************************************************************)
(* The safety properties of DataRoot, proved for every set of terminals    *)
(* and listings, every store an older build left, and every cap and bound. *)
(*                                                                         *)
(* A terminal that migrates has behind it every version before its own and *)
(* every statement it has run (Migrating); the demotion of version 6 and   *)
(* what follows it leave no verified row of a secondary venue (Scoped);    *)
(* a terminal that found room for a symbol is counted with the symbols     *)
(* until it has written its own or given up (RoomHonoured); and of two     *)
(* terminals in the middle of a spending, what each has tested or read     *)
(* bounds what is on record (Spending).                                    *)
(***************************************************************************)
EXTENDS DataRoot, FiniteSetTheorems, TLAPS

-----------------------------------------------------------------------------
(* The migrations.                                                         *)

\* There are nine versions, each a sequence of known statements.
LEMMA MigrationsTyped ==
  /\ SchemaVersion = 9
  /\ \A v \in 1 .. SchemaVersion : Migrations[v] \in Seq({"ddl", "demote", "restore"})
  <1>1. Ddl(1) \in Seq({"ddl", "demote", "restore"}) /\ Ddl(2) \in Seq({"ddl", "demote", "restore"})
        /\ Ddl(4) \in Seq({"ddl", "demote", "restore"}) /\ MigrationV1 \in Seq({"ddl", "demote", "restore"})
        /\ MigrationV4 \in Seq({"ddl", "demote", "restore"}) /\ MigrationV8 \in Seq({"ddl", "demote", "restore"})
    BY DEF Ddl, MigrationV1, MigrationV4, MigrationV8
  <1>2. MigrationV9 \in Seq({"ddl", "demote", "restore"}) /\ <<"demote">> \in Seq({"ddl", "demote", "restore"})
    BY DEF MigrationV9
  <1>3. MigrationV6 \in Seq({"ddl", "demote", "restore"})
    BY <1>1, <1>2 DEF MigrationV6
  <1>4. SchemaVersion = 9
    BY DEF SchemaVersion, Migrations
  <1>5. ASSUME NEW v \in 1 .. 9
        PROVE  Migrations[v] \in Seq({"ddl", "demote", "restore"})
    <2> HIDE DEF Ddl, MigrationV1, MigrationV4, MigrationV6, MigrationV8, MigrationV9
    <2>1. CASE v = 1 BY <1>1, <2>1 DEF Migrations
    <2>2. CASE v = 2 BY <1>1, <2>2 DEF Migrations
    <2>3. CASE v = 3 BY <1>1, <2>3 DEF Migrations
    <2>4. CASE v = 4 BY <1>1, <2>4 DEF Migrations
    <2>5. CASE v = 5 BY <1>1, <2>5 DEF Migrations
    <2>6. CASE v = 6 BY <1>3, <2>6 DEF Migrations
    <2>7. CASE v = 7 BY <1>1, <2>7 DEF Migrations
    <2>8. CASE v = 8 BY <1>1, <2>8 DEF Migrations
    <2>9. CASE v = 9 BY <1>2, <2>9 DEF Migrations
    <2> QED
      BY <2>1, <2>2, <2>3, <2>4, <2>5, <2>6, <2>7, <2>8, <2>9
  <1> QED
    BY <1>4, <1>5

\* There are nine versions, each of finitely many statements.
LEMMA LengthsTyped ==
  /\ SchemaVersion = 9
  /\ \A v \in 1 .. SchemaVersion :
       Len(Migrations[v]) \in Nat /\ 1 \in 1 .. Len(Migrations[v]) + 1
  <1>1. ASSUME NEW v \in 1 .. SchemaVersion
        PROVE  Len(Migrations[v]) \in Nat
    <2>1. Migrations[v] \in Seq({"ddl", "demote", "restore"})
      BY MigrationsTyped
    <2> QED
      BY <2>1
  <1>2. \A n \in Nat : 1 \in 1 .. n + 1
    OBVIOUS
  <1> QED
    BY <1>1, <1>2, MigrationsTyped

\* The demotion is the third statement of version 6.
LEMMA DemotionPlace ==
  Len(Migrations[6]) = 3 /\ Migrations[6][3] = "demote"
  <1>1. Ddl(2) \in Seq({"ddl"}) /\ Len(Ddl(2)) = 2
    BY DEF Ddl
  <1>2. MigrationV6 = Ddl(2) \o <<"demote">>
    BY DEF MigrationV6
  <1>3. Len(MigrationV6) = 3 /\ MigrationV6[3] = "demote"
    BY <1>1, <1>2
  <1> QED
    BY <1>3 DEF Migrations

\* A statement keeps the symbol map a map of rows.
LEMMA EffectTyped ==
  ASSUME NEW kind, NEW map \in [Listings -> Row \union {NoRow}]
  PROVE  Effect(kind, map) \in [Listings -> Row \union {NoRow}]
  <1> SUFFICES ASSUME NEW s \in Listings
               PROVE  Effect(kind, map)[s] \in Row \union {NoRow}
    BY DEF Effect
  <1>1. CASE kind = "demote" /\ map[s].exchange \notin PrimaryExchanges /\ map[s] # NoRow
    <2>1. Effect(kind, map)[s] = [map[s] EXCEPT !.verified = FALSE]
      BY <1>1 DEF Effect
    <2> QED
      BY <1>1, <2>1 DEF Row
  <1>2. CASE kind = "restore" /\ Venue[s] = "HK" /\ map[s].exchange = "HKEX" /\ map[s].name = "official"
    <2>1. Effect(kind, map)[s] = [map[s] EXCEPT !.exchange = "HK", !.verified = TRUE]
      BY <1>2 DEF Effect
    <2>2. map[s] \in Row
      BY <1>2 DEF NoRow
    <2> QED
      BY <2>1, <2>2 DEF Row, PrimaryExchanges
  <1>3. CASE /\ ~(kind = "demote" /\ map[s].exchange \notin PrimaryExchanges /\ map[s] # NoRow)
             /\ ~(kind = "restore" /\ Venue[s] = "HK" /\ map[s].exchange = "HKEX" /\ map[s].name = "official")
    BY <1>3 DEF Effect
  <1> QED
    BY <1>1, <1>2, <1>3

\* Recording a resolution writes a row.
LEMMA RecordedTyped ==
  ASSUME TypeOK, NEW s \in Listings, NEW name \in {"official", "placeholder"}
  PROVE  Recorded(s, name) \in Row
  <1>1. CASE rows[s] = NoRow
    BY <1>1, ListingsAssumption DEF Recorded, Row
  <1>2. CASE rows[s] # NoRow
    <2>1. rows[s] \in Row
      BY <1>2 DEF TypeOK
    <2>2. (Venue[s] \in PrimaryExchanges) \in BOOLEAN
      OBVIOUS
    <2> QED
      BY <1>2, <2>1, <2>2 DEF Recorded, Row
  <1> QED
    BY <1>1, <1>2

\* The version of a store is the newest one on record.
LEMMA VersionNewest ==
  ASSUME stamped \subseteq 1 .. 9
  PROVE  /\ Version \in 0 .. 9
         /\ stamped # {} => Version \in stamped
  <1>1. CASE stamped = {}
    BY <1>1 DEF Version
  <1>2. CASE stamped # {}
    <2>1. \E v \in stamped : \A w \in stamped : w <= v
      <3> SUFFICES ASSUME \A v \in stamped : \E w \in stamped : w > v
                   PROVE  FALSE
        OBVIOUS
      <3>1. 9 \notin stamped  OBVIOUS
      <3>2. 8 \notin stamped  BY <3>1
      <3>3. 7 \notin stamped  BY <3>1, <3>2
      <3>4. 6 \notin stamped  BY <3>1, <3>2, <3>3
      <3>5. 5 \notin stamped  BY <3>1, <3>2, <3>3, <3>4
      <3>6. 4 \notin stamped  BY <3>1, <3>2, <3>3, <3>4, <3>5
      <3>7. 3 \notin stamped  BY <3>1, <3>2, <3>3, <3>4, <3>5, <3>6
      <3>8. 2 \notin stamped  BY <3>1, <3>2, <3>3, <3>4, <3>5, <3>6, <3>7
      <3>9. \A v \in stamped : v = 1
        BY <3>1, <3>2, <3>3, <3>4, <3>5, <3>6, <3>7, <3>8
      <3>10. PICK v \in stamped : TRUE
        BY <1>2
      <3>11. PICK w \in stamped : w > v
        OBVIOUS
      <3> QED
        BY <3>9, <3>10, <3>11
    <2>2. Version \in stamped
      BY <1>2, <2>1 DEF Version
    <2> QED
      BY <2>2
  <1> QED
    BY <1>1, <1>2

-----------------------------------------------------------------------------
(* Types.                                                                  *)

\* A terminal that migrates is at a statement of a version, or past the last.
AtStatement ==
  \A p \in Procs : pc[p] = "migrate" =>
    /\ job[p].version \in 1 .. SchemaVersion
    /\ job[p].at \in 1 .. Len(Migrations[job[p].version]) + 1

\* A call is spent for an item of a plan or for the symbol to be verified.
SpendsFor ==
  \A p \in Procs : pc[p] \in {"test", "read", "write", "call"} => job[p].left > 0 \/ job[p].sym \in Listings

Typed == TypeOK /\ AtStatement /\ SpendsFor

\* What a step of a terminal must leave for the types to hold: its own place
\* and locals are typed, the others' are as they were.
Moved(p) ==
  /\ pc' = [pc EXCEPT ![p] = pc'[p]] /\ pc'[p] \in Places
  /\ job' = [job EXCEPT ![p] = job'[p]] /\ job'[p] \in Job
  /\ pc'[p] \in {"gate", "admit", "commit", "remove"} => job'[p].sym \in Listings
  /\ pc'[p] \in {"test", "read", "write", "call"} => job'[p].left > 0 \/ job'[p].sym \in Listings
  /\ pc'[p] = "migrate" => /\ job'[p].version \in 1 .. SchemaVersion
                           /\ job'[p].at \in 1 .. Len(Migrations[job'[p].version]) + 1

LEMMA JobsTyped ==
  NoJob \in Job /\ [NoJob EXCEPT !.front = "repl"] \in Job
  <1>1. 0 \in 0 .. SchemaVersion + 1 /\ 0 \in 0 .. MaxDay /\ 0 \in 0 .. MaxItems /\ 0 \in Nat /\ 1 \in Nat
    BY MigrationsTyped, BoundAssumption
  <1> QED
    BY <1>1 DEF NoJob, Job

\* A command that is over, and a process that ends, leave typed locals.
LEMMA DoneMoves ==
  ASSUME TypeOK, NEW p \in Procs, Done(p) \/ Dies(p)
  PROVE  Moved(p) /\ pc'[p] \in {"shell", "ready"}
  <1>1. [NoJob EXCEPT !.front = "repl"] \in Job /\ NoJob \in Job
    BY JobsTyped
  <1>2. CASE Done(p)
    BY <1>1, <1>2 DEF Done, Goto, Local, Moved, TypeOK, Places
  <1>3. CASE Dies(p)
    BY <1>1, <1>3 DEF Dies, Goto, Local, Moved, TypeOK, Places
  <1> QED
    BY <1>2, <1>3

\* The next item of a sync keeps the locals typed.
LEMMA ItemMoves ==
  ASSUME Typed, NEW p \in Procs, pc[p] \in {"test", "call"}, NextItem(p)
  PROVE  Moved(p) /\ pc'[p] \in {"shell", "ready", "test"}
  <1>1. CASE job[p].left > 1
    <2> DEFINE rest == [job[p] EXCEPT !.left = job[p].left - 1]
    <2>1. job[p] \in Job
      BY DEF Typed, TypeOK
    <2>2. job[p].left - 1 \in 0 .. MaxItems /\ job[p].left - 1 > 0
      BY <1>1, <2>1, BoundAssumption DEF Job
    <2>3. rest \in Job /\ rest.left > 0
      BY <2>1, <2>2 DEF Job
    <2>4. pc' = [pc EXCEPT ![p] = "test"] /\ job' = [job EXCEPT ![p] = rest]
      BY <1>1 DEF NextItem, Goto, Local
    <2> QED
      BY <2>3, <2>4 DEF Moved, Typed, TypeOK, Places
  <1>2. CASE ~(job[p].left > 1)
    BY <1>2, DoneMoves DEF NextItem, Typed
  <1> QED
    BY <1>1, <1>2

StoreTyped ==
  /\ today \in Days /\ applied \subseteq Statements /\ stamped \subseteq 1 .. SchemaVersion
  /\ rows \in [Listings -> Row \union {NoRow}]
  /\ watch \in [Listings -> {"absent", "active", "removed"}]
  /\ queue \subseteq Listings \X Days
  /\ budget \in [calls : Nat, date : 0 .. MaxDay]
  /\ commands \in Nat /\ kills \in Nat

\* A typed move of one terminal keeps every terminal's types.
LEMMA MovedTyped ==
  ASSUME Typed, NEW p \in Procs, Moved(p), StoreTyped'
  PROVE  Typed'
  <1>1. pc' \in [Procs -> Places] /\ job' \in [Procs -> Job]
    BY DEF Moved, Typed, TypeOK
  <1>2. \A q \in Procs : q # p => pc'[q] = pc[q] /\ job'[q] = job[q]
    BY DEF Moved, Typed, TypeOK
  <1>3. \A q \in Procs : pc'[q] \in {"gate", "admit", "commit", "remove"} => job'[q].sym \in Listings
    BY <1>2 DEF Moved, Typed, TypeOK
  <1>4. TypeOK'
    BY <1>1, <1>3 DEF StoreTyped, TypeOK
  <1>5. AtStatement'
    BY <1>2 DEF Moved, Typed, AtStatement, Migrations
  <1>6. SpendsFor'
    BY <1>2 DEF Moved, Typed, SpendsFor
  <1> QED
    BY <1>4, <1>5, <1>6 DEF Typed

\* Opening: the locals of a process, and the version it starts from.
LEMMA OpenTyped ==
  ASSUME Typed, NEW p \in Procs, Open(p)
  PROVE  Moved(p) /\ StoreTyped'
  <1>1. PICK front \in {"cli", "repl"} : job' = [job EXCEPT ![p] = [NoJob EXCEPT !.front = front, !.version = Version + 1]]
    BY DEF Open, Local
  <1>2. Version \in 0 .. 9
    BY VersionNewest, LengthsTyped DEF Typed, TypeOK
  <1> DEFINE j == [NoJob EXCEPT !.front = front, !.version = Version + 1]
  <1>3. j \in Job /\ j.version = Version + 1 /\ j.at = 1
    <2>1. Version + 1 \in 0 .. SchemaVersion + 1
      BY <1>2, LengthsTyped
    <2>2. j.version = Version + 1 /\ j.at = 1
      BY DEF NoJob
    <2>3. \A k \in Job : \A n \in 0 .. SchemaVersion + 1 : [k EXCEPT !.front = front, !.version = n] \in Job
      BY DEF Job
    <2>4. NoJob \in Job
      BY JobsTyped
    <2>5. j \in Job
      BY <2>1, <2>3, <2>4
    <2> QED
      BY <2>2, <2>5
  <1>4. Version # SchemaVersion => Version + 1 \in 1 .. SchemaVersion /\ 1 \in 1 .. Len(Migrations[Version + 1]) + 1
    <2>1. ASSUME Version # SchemaVersion
          PROVE  Version + 1 \in 1 .. SchemaVersion
      BY <1>2, <2>1, LengthsTyped
    <2> QED
      BY <2>1, LengthsTyped
  <1>5. pc' = [pc EXCEPT ![p] = IF Version = SchemaVersion THEN "seed" ELSE "migrate"]
    BY DEF Open, Goto
  <1>6. job'[p] = j /\ pc'[p] \in {"seed", "migrate"} /\ (pc'[p] = "migrate" => Version # SchemaVersion)
    BY <1>1, <1>5 DEF Typed, TypeOK
  <1>7. Moved(p)
    BY <1>1, <1>3, <1>4, <1>5, <1>6 DEF Moved, Places
  <1> QED
    BY <1>7 DEF Open, store, StoreTyped, Typed, TypeOK

\* A statement that ran, or failed.
LEMMA StatementTyped ==
  ASSUME Typed, NEW p \in Procs, Statement(p)
  PROVE  Moved(p) /\ StoreTyped'
  <1> DEFINE v == job[p].version
             i == job[p].at
  <1>0. job[p] \in Job /\ pc[p] = "migrate" /\ i <= Len(Migrations[v])
    BY DEF Typed, Statement, TypeOK
  <1>2a. v \in 1 .. SchemaVersion /\ i \in 1 .. Len(Migrations[v]) + 1
    BY <1>0 DEF Typed, AtStatement
  <1>3a. Len(Migrations[v]) \in Nat
    BY <1>2a, LengthsTyped
  <1>1. v \in 1 .. SchemaVersion /\ i \in 1 .. Len(Migrations[v]) /\ Len(Migrations[v]) \in Nat /\ job[p] \in Job
    BY <1>0, <1>2a, <1>3a
  <1>2. CASE Migrations[v][i] = "ddl" /\ <<v, i>> \in applied
    <2>1. Dies(p) /\ UNCHANGED <<applied, rows>>
      BY <1>2 DEF Statement
    <2> QED
      BY <2>1, DoneMoves DEF Statement, StoreTyped, Typed, TypeOK
  <1>3. CASE ~(Migrations[v][i] = "ddl" /\ <<v, i>> \in applied)
    <2>1. /\ applied' = applied \union {<<v, i>>}
          /\ rows' = Effect(Migrations[v][i], rows)
          /\ job' = [job EXCEPT ![p] = [job[p] EXCEPT !.at = i + 1]]
          /\ pc' = pc /\ pc[p] = "migrate"
      BY <1>3 DEF Statement, Local
    <2>2. <<v, i>> \in Statements
      BY <1>1 DEF Statements
    <2>3. rows' \in [Listings -> Row \union {NoRow}]
      BY <2>1, EffectTyped DEF Typed, TypeOK
    <2>4. StoreTyped'
      BY <2>1, <2>2, <2>3 DEF Statement, StoreTyped, Typed, TypeOK
    <2> DEFINE j == [job[p] EXCEPT !.at = i + 1]
    <2>5. i + 1 \in 1 .. Len(Migrations[v]) + 1 /\ i + 1 \in Nat
      BY <1>1
    <2>6. j \in Job /\ j.at = i + 1 /\ j.version = v
      BY <1>1, <2>5 DEF Job
    <2>7. job'[p] = j /\ job' = [job EXCEPT ![p] = j] /\ pc' = [pc EXCEPT ![p] = "migrate"] /\ pc'[p] = "migrate"
      BY <2>1 DEF Typed, TypeOK
    <2> HIDE DEF j
    <2>8. Moved(p)
      BY <1>1, <2>5, <2>6, <2>7 DEF Moved, Places
    <2> QED
      BY <2>4, <2>8
  <1> QED
    BY <1>2, <1>3

\* A version that is recorded, or was recorded by another process.
LEMMA StampTyped ==
  ASSUME Typed, NEW p \in Procs, Stamp(p)
  PROVE  Moved(p) /\ StoreTyped'
  <1> DEFINE v == job[p].version
  <1>1. v \in 1 .. SchemaVersion /\ job[p] \in Job
    BY DEF Typed, AtStatement, Stamp, TypeOK
  <1>2. CASE v \in stamped
    <2>1. Dies(p) /\ UNCHANGED stamped
      BY <1>2 DEF Stamp
    <2> QED
      BY <2>1, DoneMoves DEF Stamp, StoreTyped, Typed, TypeOK
  <1>3. CASE v \notin stamped
    <2> DEFINE j == [job[p] EXCEPT !.version = v + 1, !.at = 1]
               place == IF v = SchemaVersion THEN "seed" ELSE "migrate"
    <2>1. stamped' = stamped \union {v} /\ job' = [job EXCEPT ![p] = j] /\ pc' = [pc EXCEPT ![p] = place]
      BY <1>3 DEF Stamp, Stamped, Goto, Local
    <2>a. stamped' \subseteq 1 .. SchemaVersion
      BY <1>1, <2>1 DEF Typed, TypeOK
    <2>b. UNCHANGED <<today, applied, rows, watch, queue, budget, commands, kills>>
      BY DEF Stamp
    <2>2. StoreTyped'
      BY <2>a, <2>b DEF StoreTyped, Typed, TypeOK
    <2>c. SchemaVersion = 9
      BY LengthsTyped
    <2>3. v + 1 \in 0 .. SchemaVersion + 1 /\ (v # SchemaVersion => v + 1 \in 1 .. SchemaVersion)
      BY <1>1, <2>c
    <2>4. j \in Job /\ j.version = v + 1 /\ j.at = 1
      BY <1>1, <2>3 DEF Job
    <2>5. v # SchemaVersion => 1 \in 1 .. Len(Migrations[v + 1]) + 1
      BY <2>3, LengthsTyped
    <2>6. job'[p] = j /\ pc'[p] = place /\ place \in {"seed", "migrate"} /\ (place = "migrate" => v # SchemaVersion)
      BY <2>1 DEF Typed, TypeOK
    <2> HIDE DEF j, place
    <2>7. Moved(p)
      BY <2>1, <2>3, <2>4, <2>5, <2>6 DEF Moved, Places
    <2> QED
      BY <2>2, <2>7
  <1> QED
    BY <1>2, <1>3

\* Choosing a command writes only the locals.
LEMMA CommandTyped ==
  ASSUME Typed, NEW p \in Procs, Search(p) \/ Verify(p) \/ Sync(p) \/ Propose(p) \/ Remove(p)
  PROVE  Moved(p) /\ StoreTyped' /\ pc[p] = "ready" /\ pc'[p] # "migrate"
  <1>1. pc[p] = "ready" /\ commands' = commands + 1 /\ job[p] \in Job
    BY DEF Search, Verify, Sync, Propose, Remove, Command, Typed, TypeOK
  <1>u. UNCHANGED <<today, store, kills>>
    BY DEF Search, Verify, Sync, Propose, Remove
  <1>2. StoreTyped'
    BY <1>1, <1>u DEF store, StoreTyped, Typed, TypeOK
  <1>3. CASE Search(p)
    <2>1. PICK found \in {{s} : s \in Seeds} \union Answers :
            job' = [job EXCEPT ![p] = [job[p] EXCEPT !.found = found, !.todo = found]]
      BY <1>3 DEF Search, Local
    <2>2. found \subseteq Listings
      BY ListingsAssumption
    <2>3. [job[p] EXCEPT !.found = found, !.todo = found] \in Job
      BY <1>1, <2>2 DEF Job
    <2>4. pc' = [pc EXCEPT ![p] = "record"]
      BY <1>3 DEF Search, Goto
    <2> QED
      BY <1>1, <1>2, <2>1, <2>3, <2>4 DEF Moved, Typed, TypeOK, Places
  <1>4. CASE Verify(p)
    <2>1. PICK s \in Listings : job' = [job EXCEPT ![p] = [job[p] EXCEPT !.sym = s, !.cost = 1]]
      BY <1>4 DEF Verify, Local
    <2> DEFINE j == [job[p] EXCEPT !.sym = s, !.cost = 1]
    <2>2. j \in Job /\ j.sym = s
      BY <1>1 DEF Job
    <2>3. pc' = [pc EXCEPT ![p] = "test"]
      BY <1>4 DEF Verify, Goto
    <2> QED
      BY <1>1, <1>2, <2>1, <2>2, <2>3 DEF Moved, Typed, TypeOK, Places
  <1>5. CASE Sync(p)
    <2>1. PICK n \in 1 .. MaxItems, cost \in {1, FundCost} :
            job' = [job EXCEPT ![p] = [job[p] EXCEPT !.left = n, !.cost = cost]]
      BY <1>5 DEF Sync, Local
    <2> DEFINE j == [job[p] EXCEPT !.left = n, !.cost = cost]
    <2>2. n \in 0 .. MaxItems /\ n > 0 /\ cost \in Nat
      BY BoundAssumption
    <2>3. j \in Job /\ j.left > 0
      BY <1>1, <2>2 DEF Job
    <2>4. pc' = [pc EXCEPT ![p] = "test"]
      BY <1>5 DEF Sync, Goto
    <2> QED
      BY <1>1, <1>2, <2>1, <2>3, <2>4 DEF Moved, Typed, TypeOK, Places
  <1>6. CASE Propose(p)
    <2>1. PICK s \in Listings : job' = [job EXCEPT ![p] = [job[p] EXCEPT !.sym = s]]
      BY <1>6 DEF Propose, Local
    <2> DEFINE j == [job[p] EXCEPT !.sym = s]
    <2>2. j \in Job /\ j.sym = s
      BY <1>1 DEF Job
    <2>3. pc' = [pc EXCEPT ![p] = "gate"]
      BY <1>6 DEF Propose, Goto
    <2> QED
      BY <1>1, <1>2, <2>1, <2>2, <2>3 DEF Moved, Typed, TypeOK, Places
  <1>7. CASE Remove(p)
    <2>1. PICK s \in Listings :
            \/ pc' = [pc EXCEPT ![p] = "remove"] /\ job' = [job EXCEPT ![p] = [job[p] EXCEPT !.sym = s]]
            \/ Done(p)
      BY <1>7 DEF Remove, Goto, Local
    <2> DEFINE j == [job[p] EXCEPT !.sym = s]
    <2>2. j \in Job /\ j.sym = s
      BY <1>1 DEF Job
    <2>3. CASE Done(p)
      BY <1>1, <1>2, <2>3, DoneMoves DEF Typed
    <2>4. CASE pc' = [pc EXCEPT ![p] = "remove"] /\ job' = [job EXCEPT ![p] = j]
      BY <1>1, <1>2, <2>2, <2>4 DEF Moved, Typed, TypeOK, Places
    <2> QED
      BY <2>1, <2>3, <2>4
  <1> QED
    BY <1>3, <1>4, <1>5, <1>6, <1>7

\* Recording, choosing and adding.
LEMMA AddTyped ==
  ASSUME Typed, NEW p \in Procs,
         Record(p) \/ Choose(p) \/ Gate(p) \/ Admit(p) \/ Commit(p) \/ DropSymbol(p)
  PROVE  Moved(p) /\ StoreTyped' /\ pc[p] \notin {"shell", "migrate"} /\ pc'[p] # "migrate"
  <1>1. job[p] \in Job
    BY DEF Typed, TypeOK
  <1>2. CASE Record(p)
    <2>1. PICK s \in job[p].todo :
            /\ rows' = [rows EXCEPT ![s] = Recorded(s, job[p].name)]
            /\ job' = [job EXCEPT ![p] = [job[p] EXCEPT !.todo = job[p].todo \ {s}]]
            /\ pc' = [pc EXCEPT ![p] = IF job[p].todo = {s} THEN "choose" ELSE "record"]
      BY <1>2 DEF Record, Goto, Local
    <2>2. s \in Listings /\ job[p].name \in {"official", "placeholder"} /\ job[p].todo \ {s} \subseteq Listings
      BY <1>1 DEF Job
    <2>3. Recorded(s, job[p].name) \in Row
      BY <2>2, RecordedTyped DEF Typed
    <2>4. StoreTyped'
      BY <1>2, <2>1, <2>3 DEF Record, StoreTyped, Typed, TypeOK
    <2>5. [job[p] EXCEPT !.todo = job[p].todo \ {s}] \in Job
      BY <1>1, <2>2 DEF Job
    <2> QED
      BY <1>2, <2>1, <2>4, <2>5 DEF Record, Moved, Typed, TypeOK, Places
  <1>3. CASE Choose(p)
    <2>1. StoreTyped' /\ pc[p] = "choose"
      BY <1>3 DEF Choose, store, StoreTyped, Typed, TypeOK
    <2>2. CASE Done(p)
      BY <2>1, <2>2, DoneMoves DEF Typed
    <2>3. CASE \E s \in Selectable(job[p].found) :
                 pc' = [pc EXCEPT ![p] = "gate"] /\ job' = [job EXCEPT ![p] = [job[p] EXCEPT !.sym = s, !.found = {}]]
      <3>1. PICK s \in Selectable(job[p].found) :
              pc' = [pc EXCEPT ![p] = "gate"] /\ job' = [job EXCEPT ![p] = [job[p] EXCEPT !.sym = s, !.found = {}]]
        BY <2>3
      <3>2. s \in Listings
        BY <1>1 DEF Job, Selectable
      <3> DEFINE j == [job[p] EXCEPT !.sym = s, !.found = {}]
      <3>3. j \in Job /\ j.sym = s
        BY <1>1, <3>2 DEF Job
      <3> QED
        BY <2>1, <3>1, <3>2, <3>3 DEF Moved, Typed, TypeOK, Places
    <2> QED
      BY <1>3, <2>2, <2>3 DEF Choose, Goto, Local
  <1>4. CASE Gate(p)
    <2>1. StoreTyped' /\ pc[p] = "gate" /\ job[p].sym \in Listings
      BY <1>4 DEF Gate, store, StoreTyped, Typed, TypeOK
    <2>2. CASE Done(p)
      BY <2>1, <2>2, DoneMoves DEF Typed
    <2> DEFINE full == Cardinality(Active) >= ActiveCap
               j == [job[p] EXCEPT !.full = full]
    <2>3. CASE pc' = [pc EXCEPT ![p] = "admit"] /\ job' = [job EXCEPT ![p] = j]
      <3>1. full \in BOOLEAN
        OBVIOUS
      <3> HIDE DEF full
      <3>2. j \in Job /\ j.sym = job[p].sym
        BY <1>1, <3>1 DEF Job
      <3> QED
        BY <2>1, <2>3, <3>2 DEF Moved, Typed, TypeOK, Places
    <2> QED
      BY <1>4, <2>2, <2>3 DEF Gate, Goto, Local
  <1>5. CASE Admit(p)
    <2>1. StoreTyped' /\ pc[p] = "admit" /\ job[p].sym \in Listings
      BY <1>5 DEF Admit, store, StoreTyped, Typed, TypeOK
    <2>2. CASE Done(p)
      BY <2>1, <2>2, DoneMoves DEF Typed
    <2>3. CASE pc' = [pc EXCEPT ![p] = "commit"] /\ job' = job
      <3>1. job' = [job EXCEPT ![p] = job[p]]
        BY <2>3 DEF Typed, TypeOK
      <3> QED
        BY <1>1, <2>1, <2>3, <3>1 DEF Moved, Typed, TypeOK, Places
    <2> QED
      BY <1>5, <2>2, <2>3 DEF Admit, Goto
  <1>6. CASE Commit(p) \/ DropSymbol(p)
    <2>1. Done(p) /\ pc[p] \in {"commit", "remove"} /\ job[p].sym \in Listings
      BY <1>6 DEF Commit, DropSymbol, Typed, TypeOK
    <2>2. watch' \in [Listings -> {"absent", "active", "removed"}]
      BY <1>6, <2>1 DEF Commit, DropSymbol, Typed, TypeOK
    <2>3. queue' \subseteq Listings \X Days
      BY <1>6, <2>1 DEF Commit, DropSymbol, Typed, TypeOK
    <2>4. UNCHANGED <<today, applied, stamped, rows, budget, commands, kills>>
      BY <1>6 DEF Commit, DropSymbol
    <2>5. StoreTyped'
      BY <2>2, <2>3, <2>4 DEF StoreTyped, Typed, TypeOK
    <2> QED
      BY <2>1, <2>5, DoneMoves DEF Typed
  <1> QED
    BY <1>2, <1>3, <1>4, <1>5, <1>6

\* Spending.
LEMMA SpendTyped ==
  ASSUME Typed, NEW p \in Procs, Test(p) \/ Read(p) \/ Write(p) \/ Call(p)
  PROVE  Moved(p) /\ StoreTyped' /\ pc[p] \notin {"shell", "migrate"} /\ pc'[p] # "migrate"
  <1>1. job[p] \in Job /\ (job[p].left > 0 \/ job[p].sym \in Listings)
    BY DEF Typed, TypeOK, SpendsFor, Test, Read, Write, Call
  <1>2. Used \in Nat
    BY DEF Used, Typed, TypeOK
  <1>3. CASE Test(p)
    <2>1. pc[p] = "test" /\ UNCHANGED <<today, store, commands, kills>>
      BY <1>3 DEF Test
    <2>2. StoreTyped'
      BY <2>1 DEF store, StoreTyped, Typed, TypeOK
    <2>3. CASE NextItem(p)
      BY <2>1, <2>2, <2>3, ItemMoves
    <2>4. CASE pc' = [pc EXCEPT ![p] = "read"] /\ job' = job
      <3>1. job' = [job EXCEPT ![p] = job[p]]
        BY <2>4 DEF Typed, TypeOK
      <3> QED
        BY <1>1, <2>1, <2>2, <2>4, <3>1 DEF Moved, Typed, TypeOK, Places
    <2> QED
      BY <1>3, <2>3, <2>4 DEF Test, Goto
  <1>4. CASE Read(p)
    <2> DEFINE j == [job[p] EXCEPT !.used = Used, !.date = today]
    <2>1. pc[p] = "read" /\ UNCHANGED <<today, store, commands, kills>>
      BY <1>4 DEF Read
    <2>2. StoreTyped'
      BY <2>1 DEF store, StoreTyped, Typed, TypeOK
    <2>3. today \in 0 .. MaxDay
      BY DEF Typed, TypeOK, Days
    <2>4. j \in Job /\ j.sym = job[p].sym /\ j.left = job[p].left
      BY <1>1, <1>2, <2>3 DEF Job
    <2>5. pc' = [pc EXCEPT ![p] = "write"] /\ job' = [job EXCEPT ![p] = j]
      BY <1>4 DEF Read, Goto, Local
    <2> HIDE DEF j
    <2> QED
      BY <1>1, <2>1, <2>2, <2>4, <2>5 DEF Moved, Typed, TypeOK, Places
  <1>5. CASE Write(p)
    <2>1. budget' = [calls |-> job[p].used + job[p].cost, date |-> job[p].date]
      BY <1>5 DEF Write
    <2>2. budget' \in [calls : Nat, date : 0 .. MaxDay]
      BY <1>1, <2>1 DEF Job
    <2>3. UNCHANGED <<today, applied, stamped, rows, watch, queue, commands, kills>> /\ pc[p] = "write"
      BY <1>5 DEF Write
    <2>4. StoreTyped'
      BY <2>2, <2>3 DEF StoreTyped, Typed, TypeOK
    <2>5. pc' = [pc EXCEPT ![p] = "call"] /\ job' = [job EXCEPT ![p] = job[p]]
      BY <1>5 DEF Write, Goto, Typed, TypeOK
    <2> QED
      BY <1>1, <2>3, <2>4, <2>5 DEF Moved, Typed, TypeOK, Places
  <1>6. CASE Call(p)
    <2>1. pc[p] = "call" /\ UNCHANGED <<today, store, commands, kills>>
      BY <1>6 DEF Call
    <2>2. StoreTyped'
      BY <2>1 DEF store, StoreTyped, Typed, TypeOK
    <2>3. CASE NextItem(p)
      BY <2>1, <2>2, <2>3, ItemMoves
    <2>4. CASE Done(p)
      BY <2>1, <2>2, <2>4, DoneMoves DEF Typed
    <2> DEFINE j == [job[p] EXCEPT !.found = {job[p].sym}, !.todo = {job[p].sym}, !.name = "placeholder"]
    <2>5. CASE job[p].left = 0 /\ pc' = [pc EXCEPT ![p] = "record"] /\ job' = [job EXCEPT ![p] = j]
      <3>1. job[p].sym \in Listings
        BY <1>1, <2>5
      <3>2. j \in Job
        BY <1>1, <3>1 DEF Job
      <3> HIDE DEF j
      <3> QED
        BY <2>1, <2>2, <2>5, <3>2 DEF Moved, Typed, TypeOK, Places
    <2> QED
      BY <1>6, <2>3, <2>4, <2>5 DEF Call, Goto, Local
  <1> QED
    BY <1>3, <1>4, <1>5, <1>6

\* The seeds, and the end of a process.
LEMMA OtherTyped ==
  ASSUME Typed, NEW p \in Procs, Seed(p) \/ Kill(p) \/ Leave(p)
  PROVE  Moved(p) /\ StoreTyped' /\ pc'[p] # "migrate"
  <1>1. CASE Seed(p)
    <2>1. SeedRow \in Row
      BY DEF SeedRow, Row, PrimaryExchanges
    <2>2. rows' \in [Listings -> Row \union {NoRow}]
      BY <1>1, <2>1 DEF Seed, Typed, TypeOK
    <2>3. StoreTyped'
      BY <1>1, <2>2 DEF Seed, StoreTyped, Typed, TypeOK
    <2> DEFINE j == [job[p] EXCEPT !.version = 0]
    <2>4. 0 \in 0 .. SchemaVersion + 1
      BY MigrationsTyped
    <2>5. job[p] \in Job
      BY DEF Typed, TypeOK
    <2>6. j \in Job
      BY <2>4, <2>5 DEF Job
    <2>7. pc' = [pc EXCEPT ![p] = "ready"] /\ job' = [job EXCEPT ![p] = j]
      BY <1>1 DEF Seed, Goto, Local
    <2> HIDE DEF j
    <2> QED
      BY <2>3, <2>6, <2>7 DEF Moved, Typed, TypeOK, Places
  <1>2. CASE Kill(p) \/ Leave(p)
    <2>1. Dies(p)
      BY <1>2 DEF Kill, Leave
    <2>2. UNCHANGED <<today, store, commands>> /\ (kills' = kills \/ kills' = kills + 1)
      BY <1>2 DEF Kill, Leave
    <2>3. StoreTyped'
      BY <2>2 DEF store, StoreTyped, Typed, TypeOK
    <2> QED
      BY <2>1, <2>3, DoneMoves DEF Typed
  <1> QED
    BY <1>1, <1>2

\* A step of a terminal moves it and keeps the store typed.
LEMMA StepMoves ==
  ASSUME Typed, NEW p \in Procs, Step(p)
  PROVE  Moved(p) /\ StoreTyped'
  BY OpenTyped, StatementTyped, StampTyped, CommandTyped, AddTyped, SpendTyped, OtherTyped DEF Step

LEMMA TypedInit == Init => Typed
  <1> SUFFICES ASSUME Init PROVE Typed
    OBVIOUS
  <1>1. pc = [p \in Procs |-> "shell"] /\ job = [p \in Procs |-> NoJob]
    BY DEF Init
  <1>2. AtStatement /\ SpendsFor
    BY <1>1 DEF AtStatement, SpendsFor
  <1>3. applied \subseteq Statements
    BY DEF Init
  <1>7. stamped \subseteq 1 .. SchemaVersion
    <2>1. 1 .. OldVersion \subseteq 1 .. SchemaVersion
      BY OldAssumption, MigrationsTyped
    <2>2. stamped = {} \/ stamped = 1 .. OldVersion
      BY DEF Init
    <2> QED
      BY <2>1, <2>2
  <1>4. rows \in [Listings -> Row \union {NoRow}] /\ watch \in [Listings -> {"absent", "active", "removed"}]
    BY OldAssumption DEF Init
  <1>5. today \in Days /\ queue = {} /\ budget \in [calls : Nat, date : 0 .. MaxDay] /\ commands = 0 /\ kills = 0
    BY BoundAssumption DEF Init, Days
  <1>6. pc \in [Procs -> Places] /\ job \in [Procs -> Job]
    BY <1>1, JobsTyped DEF Places
  <1> QED
    BY <1>1, <1>2, <1>3, <1>4, <1>5, <1>6, <1>7 DEF Typed, TypeOK

LEMMA TypedNext == Typed /\ [Next]_vars => Typed'
  <1> SUFFICES ASSUME Typed, [Next]_vars PROVE Typed'
    OBVIOUS
  <1>1. CASE Tick
    BY <1>1, BoundAssumption DEF Tick, store, Days, Typed, TypeOK, AtStatement, SpendsFor
  <1>2. ASSUME NEW p \in Procs, Step(p) PROVE Typed'
    BY <1>2, StepMoves, MovedTyped
  <1>3. CASE UNCHANGED vars
    BY <1>3 DEF vars, store, Typed, TypeOK, AtStatement, SpendsFor
  <1> QED
    BY <1>1, <1>2, <1>3 DEF Next

LEMMA TypedHolds == Spec => []Typed
  BY TypedInit, TypedNext, PTL DEF Spec

\* Every variable keeps its type, whatever the terminals do.
THEOREM TypeCorrect == Spec => []TypeOK
  <1>1. Typed => TypeOK
    BY DEF Typed
  <1> QED
    BY <1>1, TypedHolds, PTL

-----------------------------------------------------------------------------
(* Versions on record are complete.                                        *)

\* What a terminal that migrates has behind it.
Migrating ==
  \A p \in Procs : pc[p] = "migrate" =>
    /\ 1 .. job[p].version - 1 \subseteq stamped
    /\ \A i \in 1 .. job[p].at - 1 : <<job[p].version, i>> \in applied

Complete == StampedComplete /\ Migrating

\* The steps outside open_db leave versions and statements alone, and no
\* terminal gets past the migrations by them.
LEMMA CommandsKeepVersions ==
  ASSUME Typed, NEW p \in Procs, Step(p), ~Open(p), ~Statement(p), ~Stamp(p)
  PROVE  /\ UNCHANGED <<applied, stamped>> /\ pc'[p] # "migrate"
         /\ pc'[p] = "shell" \/ pc[p] \notin {"shell", "migrate"}
  <1>1. CASE Search(p) \/ Verify(p) \/ Sync(p) \/ Propose(p) \/ Remove(p)
    <2>1. UNCHANGED store
      BY <1>1 DEF Search, Verify, Sync, Propose, Remove
    <2> QED
      BY <1>1, <2>1, CommandTyped DEF store
  <1>2. CASE Record(p) \/ Choose(p) \/ Gate(p) \/ Admit(p) \/ Commit(p) \/ DropSymbol(p)
    <2>1. UNCHANGED <<applied, stamped>>
      BY <1>2 DEF Record, Choose, Gate, Admit, Commit, DropSymbol, store
    <2> QED
      BY <1>2, <2>1, AddTyped
  <1>3. CASE Test(p) \/ Read(p) \/ Write(p) \/ Call(p)
    <2>1. UNCHANGED <<applied, stamped>>
      BY <1>3 DEF Test, Read, Write, Call, store
    <2> QED
      BY <1>3, <2>1, SpendTyped
  <1>4. CASE Seed(p)
    <2>1. UNCHANGED <<applied, stamped>> /\ pc[p] = "seed"
      BY <1>4 DEF Seed
    <2> QED
      BY <1>4, <2>1, OtherTyped
  <1>5. CASE Kill(p) \/ Leave(p)
    <2>1. UNCHANGED <<applied, stamped>> /\ pc' = [pc EXCEPT ![p] = "shell"]
      BY <1>5 DEF Kill, Leave, Dies, Goto, store
    <2> QED
      BY <2>1 DEF Typed, TypeOK
  <1> QED
    BY <1>1, <1>2, <1>3, <1>4, <1>5 DEF Step

LEMMA CompleteInit == Init => Complete
  <1> SUFFICES ASSUME Init PROVE Complete
    OBVIOUS
  <1>1. pc = [p \in Procs |-> "shell"]
    BY DEF Init
  <1>2. CASE applied = {} /\ stamped = {}
    BY <1>1, <1>2 DEF Complete, StampedComplete, Migrating
  <1>3. CASE stamped = 1 .. OldVersion /\ applied = {st \in Statements : st[1] <= OldVersion}
    <2>1. \A st \in Statements : st[1] \in stamped => st \in applied
      BY <1>3, OldAssumption
    <2>2. \A v \in stamped : 1 .. v \subseteq stamped
      BY <1>3, OldAssumption
    <2> QED
      BY <1>1, <2>1, <2>2 DEF Complete, StampedComplete, Migrating
  <1> QED
    BY <1>2, <1>3 DEF Init

LEMMA CompleteStep ==
  ASSUME Typed, Complete, NEW p \in Procs, Step(p)
  PROVE  Complete'
  <1>1. Moved(p) /\ StoreTyped'
    BY StepMoves
  <1>2. \A q \in Procs : q # p => pc'[q] = pc[q] /\ job'[q] = job[q]
    BY <1>1 DEF Moved, Typed, TypeOK
  <1>3. SchemaVersion = 9 /\ stamped \subseteq 1 .. 9 /\ job[p] \in Job
    BY MigrationsTyped DEF Typed, TypeOK
  <1>4. CASE Open(p)
    <2>1. UNCHANGED <<applied, stamped>> /\ pc[p] = "shell"
      BY <1>4 DEF Open, store
    <2>2. Version \in 0 .. 9 /\ 1 .. Version \subseteq stamped
      <3>1. Version \in 0 .. 9 /\ (stamped # {} => Version \in stamped)
        BY <1>3, VersionNewest
      <3>2. CASE stamped = {}
        <4>1. Version = 0
          BY <3>2 DEF Version
        <4> QED
          BY <3>1, <4>1
      <3>3. CASE stamped # {}
        BY <3>1, <3>3 DEF Complete, StampedComplete
      <3> QED
        BY <3>2, <3>3, <3>1
    <2>3. PICK front \in {"cli", "repl"} : job' = [job EXCEPT ![p] = [NoJob EXCEPT !.front = front, !.version = Version + 1]]
      BY <1>4 DEF Open, Local
    <2>4. job'[p].version = Version + 1 /\ job'[p].at = 1
      BY <2>3 DEF Typed, TypeOK, NoJob
    <2>5. pc' = [pc EXCEPT ![p] = IF Version = SchemaVersion THEN "seed" ELSE "migrate"]
      BY <1>4 DEF Open, Goto
    <2>6. pc'[p] = "seed" => Version = 9
      BY <1>3, <2>5 DEF Typed, TypeOK
    <2>7. pc'[p] \in {"seed", "migrate"}
      BY <2>5 DEF Typed, TypeOK
    <2>8. Migrating'
      <3>1. 1 .. job'[p].version - 1 \subseteq stamped' /\ 1 .. job'[p].at - 1 = {}
        BY <2>1, <2>2, <2>4
      <3> QED
        BY <1>2, <2>1, <3>1 DEF Complete, Migrating
    <2>9. pc'[p] = "seed" => stamped' = 1 .. SchemaVersion
      BY <1>3, <2>1, <2>2, <2>6
    <2>10. StampedComplete'
      BY <1>2, <2>1, <2>7, <2>9 DEF Complete, StampedComplete
    <2> QED
      BY <2>8, <2>10 DEF Complete
  <1>5. CASE Statement(p)
    <2>1. stamped' = stamped /\ applied \subseteq applied' /\ pc[p] = "migrate"
      BY <1>5 DEF Statement
    <2>2. (StampedComplete' /\ Migrating') \/ pc'[p] # "shell"
      <3> SUFFICES ASSUME pc'[p] = "shell" PROVE StampedComplete' /\ Migrating'
        OBVIOUS
      <3>1. Migrating'
        BY <1>2, <2>1 DEF Complete, Migrating
      <3>2. StampedComplete'
        BY <1>2, <2>1 DEF Complete, StampedComplete
      <3> QED
        BY <3>1, <3>2
    <2>3. CASE pc'[p] # "shell"
      <3> DEFINE v == job[p].version
                 i == job[p].at
      <3>1. /\ applied' = applied \union {<<v, i>>}
            /\ job' = [job EXCEPT ![p] = [job[p] EXCEPT !.at = i + 1]]
            /\ pc' = pc
        BY <1>5, <2>3 DEF Statement, Dies, Goto, Local, Typed, TypeOK
      <3>2. job'[p].version = v /\ job'[p].at = i + 1 /\ i \in Nat
        BY <1>3, <3>1 DEF Typed, TypeOK, Job
      <3>3. \A k \in 1 .. i : <<v, k>> \in applied'
        BY <2>1, <3>1, <3>2 DEF Complete, Migrating
      <3>4. \A k \in 1 .. job'[p].at - 1 : <<job'[p].version, k>> \in applied'
        BY <3>2, <3>3
      <3>5. Migrating'
        BY <1>2, <2>1, <3>2, <3>4 DEF Complete, Migrating
      <3>6. StampedComplete'
        BY <2>1, <3>1 DEF Complete, StampedComplete
      <3> QED
        BY <3>5, <3>6 DEF Complete
    <2> QED
      BY <2>2, <2>3 DEF Complete
  <1>6. CASE Stamp(p)
    <2> DEFINE v == job[p].version
    <2>4. pc[p] = "migrate" /\ job[p].at > Len(Migrations[v]) /\ applied' = applied
      BY <1>6 DEF Stamp
    <2>5. v \in 1 .. SchemaVersion /\ job[p].at \in 1 .. Len(Migrations[v]) + 1
      BY <2>4 DEF Typed, AtStatement
    <2>6. Len(Migrations[v]) \in Nat
      BY <2>5, LengthsTyped
    <2>1. /\ pc[p] = "migrate" /\ job[p].at > Len(Migrations[v]) /\ applied' = applied
          /\ v \in 1 .. 9 /\ job[p].at \in 1 .. Len(Migrations[v]) + 1 /\ Len(Migrations[v]) \in Nat
      BY <1>3, <2>4, <2>5, <2>6
    <2>2. CASE v \in stamped
      <3>1. stamped' = stamped /\ pc' = [pc EXCEPT ![p] = "shell"]
        BY <1>6, <2>2 DEF Stamp, Dies, Goto
      <3>2. Migrating' /\ StampedComplete'
        BY <1>2, <2>1, <3>1 DEF Complete, Migrating, StampedComplete, Typed, TypeOK
      <3> QED
        BY <3>2 DEF Complete
    <2>3. CASE v \notin stamped
      <3>1. /\ stamped' = stamped \union {v}
            /\ job' = [job EXCEPT ![p] = [job[p] EXCEPT !.version = v + 1, !.at = 1]]
            /\ pc' = [pc EXCEPT ![p] = IF v = SchemaVersion THEN "seed" ELSE "migrate"]
        BY <1>6, <2>3 DEF Stamp, Stamped, Goto, Local
      <3>2. \A k \in 1 .. Len(Migrations[v]) : <<v, k>> \in applied
        <4>1. \A k \in 1 .. job[p].at - 1 : <<job[p].version, k>> \in applied
          BY <2>1 DEF Complete, Migrating
        <4>2. Len(Migrations[v]) <= job[p].at - 1 /\ Len(Migrations[v]) \in Int /\ job[p].at \in Int
          BY <2>1
        <4> QED
          BY <4>1, <4>2
      <3>3. 1 .. v \subseteq stamped'
        <4>1. 1 .. v - 1 \subseteq stamped
          BY <2>1 DEF Complete, Migrating
        <4>2. v \in 1 .. 9
          BY <2>1
        <4> HIDE DEF v
        <4>3. 1 .. v = (1 .. v - 1) \union {v}
          BY <4>2
        <4> QED
          BY <3>1, <4>1, <4>3
      <3>4. job'[p].version = v + 1 /\ job'[p].at = 1
        BY <1>3, <3>1 DEF Typed, TypeOK, Job
      <3>5. Migrating'
        <4>1. 1 .. job'[p].version - 1 \subseteq stamped' /\ 1 .. job'[p].at - 1 = {}
          <5>1. v \in 1 .. 9
            BY <2>1
          <5> HIDE DEF v
          <5>2. job'[p].version - 1 = v /\ job'[p].at - 1 = 0
            BY <3>4, <5>1
          <5>3. 1 .. 0 = {}
            OBVIOUS
          <5> QED
            BY <3>3, <5>2, <5>3
        <4>2. \A k \in 1 .. job'[p].at - 1 : <<job'[p].version, k>> \in applied'
          BY <4>1
        <4>3. ASSUME NEW q \in Procs, q # p, pc'[q] = "migrate"
              PROVE  /\ 1 .. job'[q].version - 1 \subseteq stamped'
                     /\ \A k \in 1 .. job'[q].at - 1 : <<job'[q].version, k>> \in applied'
          <5>1. pc[q] = "migrate" /\ job'[q] = job[q] /\ applied' = applied /\ stamped \subseteq stamped'
            BY <1>2, <2>1, <3>1, <4>3
          <5> QED
            BY <5>1 DEF Complete, Migrating
        <4> QED
          BY <4>1, <4>2, <4>3 DEF Migrating
      <3>6. pc'[p] \in {"seed", "migrate"} /\ (pc'[p] = "seed" => v = 9)
        BY <1>3, <3>1 DEF Typed, TypeOK
      <3>7. pc'[p] = "seed" => stamped' = 1 .. SchemaVersion
        BY <1>3, <2>1, <3>1, <3>3, <3>6
      <3>8. \A st \in Statements : st[1] \in stamped' => st \in applied'
        BY <2>1, <3>1, <3>2 DEF Complete, StampedComplete, Statements
      <3>9. \A w \in stamped' : 1 .. w \subseteq stamped'
        BY <3>1, <3>3 DEF Complete, StampedComplete
      <3>10. \A q \in Procs : pc'[q] \notin {"shell", "migrate"} => stamped' = 1 .. SchemaVersion
        BY <1>2, <1>3, <2>1, <3>1, <3>6, <3>7 DEF Complete, StampedComplete
      <3> QED
        BY <3>5, <3>8, <3>9, <3>10 DEF Complete, StampedComplete
    <2> QED
      BY <2>2, <2>3
  <1>7. CASE ~Open(p) /\ ~Statement(p) /\ ~Stamp(p)
    <2>1. /\ UNCHANGED <<applied, stamped>> /\ pc'[p] # "migrate"
          /\ pc'[p] = "shell" \/ pc[p] \notin {"shell", "migrate"}
      BY <1>7, CommandsKeepVersions
    <2>2. Migrating'
      BY <1>2, <2>1 DEF Complete, Migrating
    <2>3. StampedComplete'
      BY <1>2, <2>1 DEF Complete, StampedComplete
    <2> QED
      BY <2>2, <2>3 DEF Complete
  <1> QED
    BY <1>4, <1>5, <1>6, <1>7

LEMMA CompleteNext == Typed /\ Complete /\ [Next]_vars => Complete'
  <1> SUFFICES ASSUME Typed, Complete, [Next]_vars PROVE Complete'
    OBVIOUS
  <1>1. CASE Tick
    BY <1>1 DEF Tick, store, Complete, StampedComplete, Migrating
  <1>2. CASE UNCHANGED vars
    BY <1>2 DEF vars, store, Complete, StampedComplete, Migrating
  <1> QED
    BY <1>1, <1>2, CompleteStep DEF Next

LEMMA CompleteHolds == Spec => []Complete
  BY CompleteInit, CompleteNext, TypedHolds, PTL DEF Spec

\* A version on record is whole, and no command runs on an older store,
\* whichever processes migrate it at once and wherever they are killed.
THEOREM VersionsWhole == Spec => []StampedComplete
  <1>1. Complete => StampedComplete
    BY DEF Complete
  <1> QED
    BY <1>1, CompleteHolds, PTL

-----------------------------------------------------------------------------
(* What is on the watchlist.                                               *)

\* What add_verified judged a symbol to be.
Judged(s) == rows[s] # NoRow /\ ~rows[s].index /\ Venue[s] \in PrimaryExchanges

\* A row with a primary exchange is of a primary listing; and once version 6
\* demoted the others, so is every verified row.
VenuesTrue ==
  /\ \A s \in Listings : rows[s].exchange \in PrimaryExchanges => Venue[s] \in PrimaryExchanges
  /\ <<6, 3>> \in applied => \A s \in Listings : rows[s].verified => Venue[s] \in PrimaryExchanges

\* A symbol past the gate stays what the gate saw.
PastGate == \A p \in Procs : pc[p] \in {"admit", "commit"} => Judged(job[p].sym)

Scoped == VenuesTrue /\ PastGate /\ WatchInScope

\* A statement of a migration keeps the rows, their types of listing, and
\* their venues; the demotion leaves only primary rows verified.
LEMMA EffectScoped ==
  ASSUME Typed, VenuesTrue, NEW v \in 1 .. SchemaVersion, NEW i \in Nat,
         rows' = Effect(Migrations[v][i], rows), applied' = applied \union {<<v, i>>}
  PROVE  /\ VenuesTrue'
         /\ \A s \in Listings : Judged(s) => Judged(s)'
  <1> DEFINE kind == Migrations[v][i]
  <1>1. ASSUME NEW s \in Listings
        PROVE  /\ rows[s] # NoRow => rows'[s] # NoRow /\ rows'[s].index = rows[s].index
               /\ rows'[s].exchange \in PrimaryExchanges => Venue[s] \in PrimaryExchanges
               /\ rows'[s].verified /\ ~rows[s].verified => Venue[s] \in PrimaryExchanges
               /\ kind = "demote" /\ rows'[s].verified => Venue[s] \in PrimaryExchanges
    <2>1. rows[s] \in Row \union {NoRow}
      BY DEF Typed, TypeOK
    <2>2. CASE kind = "demote" /\ rows[s].exchange \notin PrimaryExchanges /\ rows[s] # NoRow
      <3>1. rows'[s] = [rows[s] EXCEPT !.verified = FALSE]
        BY <2>2 DEF Effect
      <3>2. rows[s] \in Row
        BY <2>1, <2>2
      <3>3. /\ rows'[s].verified = FALSE /\ rows'[s].index = rows[s].index
            /\ rows'[s].exchange = rows[s].exchange /\ rows'[s].exchange # "none"
        BY <3>1, <3>2 DEF Row, PrimaryExchanges
      <3> QED
        BY <3>3 DEF VenuesTrue, NoRow
    <2>3. CASE kind = "restore" /\ Venue[s] = "HK" /\ rows[s].exchange = "HKEX" /\ rows[s].name = "official"
      <3>1. rows'[s] = [rows[s] EXCEPT !.exchange = "HK", !.verified = TRUE]
        BY <2>3 DEF Effect
      <3>2. rows[s] \in Row
        BY <2>1, <2>3 DEF NoRow
      <3>3. rows'[s].index = rows[s].index /\ rows'[s].exchange = "HK"
        BY <3>1, <3>2 DEF Row
      <3>4. Venue[s] \in PrimaryExchanges
        BY <2>3 DEF PrimaryExchanges
      <3> QED
        BY <2>3, <3>3, <3>4 DEF NoRow
    <2>4. CASE /\ ~(kind = "demote" /\ rows[s].exchange \notin PrimaryExchanges /\ rows[s] # NoRow)
               /\ ~(kind = "restore" /\ Venue[s] = "HK" /\ rows[s].exchange = "HKEX" /\ rows[s].name = "official")
      <3>1. rows'[s] = rows[s]
        BY <2>4 DEF Effect
      <3>2. kind = "demote" /\ rows[s].verified => Venue[s] \in PrimaryExchanges
        BY <2>4 DEF VenuesTrue, NoRow
      <3> QED
        BY <3>1, <3>2 DEF VenuesTrue
    <2> QED
      BY <2>2, <2>3, <2>4
  <1>2. v = 6 /\ i = 3 => kind = "demote"
    BY DemotionPlace
  <1>3. <<6, 3>> \in applied' => <<6, 3>> \in applied \/ kind = "demote"
    BY <1>2
  <1>4. VenuesTrue'
    BY <1>1, <1>3 DEF VenuesTrue
  <1>5. \A s \in Listings : Judged(s) => Judged(s)'
    BY <1>1 DEF Judged
  <1> QED
    BY <1>4, <1>5

\* So does recording a resolution,
LEMMA RecordScoped ==
  ASSUME Typed, VenuesTrue, NEW p \in Procs, Record(p)
  PROVE  /\ VenuesTrue'
         /\ \A s \in Listings : Judged(s) => Judged(s)'
  <1>1. PICK t \in job[p].todo : rows' = [rows EXCEPT ![t] = Recorded(t, job[p].name)]
    BY DEF Record
  <1>2. t \in Listings /\ job[p].name \in {"official", "placeholder"}
    BY DEF Typed, TypeOK, Job
  <1>3. \A s \in Listings : s # t => rows'[s] = rows[s]
    BY <1>1 DEF Typed, TypeOK
  <1>4. rows'[t] = Recorded(t, job[p].name)
    BY <1>1, <1>2 DEF Typed, TypeOK
  <1>5. /\ rows'[t] # NoRow
        /\ rows'[t].verified => Venue[t] \in PrimaryExchanges
        /\ rows'[t].exchange \in PrimaryExchanges => Venue[t] \in PrimaryExchanges
        /\ rows[t] # NoRow => rows'[t].index = rows[t].index
    <2>1. CASE rows[t] = NoRow
      <3>1. rows'[t] = [verified |-> Venue[t] \in PrimaryExchanges, index |-> t \in IndexTyped,
                        exchange |-> Venue[t], name |-> job[p].name]
        BY <1>4, <2>1 DEF Recorded
      <3>2. Venue[t] \in PrimaryExchanges \union {"other"}
        BY <1>2, ListingsAssumption
      <3>3. rows'[t].exchange = Venue[t] /\ rows'[t].verified = (Venue[t] \in PrimaryExchanges)
        BY <3>1
      <3>4. Venue[t] # "none" /\ Venue[t] # "HKEX"
        BY <3>2 DEF PrimaryExchanges
      <3>5. rows'[t] # NoRow
        BY <3>3, <3>4 DEF NoRow
      <3>6. rows'[t].verified => Venue[t] \in PrimaryExchanges
        BY <3>3
      <3>7. rows'[t].exchange \in PrimaryExchanges => Venue[t] \in PrimaryExchanges
        BY <3>3, <3>4
      <3> QED
        BY <2>1, <3>5, <3>6, <3>7
    <2>2. CASE rows[t] # NoRow
      <3>1. rows[t] \in Row
        BY <1>2, <2>2 DEF Typed, TypeOK
      <3>2. rows'[t] = [rows[t] EXCEPT !.verified = Venue[t] \in PrimaryExchanges, !.name = job[p].name]
        BY <1>4, <2>2 DEF Recorded
      <3>a. rows'[t] \in Row
        BY <1>2, <1>4, RecordedTyped DEF Typed
      <3>b. /\ rows'[t].verified = (Venue[t] \in PrimaryExchanges)
            /\ rows'[t].exchange = rows[t].exchange /\ rows'[t].index = rows[t].index
        BY <3>1, <3>2 DEF Row
      <3>3. /\ rows'[t].verified = (Venue[t] \in PrimaryExchanges)
            /\ rows'[t].exchange = rows[t].exchange /\ rows'[t].index = rows[t].index /\ rows'[t] \in Row
        BY <3>a, <3>b
      <3>4. rows'[t] # NoRow
        BY <3>3 DEF Row, NoRow, PrimaryExchanges
      <3> QED
        BY <1>2, <3>3, <3>4 DEF VenuesTrue
    <2> QED
      BY <2>1, <2>2
  <1>6. applied' = applied
    BY DEF Record
  <1>7. VenuesTrue'
    BY <1>3, <1>5, <1>6 DEF VenuesTrue
  <1>8. \A s \in Listings : Judged(s) => Judged(s)'
    BY <1>3, <1>5 DEF Judged
  <1> QED
    BY <1>7, <1>8

\* and the seeds.
LEMMA SeedScoped ==
  ASSUME Typed, VenuesTrue, NEW p \in Procs, Seed(p)
  PROVE  /\ VenuesTrue'
         /\ \A s \in Listings : Judged(s) => Judged(s)'
  <1>1. applied' = applied /\ \A s \in Listings : rows'[s] = IF s \in Seeds /\ rows[s] = NoRow THEN SeedRow ELSE rows[s]
    BY DEF Seed
  <1>2. \A s \in Seeds : Venue[s] \in PrimaryExchanges
    BY ListingsAssumption DEF PrimaryExchanges
  <1>3. VenuesTrue'
    BY <1>1, <1>2 DEF VenuesTrue
  <1>4. \A s \in Listings : Judged(s) => Judged(s)'
    BY <1>1 DEF Judged
  <1> QED
    BY <1>3, <1>4

LEMMA ScopedInit == Init => Scoped
  <1> SUFFICES ASSUME Init PROVE Scoped
    OBVIOUS
  <1>1. PastGate /\ WatchInScope
    BY DEF Init, PastGate, WatchInScope
  <1>2. CASE applied = {} /\ rows = [s \in Listings |-> NoRow]
    BY <1>1, <1>2 DEF Scoped, VenuesTrue, NoRow, PrimaryExchanges
  <1>3. CASE applied = {st \in Statements : st[1] <= OldVersion} /\ rows = OldRows
    <2>1. <<6, 3>> \in applied => OldVersion >= 6
      BY <1>3, OldAssumption
    <2> QED
      BY <1>1, <1>3, <2>1, OldAssumption DEF Scoped, VenuesTrue
  <1> QED
    BY <1>2, <1>3 DEF Init

\* Only the gate lets a symbol in, and only the cap test lets it through.
LEMMA OnlyGateAdmits ==
  ASSUME Typed, NEW p \in Procs, Step(p), ~Gate(p), ~Admit(p)
  PROVE  pc'[p] \notin {"admit", "commit"}
  <1>1. ASSUME NEW place \in Places, pc' = [pc EXCEPT ![p] = place] PROVE pc'[p] = place
    BY <1>1 DEF Typed, TypeOK
  <1>2. Done(p) \/ Dies(p) => pc'[p] \in {"shell", "ready"}
    BY DoneMoves DEF Typed
  <1>3. CASE Open(p)
    BY <1>1, <1>3 DEF Open, Goto, Places
  <1>4. CASE Statement(p)
    BY <1>2, <1>4 DEF Statement
  <1>5. CASE Stamp(p)
    BY <1>1, <1>2, <1>5 DEF Stamp, Goto, Places
  <1>6. CASE Seed(p) \/ Search(p) \/ Verify(p) \/ Sync(p) \/ Propose(p) \/ Read(p) \/ Write(p)
    BY <1>1, <1>6 DEF Seed, Search, Verify, Sync, Propose, Read, Write, Goto, Places
  <1>7. CASE Remove(p) \/ Record(p) \/ Choose(p)
    BY <1>1, <1>2, <1>7 DEF Remove, Record, Choose, Goto, Places
  <1>8. CASE Test(p) \/ Call(p)
    BY <1>1, <1>2, <1>8, ItemMoves DEF Test, Call, Goto, Places
  <1>9. CASE Commit(p) \/ DropSymbol(p) \/ Kill(p) \/ Leave(p)
    BY <1>2, <1>9 DEF Commit, DropSymbol, Kill, Leave
  <1> QED
    BY <1>3, <1>4, <1>5, <1>6, <1>7, <1>8, <1>9 DEF Step

LEMMA ScopedStep ==
  ASSUME Typed, Complete, Scoped, NEW p \in Procs, Step(p)
  PROVE  Scoped'
  <1>1. \A q \in Procs : q # p => pc'[q] = pc[q] /\ job'[q] = job[q]
    BY StepMoves DEF Moved, Typed, TypeOK
  <1>2. \A q \in Procs : pc[q] \in {"admit", "commit"} => job[q].sym \in Listings
    BY DEF Typed, TypeOK
  <1>3. VenuesTrue' /\ \A s \in Listings : Judged(s) => Judged(s)'
    <2>1. CASE UNCHANGED <<rows, applied>>
      BY <2>1 DEF Scoped, VenuesTrue, Judged
    <2>2. CASE Statement(p)
      <3> DEFINE v == job[p].version
                 i == job[p].at
      <3>1. UNCHANGED <<rows, applied>> \/ (applied' = applied \union {<<v, i>>} /\ rows' = Effect(Migrations[v][i], rows))
        BY <2>2 DEF Statement
      <3>2. v \in 1 .. SchemaVersion /\ i \in Nat
        BY <2>2 DEF Statement, Typed, AtStatement, TypeOK, Job
      <3> QED
        BY <2>1, <3>1, <3>2, EffectScoped DEF Scoped
    <2>3. CASE Record(p)
      BY <2>3, RecordScoped DEF Scoped
    <2>4. CASE Seed(p)
      BY <2>4, SeedScoped DEF Scoped
    <2>5. CASE ~Statement(p) /\ ~Record(p) /\ ~Seed(p)
      <3>1. UNCHANGED <<rows, applied>>
        BY <2>5 DEF Step, store, Open, Stamp, Search, Verify, Sync, Propose, Remove, DropSymbol, Choose,
                    Gate, Admit, Commit, Test, Read, Write, Call, Kill, Leave
      <3> QED
        BY <2>1, <3>1
    <2> QED
      BY <2>2, <2>3, <2>4, <2>5
  <1>4. pc'[p] \in {"admit", "commit"} => Judged(job'[p].sym) /\ job'[p].sym \in Listings /\ UNCHANGED rows
    <2>1. CASE Gate(p) /\ pc'[p] \in {"admit", "commit"}
      <3>1. pc[p] = "gate" /\ UNCHANGED store
        BY <2>1 DEF Gate
      <3>2. ~Done(p)
        BY <2>1, DoneMoves DEF Typed
      <3>3. /\ rows[job[p].sym] # NoRow /\ rows[job[p].sym].verified /\ ~rows[job[p].sym].index
            /\ job' = [job EXCEPT ![p] = [job[p] EXCEPT !.full = Cardinality(Active) >= ActiveCap]]
        BY <2>1, <3>2 DEF Gate, Local
      <3>4. job'[p].sym = job[p].sym /\ job[p].sym \in Listings
        BY <3>1, <3>3 DEF Typed, TypeOK, Job
      <3>5. stamped = 1 .. 9
        BY <3>1, LengthsTyped DEF Complete, StampedComplete
      <3>6. <<6, 3>> \in Statements
        <4>1. 6 \in 1 .. SchemaVersion /\ 3 \in 1 .. Len(Migrations[6])
          BY LengthsTyped, DemotionPlace
        <4> QED
          BY <4>1 DEF Statements
      <3>7. <<6, 3>> \in applied
        BY <3>5, <3>6 DEF Complete, StampedComplete
      <3> QED
        BY <3>1, <3>3, <3>4, <3>7 DEF store, Scoped, VenuesTrue, Judged
    <2>2. CASE Admit(p) /\ pc'[p] \in {"admit", "commit"}
      <3>1. pc[p] = "admit" /\ UNCHANGED store
        BY <2>2 DEF Admit
      <3>2. ~Done(p)
        BY <2>2, DoneMoves DEF Typed
      <3>3. job' = job
        BY <2>2, <3>2 DEF Admit
      <3> QED
        BY <1>2, <3>1, <3>3 DEF store, Scoped, PastGate
    <2> QED
      BY <2>1, <2>2, OnlyGateAdmits
  <1>5. PastGate'
    <2> SUFFICES ASSUME NEW q \in Procs, pc'[q] \in {"admit", "commit"}
                 PROVE  Judged(job[q].sym)'
      BY DEF PastGate
    <2>1. CASE q = p
      BY <1>4, <2>1 DEF Judged
    <2>2. CASE q # p
      <3>1. pc[q] \in {"admit", "commit"} /\ job'[q] = job[q]
        BY <1>1, <2>2
      <3>2. Judged(job[q].sym) /\ job[q].sym \in Listings
        BY <1>2, <3>1 DEF Scoped, PastGate
      <3>3. PICK s \in Listings : s = job[q].sym
        BY <3>2
      <3>4. Judged(s)' /\ s = job'[q].sym
        BY <1>3, <3>1, <3>2, <3>3
      <3> QED
        BY <3>4 DEF Judged
    <2> QED
      BY <2>1, <2>2
  <1>6. WatchInScope'
    <2> SUFFICES ASSUME NEW s \in Listings, NEW d \in Days, <<s, d>> \in queue'
                 PROVE  Judged(s)'
      BY DEF WatchInScope, Judged
    <2>1. CASE <<s, d>> \in queue
      BY <1>3, <2>1 DEF Scoped, WatchInScope, Judged
    <2>2. CASE Commit(p)
      <3>1. <<s, d>> \in queue \/ s = job[p].sym
        BY <2>2 DEF Commit
      <3>2. Judged(job[p].sym)
        BY <2>2 DEF Commit, Scoped, PastGate
      <3> QED
        BY <1>3, <2>1, <3>1, <3>2
    <2>3. CASE ~Commit(p)
      <3>1. queue' = queue
        BY <2>3 DEF Step, store, Open, Statement, Stamp, Seed, Search, Verify, Sync, Propose, Remove, DropSymbol,
                    Record, Choose, Gate, Admit, Test, Read, Write, Call, Kill, Leave
      <3> QED
        BY <2>1, <3>1
    <2> QED
      BY <2>2, <2>3
  <1> QED
    BY <1>3, <1>5, <1>6 DEF Scoped

LEMMA ScopedNext == Typed /\ Complete /\ Scoped /\ [Next]_vars => Scoped'
  <1> SUFFICES ASSUME Typed, Complete, Scoped, [Next]_vars PROVE Scoped'
    OBVIOUS
  <1>1. CASE Tick
    BY <1>1 DEF Tick, store, Scoped, VenuesTrue, PastGate, WatchInScope, Judged
  <1>2. CASE UNCHANGED vars
    BY <1>2 DEF vars, store, Scoped, VenuesTrue, PastGate, WatchInScope, Judged
  <1> QED
    BY <1>1, <1>2, ScopedStep DEF Next

\* Only a symbol with a record, of a primary exchange and no index, is added
\* to the watchlist, whoever asked for it and whatever older builds verified.
THEOREM ScopeHolds == Spec => []WatchInScope
  <1>1. Scoped => WatchInScope
    BY DEF Scoped
  <1> QED
    BY <1>1, ScopedInit, ScopedNext, TypedHolds, CompleteHolds, PTL DEF Spec

-----------------------------------------------------------------------------
(* The cap of the watchlist.                                               *)

Committing == {p \in Procs : pc[p] = "commit"}
Undecided == {p \in Procs : pc[p] = "admit" /\ ~job[p].full}

\* A terminal that found the list not full is counted with the symbols until
\* it is decided; of those terminals one at least found room for its own.
RoomHonoured == Cardinality(Admitted) + Cardinality(Undecided) <= ActiveCap + Cardinality(Procs) - 1

LEMMA Finite ==
  ASSUME TypeOK
  PROVE  /\ IsFiniteSet(Admitted) /\ IsFiniteSet(Undecided) /\ IsFiniteSet(Committing) /\ IsFiniteSet(Active)
         /\ Cardinality(Admitted) \in Nat /\ Cardinality(Undecided) \in Nat /\ Cardinality(Procs) \in Nat
         /\ Cardinality(Committing) \in Nat /\ Cardinality(Active) \in Nat
  <1>1. Admitted \in SUBSET Listings /\ Active \in SUBSET Listings
    BY DEF TypeOK, Admitted, Active
  <1>2. Undecided \in SUBSET Procs /\ Committing \in SUBSET Procs
    BY DEF Undecided, Committing
  <1> QED
    BY <1>1, <1>2, ListingsAssumption, FS_Subset, FS_CardinalityType

\* The symbols found room for are no more than the terminals that found it.
LEMMA AdmittedBound ==
  ASSUME TypeOK
  PROVE  Cardinality(Admitted) <= Cardinality(Active) + Cardinality(Committing)
  <1> DEFINE image == {job[p].sym : p \in Committing}
             f == [p \in Committing |-> job[p].sym]
  <1>1. f \in Surjection(Committing, image)
    BY DEF Surjection
  <1>2. IsFiniteSet(image) /\ Cardinality(image) <= Cardinality(Committing) /\ Cardinality(image) \in Nat
    BY <1>1, Finite, FS_Surjection, FS_CardinalityType
  <1>3. Admitted = Active \union image
    BY DEF Admitted, Committing
  <1>4. Cardinality(Active \union image) = Cardinality(Active) + Cardinality(image) - Cardinality(Active \cap image)
    BY <1>2, Finite, FS_Union
  <1>5. Active \cap image \in SUBSET Active
    OBVIOUS
  <1>6. Cardinality(Active \cap image) \in Nat
    BY <1>5, Finite, FS_Subset, FS_CardinalityType
  <1> HIDE DEF image
  <1> QED
    BY <1>2, <1>3, <1>4, <1>6, Finite

\* Nothing new is counted when both sets shrink.
LEMMA RoomShrinks ==
  ASSUME TypeOK, RoomHonoured, TypeOK', Admitted' \subseteq Admitted, Undecided' \subseteq Undecided
  PROVE  RoomHonoured'
  <1>1. Cardinality(Admitted') <= Cardinality(Admitted) /\ Cardinality(Admitted') \in Nat
    BY Finite, FS_Subset, FS_CardinalityType
  <1>2. Cardinality(Undecided') <= Cardinality(Undecided) /\ Cardinality(Undecided') \in Nat
    BY Finite, FS_Subset, FS_CardinalityType
  <1> QED
    BY <1>1, <1>2, Finite, BoundAssumption DEF RoomHonoured

LEMMA RoomInit == Init => RoomHonoured
  <1> SUFFICES ASSUME Init PROVE RoomHonoured
    OBVIOUS
  <1>1. Undecided = {} /\ Admitted = Active
    BY DEF Init, Undecided, Admitted
  <1>2. Active = {} \/ Active = {s \in Listings : OldWatch[s] = "active"}
    BY DEF Init, Active
  <1>3. Cardinality(Active) <= ActiveCap
    <2>1. CASE Active = {}
      <3>1. Cardinality(Active) = 0
        BY <2>1, FS_EmptySet
      <3> QED
        BY <3>1, BoundAssumption
    <2>2. CASE Active = {s \in Listings : OldWatch[s] = "active"}
      BY <2>2, OldAssumption
    <2> QED
      BY <1>2, <2>1, <2>2
  <1>4. Cardinality(Procs) >= 1 /\ Cardinality(Procs) \in Nat
    BY ListingsAssumption, FS_EmptySet, FS_CardinalityType
  <1>5. Cardinality(Active) \in Nat /\ Cardinality(Undecided) = 0
    BY <1>1, TypedInit, Finite, FS_EmptySet DEF Typed
  <1> QED
    BY <1>1, <1>3, <1>4, <1>5, BoundAssumption DEF RoomHonoured

\* A terminal that finds room adds itself, while one place at least is free.
LEMMA GateRoom ==
  ASSUME Typed, Typed', RoomHonoured, NEW p \in Procs, Gate(p)
  PROVE  RoomHonoured'
  <1>1. watch' = watch /\ pc[p] = "gate" /\ Active' = Active
    BY DEF Gate, store, Active
  <1>2. \A q \in Procs : q # p => pc'[q] = pc[q] /\ job'[q] = job[q]
    BY StepMoves DEF Step, Moved, Typed, TypeOK
  <1>3. CASE Done(p)
    <2>1. pc'[p] \in {"shell", "ready"}
      BY <1>3, DoneMoves DEF Typed
    <2>2. Admitted' \subseteq Admitted /\ Undecided' \subseteq Undecided
      BY <1>1, <1>2, <2>1 DEF Admitted, Undecided
    <2> QED
      BY <2>2, RoomShrinks DEF Typed
  <1> DEFINE full == Cardinality(Active) >= ActiveCap
             j == [job[p] EXCEPT !.full = full]
  <1>4. CASE pc' = [pc EXCEPT ![p] = "admit"] /\ job' = [job EXCEPT ![p] = j]
    <2>1. pc'[p] = "admit" /\ job'[p].full = full
      BY <1>4 DEF Typed, TypeOK, Job
    <2>2. CASE full
      <3>1. Admitted' \subseteq Admitted /\ Undecided' \subseteq Undecided
        BY <1>1, <1>2, <2>1, <2>2 DEF Admitted, Undecided
      <3> QED
        BY <3>1, RoomShrinks DEF Typed
    <2>3. CASE ~full
      <3>1. Committing' = Committing /\ Admitted' = Admitted
        BY <1>1, <1>2, <2>1 DEF Committing, Admitted
      <3>2. Committing \union Undecided' \in SUBSET Procs /\ Undecided' \in SUBSET Procs /\ Committing \cap Undecided' = {}
        BY <3>1 DEF Committing, Undecided
      <3>3. IsFiniteSet(Undecided') /\ Cardinality(Committing \union Undecided') <= Cardinality(Procs)
        BY <3>2, ListingsAssumption, FS_Subset
      <3>4. Cardinality(Committing \union Undecided')
              = Cardinality(Committing) + Cardinality(Undecided') - Cardinality(Committing \cap Undecided')
        BY <3>3, Finite, FS_Union DEF Typed
      <3>5. Cardinality(Committing \cap Undecided') = 0
        BY <3>2, FS_EmptySet
      <3>6. Cardinality(Admitted) <= Cardinality(Active) + Cardinality(Committing)
        BY AdmittedBound DEF Typed
      <3>7. Cardinality(Undecided') \in Nat
        BY <3>3, FS_CardinalityType
      <3>8. Cardinality(Active) < ActiveCap
        BY <2>3, Finite, BoundAssumption DEF Typed
      <3>9. /\ Cardinality(Admitted) \in Nat /\ Cardinality(Active) \in Nat
            /\ Cardinality(Committing) \in Nat /\ Cardinality(Procs) \in Nat
        BY Finite DEF Typed
      <3> HIDE DEF full
      <3> QED
        BY <3>1, <3>3, <3>4, <3>5, <3>6, <3>7, <3>8, <3>9, BoundAssumption DEF RoomHonoured
    <2> QED
      BY <2>2, <2>3
  <1> QED
    BY <1>3, <1>4 DEF Gate, Goto, Local

\* What it found is used up, or given up.
LEMMA AdmitRoom ==
  ASSUME Typed, Typed', RoomHonoured, NEW p \in Procs, Admit(p)
  PROVE  RoomHonoured'
  <1>1. watch' = watch /\ pc[p] = "admit" /\ Active' = Active /\ job[p].sym \in Listings /\ job[p].full \in BOOLEAN
    BY DEF Admit, store, Active, Typed, TypeOK, Job
  <1>2. \A q \in Procs : q # p => pc'[q] = pc[q] /\ job'[q] = job[q]
    BY StepMoves DEF Step, Moved, Typed, TypeOK
  <1>3. CASE Done(p)
    <2>1. pc'[p] \in {"shell", "ready"}
      BY <1>3, DoneMoves DEF Typed
    <2>2. Admitted' \subseteq Admitted /\ Undecided' \subseteq Undecided
      BY <1>1, <1>2, <2>1 DEF Admitted, Undecided
    <2> QED
      BY <2>2, RoomShrinks DEF Typed
  <1>4. CASE ~Refused(p) /\ pc' = [pc EXCEPT ![p] = "commit"] /\ job' = job
    <2>1. pc'[p] = "commit" /\ job'[p] = job[p]
      BY <1>4 DEF Typed, TypeOK
    <2>2. Admitted' \subseteq Admitted \union {job[p].sym}
      BY <1>1, <1>2, <2>1 DEF Admitted
    <2>3. CASE job[p].full
      <3>1. job[p].sym \in Active
        BY <1>1, <1>4, <2>3 DEF Refused, Active
      <3>2. Admitted' \subseteq Admitted /\ Undecided' \subseteq Undecided
        BY <1>2, <2>1, <2>2, <3>1 DEF Admitted, Undecided
      <3> QED
        BY <3>2, RoomShrinks DEF Typed
    <2>4. CASE ~job[p].full
      <3>1. p \in Undecided /\ Undecided' \subseteq Undecided \ {p}
        BY <1>1, <1>2, <2>1, <2>4 DEF Undecided
      <3>2. Cardinality(Undecided \ {p}) = Cardinality(Undecided) - 1 /\ IsFiniteSet(Undecided \ {p})
        BY <3>1, Finite, FS_RemoveElement DEF Typed
      <3>3. Cardinality(Undecided') <= Cardinality(Undecided) - 1
        BY <3>1, <3>2, FS_Subset
      <3>4. /\ Cardinality(Admitted) \in Nat /\ Cardinality(Undecided) \in Nat /\ Cardinality(Procs) \in Nat
            /\ IsFiniteSet(Admitted)
        BY Finite DEF Typed
      <3>5. /\ IsFiniteSet(Admitted \union {job[p].sym})
            /\ \/ Cardinality(Admitted \union {job[p].sym}) = Cardinality(Admitted)
               \/ Cardinality(Admitted \union {job[p].sym}) = Cardinality(Admitted) + 1
        BY <3>4, FS_AddElement
      <3>6. /\ Cardinality(Admitted') <= Cardinality(Admitted \union {job[p].sym})
            /\ IsFiniteSet(Admitted') /\ IsFiniteSet(Undecided')
        BY <2>2, <3>1, <3>2, <3>5, FS_Subset
      <3>7. Cardinality(Admitted') \in Nat /\ Cardinality(Undecided') \in Nat
        BY <3>6, FS_CardinalityType
      <3> QED
        BY <3>3, <3>4, <3>5, <3>6, <3>7, BoundAssumption DEF RoomHonoured
    <2> QED
      BY <1>1, <2>3, <2>4
  <1> QED
    BY <1>3, <1>4 DEF Admit, Goto

\* Writing the row moves its symbol from the terminals to the list; all other
\* steps take away at most.
LEMMA OtherRoom ==
  ASSUME Typed, Typed', RoomHonoured, NEW p \in Procs, Step(p), ~Gate(p), ~Admit(p)
  PROVE  RoomHonoured'
  <1>1. pc'[p] \notin {"admit", "commit"}
    BY OnlyGateAdmits
  <1>2. \A q \in Procs : q # p => pc'[q] = pc[q] /\ job'[q] = job[q]
    BY StepMoves DEF Moved, Typed, TypeOK
  <1>3. Active' \subseteq Admitted
    <2>1. CASE Commit(p)
      <3>1. watch' = [watch EXCEPT ![job[p].sym] = "active"] /\ pc[p] = "commit"
        BY <2>1 DEF Commit
      <3> QED
        BY <3>1 DEF Active, Admitted, Typed, TypeOK
    <2>2. CASE DropSymbol(p)
      <3>1. watch' = [watch EXCEPT ![job[p].sym] = "removed"]
        BY <2>2 DEF DropSymbol
      <3> QED
        BY <3>1 DEF Active, Admitted, Typed, TypeOK
    <2>3. CASE ~Commit(p) /\ ~DropSymbol(p)
      <3>1. watch' = watch
        BY <2>3 DEF Step, store, Open, Statement, Stamp, Seed, Search, Verify, Sync, Propose, Remove,
                    Record, Choose, Gate, Admit, Test, Read, Write, Call, Kill, Leave
      <3> QED
        BY <3>1 DEF Active, Admitted
    <2> QED
      BY <2>1, <2>2, <2>3
  <1>4. Admitted' \subseteq Admitted /\ Undecided' \subseteq Undecided
    BY <1>1, <1>2, <1>3 DEF Admitted, Undecided
  <1> QED
    BY <1>4, RoomShrinks DEF Typed

LEMMA RoomNext == Typed /\ Typed' /\ RoomHonoured /\ [Next]_vars => RoomHonoured'
  <1> SUFFICES ASSUME Typed, Typed', RoomHonoured, [Next]_vars PROVE RoomHonoured'
    OBVIOUS
  <1>1. CASE Tick \/ UNCHANGED vars
    <2>1. UNCHANGED <<pc, job, watch>>
      BY <1>1 DEF Tick, vars, store
    <2>2. Admitted' = Admitted /\ Undecided' = Undecided
      BY <2>1 DEF Admitted, Undecided, Active
    <2> QED
      BY <2>2, RoomShrinks DEF Typed
  <1> QED
    BY <1>1, GateRoom, AdmitRoom, OtherRoom DEF Next

\* Terminals that count and write in two steps pass the cap of the watchlist
\* by one each at most, but for one of them.
THEOREM CapHolds == Spec => []CapNearlyHeld
  <1>1. Typed /\ RoomHonoured => CapNearlyHeld
    BY Finite, BoundAssumption DEF Typed, RoomHonoured, CapNearlyHeld
  <1> QED
    BY <1>1, RoomInit, RoomNext, TypedHolds, PTL DEF Spec

-----------------------------------------------------------------------------
(* The cap of the calls, for at most two terminals.                        *)

\* What two terminals may put on record.
Limit == Cap + (Cardinality(Procs) - 1) * FundCost

Reading(p) == pc[p] = "read"
Writing(p) == pc[p] = "write"

\* The total a terminal is about to write.
Total(p) == job[p].used + job[p].cost
Fresh(p) == job[p].date = today

\* Costs are those of an item; what was read is not of a later day.
SpendsTyped ==
  /\ budget.date <= today
  /\ \A p \in Procs : pc[p] \in {"test", "read", "write", "call"} => job[p].cost \in 1 .. FundCost
  /\ \A p \in Procs : Writing(p) => job[p].date <= today

\* Each terminal by itself: a spending tested, and one about to be written,
\* end within the limit; and what the second one read is not above the count
\* on record, unless its total is within the cap.
SpendsAlone ==
  /\ budget.calls <= Limit
  /\ \A p \in Procs : Reading(p) => Used + job[p].cost <= Limit /\ job[p].cost <= Cap
  /\ \A p \in Procs : Writing(p) => Total(p) <= Limit
  /\ \A p \in Procs : Writing(p) /\ Fresh(p) => Total(p) <= Cap \/ job[p].used <= Used

\* Two terminals in the middle of a spending.
SpendsTogether ==
  \A p, q \in Procs : p # q =>
    /\ Reading(p) /\ Reading(q) => Used + job[p].cost + job[q].cost <= Limit
    /\ Reading(p) /\ Writing(q) =>
         /\ Fresh(q) => Total(q) + job[p].cost <= Limit
         /\ Used + job[p].cost <= Cap \/ (Fresh(q) /\ Used <= Total(q))
    /\ Writing(p) /\ Writing(q) /\ Fresh(p) =>
         Total(p) <= Cap \/ (Fresh(q) /\ job[p].used <= Total(q))

Spending == SpendsTyped /\ SpendsAlone /\ SpendsTogether

\* With two terminals there is no third, and the limit is one item above the cap.
LEMMA TwoAtMost ==
  ASSUME Cardinality(Procs) <= 2
  PROVE  /\ Limit \in Nat /\ Cap <= Limit
         /\ \A p, q \in Procs : p # q => Limit = Cap + FundCost /\ Procs = {p, q}
  <1>1. Cardinality(Procs) \in {1, 2}
    BY ListingsAssumption, FS_EmptySet, FS_CardinalityType
  <1>2. Cap \in Nat /\ FundCost \in Nat
    BY BoundAssumption
  <1>3. Limit \in {Cap, Cap + FundCost}
    <2>1. CASE Cardinality(Procs) = 1
      <3>1. Limit = Cap + (1 - 1) * FundCost
        BY <2>1 DEF Limit
      <3> QED
        BY <1>2, <3>1
    <2>2. CASE Cardinality(Procs) = 2
      <3>1. Limit = Cap + (2 - 1) * FundCost
        BY <2>2 DEF Limit
      <3> QED
        BY <1>2, <3>1
    <2> QED
      BY <1>1, <2>1, <2>2
  <1>4. ASSUME NEW p \in Procs, NEW q \in Procs, p # q
        PROVE  Limit = Cap + FundCost /\ Procs = {p, q}
    <2>1. IsFiniteSet({p}) /\ Cardinality({p}) = 1
      BY FS_Singleton
    <2>2. IsFiniteSet({p} \union {q}) /\ Cardinality({p} \union {q}) = 2
      BY <1>4, <2>1, FS_AddElement
    <2>3. {p} \union {q} \in SUBSET Procs
      OBVIOUS
    <2>4. Cardinality({p} \union {q}) <= Cardinality(Procs)
      BY <2>3, ListingsAssumption, FS_Subset
    <2>5. Cardinality(Procs) = 2
      BY <1>1, <2>2, <2>4
    <2>6. Procs = {p} \union {q}
      BY <2>2, <2>3, <2>5, ListingsAssumption, FS_Subset
    <2>7. Limit = Cap + (2 - 1) * FundCost
      BY <2>5 DEF Limit
    <2> QED
      BY <1>2, <2>6, <2>7
  <1> QED
    BY <1>2, <1>3, <1>4

\* The numbers are numbers.
LEMMA SpendNumbers ==
  ASSUME Typed
  PROVE  /\ today \in Nat /\ budget.calls \in Nat /\ budget.date \in Nat /\ Used \in Nat
         /\ Cap \in Nat /\ Cap > 0 /\ FundCost \in Nat /\ FundCost > 0
         /\ \A p \in Procs : job[p].used \in Nat /\ job[p].cost \in Nat /\ job[p].date \in Nat
  <1>1. today \in Nat /\ budget.calls \in Nat /\ budget.date \in Nat
    BY BoundAssumption DEF Typed, TypeOK, Days
  <1>2. \A p \in Procs : job[p].used \in Nat /\ job[p].cost \in Nat /\ job[p].date \in Nat
    BY BoundAssumption DEF Typed, TypeOK, Job
  <1> QED
    BY <1>1, <1>2, BoundAssumption DEF Used

LEMMA SpendingInit == Cardinality(Procs) <= 2 /\ Init => Spending
  <1> SUFFICES ASSUME Cardinality(Procs) <= 2, Init PROVE Spending
    OBVIOUS
  <1>1. pc = [p \in Procs |-> "shell"] /\ budget = [calls |-> 0, date |-> 0] /\ today = 1
    BY DEF Init
  <1>2. Limit \in Nat
    BY TwoAtMost
  <1> QED
    BY <1>1, <1>2 DEF Spending, SpendsTyped, SpendsAlone, SpendsTogether, Reading, Writing

\* Steps outside a spending leave it alone.
LEMMA NoSpending ==
  ASSUME Typed, SpendsTyped, NEW p \in Procs, Step(p), ~Read(p), ~Write(p)
  PROVE  /\ UNCHANGED <<today, budget>>
         /\ pc'[p] # "write"
         /\ pc'[p] = "read" => Test(p) /\ Used + job[p].cost <= Cap /\ job'[p] = job[p]
         /\ pc'[p] \in {"test", "read", "call"} => job'[p].cost \in 1 .. FundCost
  <1>1. ASSUME NEW place \in Places, pc' = [pc EXCEPT ![p] = place] PROVE pc'[p] = place
    BY <1>1 DEF Typed, TypeOK
  <1>2. Done(p) \/ Dies(p) => pc'[p] \in {"shell", "ready"}
    BY DoneMoves DEF Typed
  <1>3. job[p] \in Job /\ FundCost \in Nat /\ FundCost > 0
    BY BoundAssumption DEF Typed, TypeOK
  <1>4. UNCHANGED <<today, budget>>
    BY DEF Step, store, Open, Statement, Stamp, Seed, Search, Verify, Sync, Propose, Remove, DropSymbol,
           Record, Choose, Gate, Admit, Commit, Test, Call, Kill, Leave
  <1>5. ASSUME NextItem(p), pc[p] \in {"test", "call"}
        PROVE  pc'[p] \in {"shell", "ready", "test"} /\ (pc'[p] = "test" => job'[p].cost \in 1 .. FundCost)
    <2>1. pc'[p] \in {"shell", "ready", "test"}
      BY <1>5, ItemMoves
    <2>2. job[p].cost \in 1 .. FundCost
      BY <1>5 DEF SpendsTyped
    <2>3. CASE job[p].left > 1
      <3>1. job' = [job EXCEPT ![p] = [job[p] EXCEPT !.left = job[p].left - 1]]
        BY <1>5, <2>3 DEF NextItem, Local
      <3>2. job'[p].cost = job[p].cost
        BY <1>3, <3>1 DEF Typed, TypeOK, Job
      <3> QED
        BY <2>1, <2>2, <3>2
    <2>4. CASE ~(job[p].left > 1)
      BY <1>2, <1>5, <2>4 DEF NextItem
    <2> QED
      BY <2>3, <2>4
  <1>6. CASE Open(p) \/ Seed(p) \/ Search(p) \/ Propose(p)
    <2>1. pc'[p] \in {"seed", "migrate", "ready", "record", "gate"}
      BY <1>1, <1>6 DEF Open, Seed, Search, Propose, Goto, Places
    <2> QED
      BY <1>4, <2>1
  <1>7. CASE Statement(p) \/ Stamp(p)
    <2>1. pc'[p] \in {"seed", "migrate", "shell", "ready"}
      BY <1>1, <1>2, <1>7 DEF Statement, Stamp, Goto, Places, Typed, TypeOK
    <2> QED
      BY <1>4, <2>1
  <1>8. CASE Remove(p) \/ Record(p) \/ Choose(p) \/ Gate(p) \/ Admit(p) \/ Commit(p) \/ DropSymbol(p)
             \/ Kill(p) \/ Leave(p)
    <2>1. pc'[p] \in {"remove", "record", "choose", "gate", "admit", "commit", "shell", "ready"}
      BY <1>1, <1>2, <1>8
         DEF Remove, Record, Choose, Gate, Admit, Commit, DropSymbol, Kill, Leave, Goto, Places
    <2> QED
      BY <1>4, <2>1
  <1>9. CASE Verify(p)
    <2>1. PICK s \in Listings : job' = [job EXCEPT ![p] = [job[p] EXCEPT !.sym = s, !.cost = 1]]
      BY <1>9 DEF Verify, Local
    <2>2. job'[p].cost = 1 /\ 1 \in 1 .. FundCost
      BY <1>3, <2>1 DEF Typed, TypeOK, Job
    <2>3. pc'[p] = "test"
      BY <1>1, <1>9 DEF Verify, Goto, Places
    <2> QED
      BY <1>4, <2>2, <2>3
  <1>10. CASE Sync(p)
    <2>1. PICK n \in 1 .. MaxItems, cost \in {1, FundCost} :
            job' = [job EXCEPT ![p] = [job[p] EXCEPT !.left = n, !.cost = cost]]
      BY <1>10 DEF Sync, Local
    <2>2. job'[p].cost = cost /\ cost \in 1 .. FundCost
      BY <1>3, <2>1 DEF Typed, TypeOK, Job
    <2>3. pc'[p] = "test"
      BY <1>1, <1>10 DEF Sync, Goto, Places
    <2> QED
      BY <1>4, <2>2, <2>3
  <1>11. CASE Test(p)
    <2>1. pc[p] = "test"
      BY <1>11 DEF Test
    <2>2. CASE Used + job[p].cost <= Cap
      <3>1. pc' = [pc EXCEPT ![p] = "read"] /\ job' = job
        BY <1>11, <2>2 DEF Test, Goto
      <3> QED
        BY <1>1, <1>4, <1>11, <2>1, <2>2, <3>1 DEF Places, SpendsTyped
    <2>3. CASE NextItem(p)
      BY <1>4, <1>5, <2>1, <2>3
    <2> QED
      BY <1>11, <2>2, <2>3 DEF Test
  <1>12. CASE Call(p)
    <2>1. pc[p] = "call"
      BY <1>12 DEF Call
    <2>2. CASE NextItem(p)
      BY <1>4, <1>5, <2>1, <2>2
    <2>3. CASE pc' = [pc EXCEPT ![p] = "record"] \/ Done(p)
      <3>1. pc'[p] \in {"record", "shell", "ready"}
        BY <1>1, <1>2, <2>3 DEF Places
      <3> QED
        BY <1>4, <3>1
    <2> QED
      BY <1>12, <2>2, <2>3 DEF Call, Goto
  <1> QED
    BY <1>6, <1>7, <1>8, <1>9, <1>10, <1>11, <1>12 DEF Step

\* The steps outside, the test among them: a terminal that passes the test is
\* within the cap with what is on record then.
LEMMA TestSpending ==
  ASSUME Cardinality(Procs) <= 2, Typed, Spending, NEW p \in Procs, Step(p), ~Read(p), ~Write(p)
  PROVE  Spending'
  <1>1. /\ UNCHANGED <<today, budget>> /\ pc'[p] # "write"
        /\ pc'[p] = "read" => Test(p) /\ Used + job[p].cost <= Cap /\ job'[p] = job[p]
        /\ pc'[p] \in {"test", "read", "call"} => job'[p].cost \in 1 .. FundCost
    BY NoSpending DEF Spending
  <1>2. \A q \in Procs : q # p => pc'[q] = pc[q] /\ job'[q] = job[q]
    BY StepMoves DEF Moved, Typed, TypeOK
  <1>3. Used' = Used
    BY <1>1 DEF Used
  <1>4. pc'[p] = "read" => job[p].cost \in 1 .. FundCost
    BY <1>1
  <1>5. SpendsTyped'
    BY <1>1, <1>2 DEF Spending, SpendsTyped, Writing
  <1>6. SpendsAlone'
    BY <1>1, <1>2, <1>3, TwoAtMost, SpendNumbers DEF Spending, SpendsAlone, Reading, Writing, Total, Fresh
  <1>7. SpendsTogether'
    <2> SUFFICES ASSUME NEW a \in Procs, NEW b \in Procs, a # b
                 PROVE  /\ Reading(a)' /\ Reading(b)' => Used + job'[a].cost + job'[b].cost <= Limit
                        /\ Reading(a)' /\ Writing(b)' =>
                             /\ Fresh(b)' => Total(b)' + job'[a].cost <= Limit
                             /\ Used + job'[a].cost <= Cap \/ (Fresh(b)' /\ Used <= Total(b)')
                        /\ Writing(a)' /\ Writing(b)' /\ Fresh(a)' =>
                             Total(a)' <= Cap \/ (Fresh(b)' /\ job'[a].used <= Total(b)')
      BY <1>3 DEF SpendsTogether, Reading, Writing, Fresh, Total, Limit
    <2>1. Limit = Cap + FundCost
      BY TwoAtMost
    <2>2. CASE pc'[p] # "read" \/ (a # p /\ b # p)
      <3>1. /\ Reading(a)' => a # p /\ Reading(a)
            /\ Reading(b)' => b # p /\ Reading(b)
            /\ Writing(a)' => a # p /\ Writing(a)
            /\ Writing(b)' => b # p /\ Writing(b)
        BY <1>1, <1>2, <2>2 DEF Reading, Writing
      <3> QED
        BY <1>1, <1>2, <3>1 DEF Spending, SpendsTogether, Fresh, Total
    <2>3. CASE pc'[p] = "read" /\ a = p
      <3>1. /\ pc'[b] = pc[b] /\ job'[b] = job[b] /\ job'[a] = job[a] /\ today' = today
            /\ Used + job[a].cost <= Cap /\ job[a].cost <= FundCost /\ ~Writing(a)'
        BY <1>1, <1>2, <1>4, <2>3, SpendNumbers DEF Writing
      <3>2. Reading(b) => job[b].cost <= FundCost
        BY SpendNumbers DEF Spending, SpendsTyped, Reading
      <3>3. Writing(b) /\ Fresh(b) => Total(b) + job[a].cost <= Limit
        <4> SUFFICES ASSUME Writing(b), Fresh(b) PROVE Total(b) + job[a].cost <= Limit
          OBVIOUS
        <4>1. Total(b) <= Cap \/ job[b].used <= Used
          BY DEF Spending, SpendsAlone
        <4>2. job[b].cost <= FundCost
          BY SpendNumbers DEF Spending, SpendsTyped, Writing
        <4> QED
          BY <2>1, <3>1, <4>1, <4>2, SpendNumbers DEF Total
      <3>4. Reading(a)' /\ Reading(b)' => Used + job'[a].cost + job'[b].cost <= Limit
        BY <2>1, <3>1, <3>2, SpendNumbers DEF Reading
      <3> QED
        BY <3>1, <3>3, <3>4 DEF Writing, Fresh, Total
    <2>4. CASE pc'[p] = "read" /\ b = p
      <3>1. /\ pc'[a] = pc[a] /\ job'[a] = job[a] /\ job'[b] = job[b]
            /\ Used + job[b].cost <= Cap /\ ~Writing(b)'
        BY <1>1, <1>2, <2>4 DEF Writing
      <3>2. Reading(a) => job[a].cost <= FundCost
        BY SpendNumbers DEF Spending, SpendsTyped, Reading
      <3> QED
        BY <2>1, <3>1, <3>2, SpendNumbers DEF Reading, Writing
    <2> QED
      BY <2>2, <2>3, <2>4
  <1> QED
    BY <1>5, <1>6, <1>7 DEF Spending

\* Reading the count.
LEMMA ReadSpending ==
  ASSUME Cardinality(Procs) <= 2, Typed, Spending, NEW p \in Procs, Read(p)
  PROVE  Spending'
  <1>1. /\ pc[p] = "read" /\ UNCHANGED <<today, budget>> /\ pc'[p] = "write"
        /\ job'[p].used = Used /\ job'[p].date = today /\ job'[p].cost = job[p].cost
    BY DEF Read, Goto, Local, store, Typed, TypeOK, Job, Places
  <1>2. \A q \in Procs : q # p => pc'[q] = pc[q] /\ job'[q] = job[q]
    BY StepMoves DEF Step, Moved, Typed, TypeOK
  <1>3. Used' = Used
    BY <1>1 DEF Used
  <1>4. Reading(p) /\ Writing(p)' /\ ~Reading(p)' /\ Fresh(p)' /\ Total(p)' = Used + job[p].cost
    BY <1>1 DEF Reading, Writing, Fresh, Total
  <1>5. SpendsTyped'
    BY <1>1, <1>2, SpendNumbers DEF Spending, SpendsTyped, Writing
  <1>6. SpendsAlone'
    <2>1. Total(p)' <= Limit
      BY <1>4 DEF Spending, SpendsAlone
    <2>2. job'[p].used <= Used
      BY <1>1, SpendNumbers
    <2> QED
      BY <1>1, <1>2, <1>3, <1>4, <2>1, <2>2 DEF Spending, SpendsAlone, Reading, Writing, Total, Fresh, Limit
  <1>7. SpendsTogether'
    <2> SUFFICES ASSUME NEW a \in Procs, NEW b \in Procs, a # b
                 PROVE  /\ Reading(a)' /\ Reading(b)' => Used + job'[a].cost + job'[b].cost <= Limit
                        /\ Reading(a)' /\ Writing(b)' =>
                             /\ Fresh(b)' => Total(b)' + job'[a].cost <= Limit
                             /\ Used + job'[a].cost <= Cap \/ (Fresh(b)' /\ Used <= Total(b)')
                        /\ Writing(a)' /\ Writing(b)' /\ Fresh(a)' =>
                             Total(a)' <= Cap \/ (Fresh(b)' /\ job'[a].used <= Total(b)')
      BY <1>3 DEF SpendsTogether, Reading, Writing, Fresh, Total, Limit
    <2>1. Procs = {a, b}
      BY TwoAtMost
    <2>2. CASE a = p
      <3>1. pc'[b] = pc[b] /\ job'[b] = job[b] /\ today' = today
        BY <1>1, <1>2, <2>2
      <3>2. Writing(b) => Total(a)' <= Cap \/ (Fresh(b)' /\ job'[a].used <= Total(b)')
        BY <1>1, <1>4, <2>2, <3>1 DEF Spending, SpendsTogether, Fresh, Total
      <3> QED
        BY <1>4, <2>2, <3>1, <3>2 DEF Writing
    <2>3. CASE b = p
      <3>1. pc'[a] = pc[a] /\ job'[a] = job[a] /\ today' = today
        BY <1>1, <1>2, <2>3
      <3>2. Reading(a) => Total(b)' + job[a].cost <= Limit
        BY <1>4, <2>3, SpendNumbers DEF Spending, SpendsTogether
      <3>3. Used <= Total(b)'
        BY <1>4, <2>3, SpendNumbers
      <3>4. Writing(a) /\ Fresh(a) => Total(a) <= Cap \/ job[a].used <= Total(b)'
        BY <3>3, <1>4, <2>3, SpendNumbers DEF Spending, SpendsAlone
      <3> QED
        BY <1>4, <2>3, <3>1, <3>2, <3>3, <3>4 DEF Reading, Writing, Fresh, Total
    <2> QED
      BY <2>1, <2>2, <2>3
  <1> QED
    BY <1>5, <1>6, <1>7 DEF Spending

\* Writing it.
LEMMA WriteSpending ==
  ASSUME Cardinality(Procs) <= 2, Typed, Spending, NEW p \in Procs, Write(p)
  PROVE  Spending'
  <1>1. /\ pc[p] = "write" /\ today' = today /\ pc'[p] = "call" /\ job' = job
        /\ budget'.calls = Total(p) /\ budget'.date = job[p].date
    BY DEF Write, Goto, Total, Typed, TypeOK, Places
  <1>2. \A q \in Procs : q # p => pc'[q] = pc[q]
    BY StepMoves DEF Step, Moved, Typed, TypeOK
  <1>3. Used' = IF Fresh(p) THEN Total(p) ELSE 0
    BY <1>1 DEF Used, Fresh
  <1>4. Writing(p) /\ ~Reading(p)' /\ ~Writing(p)'
    BY <1>1 DEF Reading, Writing
  <1>5. SpendsTyped'
    BY <1>1, <1>2, <1>4, SpendNumbers DEF Spending, SpendsTyped, Writing
  <1>6. SpendsAlone'
    <2>1. budget'.calls <= Limit
      BY <1>1, <1>4 DEF Spending, SpendsAlone
    <2>2. ASSUME NEW q \in Procs, Reading(q)'
          PROVE  Used' + job[q].cost <= Limit /\ job[q].cost <= Cap
      <3>1. q # p /\ Reading(q)
        BY <1>2, <1>4, <2>2 DEF Reading
      <3>2. job[q].cost <= Cap
        BY <3>1 DEF Spending, SpendsAlone
      <3>3. Fresh(p) => Total(p) + job[q].cost <= Limit
        BY <1>4, <3>1 DEF Spending, SpendsTogether
      <3> QED
        BY <1>3, <3>2, <3>3, TwoAtMost, SpendNumbers
    <2>3. ASSUME NEW q \in Procs, Writing(q)'
          PROVE  Total(q) <= Limit /\ (Fresh(q) => Total(q) <= Cap \/ job[q].used <= Used')
      <3>1. q # p /\ Writing(q)
        BY <1>2, <1>4, <2>3 DEF Writing
      <3>2. Fresh(q) => Total(q) <= Cap \/ (Fresh(p) /\ job[q].used <= Total(p))
        BY <1>4, <3>1 DEF Spending, SpendsTogether
      <3> QED
        BY <1>3, <3>1, <3>2 DEF Spending, SpendsAlone
    <2> QED
      BY <1>1, <2>1, <2>2, <2>3 DEF SpendsAlone, Reading, Writing, Total, Fresh, Limit
  <1>7. SpendsTogether'
    <2>1. ASSUME NEW a \in Procs, NEW b \in Procs, a # b
          PROVE  ~((Reading(a)' \/ Writing(a)') /\ (Reading(b)' \/ Writing(b)'))
      <3>1. p = a \/ p = b
        BY <2>1, TwoAtMost
      <3> QED
        BY <1>4, <3>1
    <2> QED
      BY <2>1 DEF SpendsTogether, Reading, Writing
  <1> QED
    BY <1>5, <1>6, <1>7 DEF Spending

\* A new day: nothing is on record for it, and no read of it is pending.
LEMMA TickSpending ==
  ASSUME Cardinality(Procs) <= 2, Typed, Spending, Tick
  PROVE  Spending'
  <1>1. today' = today + 1 /\ UNCHANGED <<budget, pc, job>>
    BY DEF Tick, store
  <1>2. Used' = 0 /\ \A p \in Procs : Writing(p) => ~Fresh(p)'
    BY <1>1, SpendNumbers DEF Used, Fresh, Spending, SpendsTyped
  <1>3. SpendsTyped'
    BY <1>1, SpendNumbers DEF Spending, SpendsTyped, Writing
  <1>4. SpendsAlone'
    <2>1. \A p \in Procs : Reading(p) => Used' + job[p].cost <= Limit
      BY <1>2, TwoAtMost, SpendNumbers DEF Spending, SpendsAlone
    <2> QED
      BY <1>1, <1>2, <2>1 DEF Spending, SpendsAlone, Reading, Writing, Total, Limit
  <1>5. SpendsTogether'
    <2>1. ASSUME NEW a \in Procs, NEW b \in Procs, a # b
          PROVE  /\ Reading(a) /\ Reading(b) => Used' + job[a].cost + job[b].cost <= Limit
                 /\ Reading(a) => Used' + job[a].cost <= Cap
      <3>1. Limit = Cap + FundCost
        BY <2>1, TwoAtMost
      <3>2. Reading(a) => job[a].cost <= Cap
        BY DEF Spending, SpendsAlone
      <3>3. Reading(b) => job[b].cost <= FundCost
        BY SpendNumbers DEF Spending, SpendsTyped, Reading
      <3> QED
        BY <1>2, <3>1, <3>2, <3>3, SpendNumbers
    <2> QED
      BY <1>1, <1>2, <2>1 DEF SpendsTogether, Reading, Writing, Limit
  <1> QED
    BY <1>3, <1>4, <1>5 DEF Spending

LEMMA SpendingNext ==
  ASSUME Cardinality(Procs) <= 2
  PROVE  Typed /\ Spending /\ [Next]_vars => Spending'
  <1> SUFFICES ASSUME Typed, Spending, [Next]_vars PROVE Spending'
    OBVIOUS
  <1>1. CASE UNCHANGED vars
    <2>1. UNCHANGED <<today, budget, pc, job>>
      BY <1>1 DEF vars, store
    <2> QED
      BY <2>1 DEF Spending, SpendsTyped, SpendsAlone, SpendsTogether, Used, Reading, Writing, Total, Fresh, Limit
  <1>2. CASE Tick
    BY <1>2, TickSpending
  <1>3. ASSUME NEW p \in Procs, Step(p) PROVE Spending'
    BY <1>3, TestSpending, ReadSpending, WriteSpending
  <1> QED
    BY <1>1, <1>2, <1>3 DEF Next

\* Two terminals pass the cap of the calls on record by one item at most,
\* and any number of them the cap of the watchlist by one each but for one.
THEOREM LimitsHold == Spec => []LimitsNearlyHeld
  <1>1. CASE Cardinality(Procs) <= 2
    <2>1. CapNearlyHeld /\ Spending => LimitsNearlyHeld
      BY DEF Spending, SpendsAlone, Limit, LimitsNearlyHeld
    <2>2. Init => Spending
      BY <1>1, SpendingInit
    <2>3. Typed /\ Spending /\ [Next]_vars => Spending'
      BY <1>1, SpendingNext
    <2> QED
      BY <2>1, <2>2, <2>3, TypedHolds, CapHolds, PTL DEF Spec
  <1>2. CASE ~(Cardinality(Procs) <= 2)
    <2>1. CapNearlyHeld => LimitsNearlyHeld
      BY <1>2 DEF LimitsNearlyHeld
    <2> QED
      BY <2>1, CapHolds, PTL
  <1> QED
    BY <1>1, <1>2

=============================================================================
