------------------------- MODULE AgentSessionProofs -------------------------
(***************************************************************************)
(* The safety properties of AgentSession, proved for every set of         *)
(* sessions and every limit and bound.                                     *)
(*                                                                         *)
(* They rest on facts no single file of the agent states: a turn id is on  *)
(* disk before anything is done under it, so it is never given twice       *)
(* (Named, TurnIsNew); what the engine holds in memory is about the        *)
(* session it is bound to, since it is rebuilt whenever that changes; and  *)
(* nothing is written between a question and its answer, while every turn  *)
(* that ends without one is marked (AnswersFollow, Settled).               *)
(***************************************************************************)
EXTENDS AgentSession, WellFoundedInduction, TLAPS

\* The phases of a turn whose answer is not recorded, and all phases of a turn.
Unanswered == {"asked", "model", "tool", "verify", "check", "revise", "answer"}
InTurn == Unanswered \union {"answered", "count"}

\* What a phase needs is there.
Held ==
  /\ pc # "shell" => bound \in Sessions
  /\ pc = "switch" => target \in Sessions /\ target # bound
  /\ pc \in {"execute", "record"} => chosen \in Token
  /\ pc \in InTurn \union {"persist"} => turn \in Turns /\ open \in {NoTurn, turn}
  /\ pc \in {"shell", "prompt", "switch", "execute", "record"} => open = NoTurn
  /\ pc = "tool" => iter >= 1

\* The turns of a log have a largest one.
HasLatest ==
  \A s \in Sessions : \E n \in TurnsOf(s) \union {NoTurn} :
    \A m \in TurnsOf(s) \union {NoTurn} : m <= n

\* Whatever is done under a turn id is done after the id is in the log.
Named ==
  /\ \A s \in Sessions : \A p \in snaps[s] : p[1] \in TurnsOf(s)
  /\ \A tok \in executed \union pending : tok.turn \in TurnsOf(tok.session)
  /\ pc = "execute" => chosen.turn \in TurnsOf(chosen.session)
  /\ pc \in InTurn \union {"persist"} => turn \in TurnsOf(bound)

\* Nothing was done before under the id of the turn that is running.
TurnIsNew ==
  /\ pc \in InTurn => \A t \in TurnsOf(bound) : t <= turn
  /\ pc \in {"asked", "model", "tool", "verify"} => \A p \in snaps[bound] : p[1] # turn
  /\ pc = "check" =>
       /\ <<turn, gathered>> \in snaps[bound]
       /\ \A p \in snaps[bound] : p[1] = turn => p[2] = gathered
  /\ pc \in Unanswered =>
       /\ turn \notin TurnsWith(bound, "assistant")
       /\ \A tok \in executed : ~(tok.session = bound /\ tok.turn = turn)

\* The engine of a session that is aborted on disk is halted, and one that is
\* halted is over the budget or about to say so on disk.
Aborts ==
  /\ pc = "shell" => ~halted
  /\ pc \in InTurn => ~halted
  /\ pc = "persist" => halted
  /\ total > EpistemicLimit => halted
  /\ pc # "shell" /\ status[bound] = "aborted" => halted
  /\ late = 0 /\ halted /\ pc # "persist" => status[bound] = "aborted"

\* What the user may still confirm: proposed in this session, recently, and
\* not executed.
Fresh(tok) ==
  /\ tok.session = bound
  /\ \A t \in TurnsOf(bound) : t <= tok.turn + TokenAge
  /\ tok \notin executed

Consent ==
  /\ pc = "shell" => pending = {}
  /\ \A tok \in pending : Fresh(tok)
  /\ pc = "execute" => Fresh(chosen) /\ chosen \notin pending

\* The pool holds nothing that is not on disk, and once it is loaded all that
\* the answered turns put there.
Evidence ==
  /\ pc = "shell" => ~loaded /\ ledger = {}
  /\ pc # "shell" => ledger \subseteq Stored(bound)
  /\ pc # "shell" /\ loaded =>
       \A e \in Stored(bound) : e[1] \in TurnsWith(bound, "assistant") => e \in ledger
  /\ pc \in {"revise", "answer"} =>
       loaded /\ \A e \in Stored(bound) : e[1] = turn => e \in ledger

\* The only write not yet on record is the one being recorded.
OnRecord ==
  kills = 0 /\ late = 0 =>
    executed \subseteq recorded \union (IF pc = "record" THEN {chosen} ELSE {})

\* A loop that was only ever sent to sessions that exist stands on an open one,
\* or is on its way to one.
OnOpen ==
  typos = 0 =>
    /\ pc \notin {"shell", "switch", "closing"} => status[bound] # "closed"
    /\ pc = "switch" => Resumable(target)

\* A turn that is past the recording of its question is noted as open, so that
\* whatever ends it marks it.
OpenNoted == pc \in Unanswered \ {"asked"} => open = turn

\* An answer comes right after its question; nothing is written in between.
AnswersFollow ==
  /\ \A s \in Sessions : \A j \in DOMAIN log[s] :
       log[s][j].kind = "assistant" =>
         j > 1 /\ log[s][j - 1] = [kind |-> "user", turn |-> log[s][j].turn]
  /\ pc \in Unanswered =>
       Len(log[bound]) > 0 /\ log[bound][Len(log[bound])] = [kind |-> "user", turn |-> turn]

\* A question is answered, or marked, or the one being worked on.
Settled ==
  kills = 0 /\ garbled = 0 /\ late = 0 =>
    \A s \in Sessions : \A t \in TurnsWith(s, "user") :
      \/ t \in TurnsWith(s, "assistant") \union TurnsWith(s, "incomplete") \union {NoTurn}
      \/ pc \in Unanswered /\ s = bound /\ t = turn

IInv ==
  /\ TypeOK /\ Held /\ HasLatest
  /\ Named /\ TurnIsNew
  /\ Aborts /\ Consent /\ Evidence /\ OnRecord /\ OnOpen
  /\ OpenNoted /\ AnswersFollow /\ Settled

-----------------------------------------------------------------------------
(* What is kept of a log. *)

\* A set of naturals that is not empty has a least element.
LEMMA LeastOf ==
  ASSUME NEW S, S \subseteq Nat, S # {}
  PROVE  \E d \in S : \A e \in S : d <= e
<1>1. PICK d \in S : \A e \in S : <<e, d>> \notin OpToRel(<, Nat)
  BY WFMin, NatLessThanWellFounded, Zenon
<1>2. ASSUME NEW e \in S
      PROVE  d <= e
  <2>1. d \in Nat /\ e \in Nat  OBVIOUS
  <2>2. ~(e < d)  BY <1>1, <2>1 DEF OpToRel
  <2>. QED  BY <2>1, <2>2
<1>. QED  BY <1>2

\* What is kept of each prefix of a log, as Kept reads it.
Reads(upTo, k, events, left) ==
  upTo = [n \in 0 .. k |->
    IF n = 0 THEN <<>>
    ELSE IF Said(events[n], left) THEN Append(upTo[n - 1], events[n]) ELSE upTo[n - 1]]

UpTo(events, left) == CHOOSE upTo : Reads(upTo, Len(events), events, left)

\* The recursion of Kept has a solution.
LEMMA UpToExists ==
  ASSUME NEW events, NEW left, NEW k \in Nat
  PROVE  \E f : Reads(f, k, events, left)
<1>. DEFINE Step(g, n) == IF Said(events[n], left) THEN Append(g, events[n]) ELSE g
            Solves(f, m) == f = [n \in 0 .. m |-> IF n = 0 THEN <<>> ELSE Step(f[n - 1], n)]
            bad == {m \in Nat : ~ \E f : Solves(f, m)}
<1>. HIDE DEF Step
<1>1. ASSUME bad # {}
      PROVE  FALSE
  <2>. HIDE DEF bad
  <2>1. bad \subseteq Nat  BY DEF bad
  <2>2. PICK m \in bad : \A j \in bad : m <= j
    BY <1>1, <2>1, LeastOf
  <2>3. m \in Nat /\ ~ \E f : Solves(f, m)
    BY <2>2 DEF bad
  <2>4. m # 0
    <3>. DEFINE f == [n \in 0 .. 0 |-> <<>>]
    <3>1. Solves(f, 0)  OBVIOUS
    <3>. QED  BY <2>3, <3>1
  <2>5. m - 1 \in Nat /\ (m - 1) \notin bad
    BY <2>2, <2>3, <2>4
  <2>6. PICK f : Solves(f, m - 1)
    BY <2>5 DEF bad
  <2>. DEFINE g == [n \in 0 .. m |-> IF n < m THEN f[n] ELSE Step(f[m - 1], m)]
  <2>7. Solves(g, m)
    <3>1. ASSUME NEW n \in 0 .. m
          PROVE  g[n] = IF n = 0 THEN <<>> ELSE Step(g[n - 1], n)
      <4>1. CASE n = 0
        BY <2>3, <2>4, <2>5, <2>6, <4>1
      <4>2. CASE n # 0
        <5>1. n - 1 \in 0 .. m - 1 /\ n - 1 \in 0 .. m /\ n - 1 < m
          BY <2>3, <4>2
        <5>2. g[n - 1] = f[n - 1]
          BY <5>1
        <5>3. CASE n < m
          <6>1. n \in 0 .. m - 1  BY <2>3, <5>3
          <6>2. f[n] = Step(f[n - 1], n)  BY <2>6, <4>2, <6>1
          <6>. QED  BY <4>2, <5>2, <5>3, <6>2
        <5>4. CASE n = m
          BY <4>2, <5>2, <5>4
        <5>. QED  BY <2>3, <5>3, <5>4
      <4>. QED  BY <4>1, <4>2
    <3>2. g = [n \in 0 .. m |-> g[n]]  OBVIOUS
    <3>. HIDE DEF g
    <3>. QED  BY <3>1, <3>2
  <2>. QED  BY <2>3, <2>7
<1>2. \E f : Solves(f, k)
  BY <1>1
<1>. QED  BY <1>2 DEF Step, Reads

\* Kept adds to what it has one event at a time.
LEMMA UpToSteps ==
  ASSUME NEW events \in Seq(Event), NEW left
  PROVE  /\ Kept(events, left) = UpTo(events, left)[Len(events)]
         /\ UpTo(events, left)[0] = <<>>
         /\ \A n \in 1 .. Len(events) :
              UpTo(events, left)[n] = IF Said(events[n], left)
                                      THEN Append(UpTo(events, left)[n - 1], events[n])
                                      ELSE UpTo(events, left)[n - 1]
         /\ \A n \in 0 .. Len(events) : UpTo(events, left)[n] \in Seq(Event)
<1>. DEFINE f == UpTo(events, left)
            len == Len(events)
<1>1. Kept(events, left) = f[len]
  BY DEF Kept, UpTo, Reads
<1>2. len \in Nat  OBVIOUS
<1>3. f = [n \in 0 .. len |->
             IF n = 0 THEN <<>>
             ELSE IF Said(events[n], left) THEN Append(f[n - 1], events[n]) ELSE f[n - 1]]
  <2>1. \E g : Reads(g, Len(events), events, left)
    BY <1>2, UpToExists
  <2>2. Reads(f, Len(events), events, left)
    BY <2>1, Zenon DEF UpTo
  <2>. QED  BY <2>2 DEF Reads
<1>. DEFINE Value(n) ==
       IF n = 0 THEN <<>>
       ELSE IF Said(events[n], left) THEN Append(f[n - 1], events[n]) ELSE f[n - 1]
<1>4. f = [n \in 0 .. len |-> Value(n)]
  BY <1>3
<1>. HIDE DEF f, len, Value
<1>5. \A n \in 0 .. len : f[n] = Value(n)
  BY <1>4
<1>6. f[0] = <<>>
  BY <1>2, <1>5 DEF Value
<1>7. ASSUME NEW n \in 1 .. len
      PROVE  f[n] = IF Said(events[n], left) THEN Append(f[n - 1], events[n]) ELSE f[n - 1]
  BY <1>2, <1>5 DEF Value
<1>8. \A n \in 0 .. len : f[n] \in Seq(Event)
  <2>. DEFINE bad == {n \in 0 .. len : f[n] \notin Seq(Event)}
  <2>1. SUFFICES ASSUME bad # {} PROVE FALSE
    OBVIOUS
  <2>2. bad \subseteq Nat  BY <1>2
  <2>. HIDE DEF bad
  <2>3. PICK n \in bad : \A m \in bad : n <= m
    BY <2>1, <2>2, LeastOf
  <2>4. n \in 0 .. len /\ f[n] \notin Seq(Event)
    BY <2>3 DEF bad
  <2>5. n # 0
    <3>1. <<>> \in Seq(Event)  OBVIOUS
    <3>. QED  BY <1>6, <2>4, <3>1
  <2>6. n \in 1 .. len /\ n - 1 \in 0 .. len /\ (n - 1) \notin bad
    BY <1>2, <2>3, <2>4, <2>5
  <2>7. f[n - 1] \in Seq(Event)
    BY <2>6 DEF bad
  <2>8. events[n] \in Event
    BY <2>6 DEF len
  <2>9. Append(f[n - 1], events[n]) \in Seq(Event)
    BY <2>7, <2>8
  <2>. QED  BY <1>7, <2>4, <2>6, <2>7, <2>9
<1>. QED  BY <1>1, <1>6, <1>7, <1>8 DEF f, len

\* What is kept of a prefix is a prefix of what is kept.
LEMMA UpToGrows ==
  ASSUME NEW events \in Seq(Event), NEW left, NEW n \in 0 .. Len(events)
  PROVE  LET part == UpTo(events, left)[n]
         IN /\ Len(part) <= Len(Kept(events, left))
            /\ \A i \in 1 .. Len(part) : Kept(events, left)[i] = part[i]
<1>. DEFINE f == UpTo(events, left)
            len == Len(events)
            Starts(m) == Len(f[n]) <= Len(f[m]) /\ \A i \in 1 .. Len(f[n]) : f[m][i] = f[n][i]
            bad == {m \in n .. len : ~Starts(m)}
<1>1. /\ len \in Nat /\ n \in 0 .. len
      /\ \A m \in 1 .. len : f[m] = IF Said(events[m], left) THEN Append(f[m - 1], events[m])
                                                             ELSE f[m - 1]
      /\ \A m \in 0 .. len : f[m] \in Seq(Event)
      /\ \A m \in 1 .. len : events[m] \in Event
      /\ Kept(events, left) = f[len]
  BY UpToSteps
<1>. HIDE DEF f, len
<1>2. ASSUME bad # {} PROVE FALSE
  <2>1. bad \subseteq Nat  BY <1>1
  <2>. HIDE DEF bad
  <2>2. PICK m \in bad : \A j \in bad : m <= j
    BY <1>2, <2>1, LeastOf
  <2>3. m \in n .. len /\ ~Starts(m)
    BY <2>2 DEF bad
  <2>4. f[n] \in Seq(Event) /\ Len(f[n]) \in Nat
    BY <1>1
  <2>5. m # n
    BY <2>3, <2>4
  <2>6. m \in 1 .. len /\ m - 1 \in n .. len /\ m - 1 \in 0 .. len /\ (m - 1) \notin bad
    BY <1>1, <2>2, <2>3, <2>5
  <2>7. Starts(m - 1)
    BY <2>6 DEF bad
  <2>8. f[m - 1] \in Seq(Event) /\ Len(f[m - 1]) \in Nat /\ events[m] \in Event
    BY <1>1, <2>6
  <2>9. f[m] = Append(f[m - 1], events[m]) \/ f[m] = f[m - 1]
    BY <1>1, <2>6
  <2>10. /\ Len(f[m - 1]) <= Len(f[m])
         /\ \A i \in 1 .. Len(f[m - 1]) : f[m][i] = f[m - 1][i]
    <3>1. CASE f[m] = f[m - 1]
      BY <2>8, <3>1
    <3>2. CASE f[m] = Append(f[m - 1], events[m])
      BY <2>8, <3>2
    <3>. QED  BY <2>9, <3>1, <3>2
  <2>11. Len(f[m]) \in Nat
    BY <1>1, <2>6
  <2>12. Len(f[n]) <= Len(f[m])
    BY <2>4, <2>7, <2>8, <2>10, <2>11
  <2>13. ASSUME NEW i \in 1 .. Len(f[n])
         PROVE  f[m][i] = f[n][i]
    <3>1. i \in 1 .. Len(f[m - 1])
      BY <2>4, <2>7, <2>8
    <3>2. f[m][i] = f[m - 1][i]
      BY <2>10, <3>1
    <3>. QED  BY <2>7, <3>2
  <2>. QED  BY <2>3, <2>12, <2>13
<1>3. len \in n .. len
  BY <1>1
<1>4. Starts(len)
  BY <1>2, <1>3
<1>. QED  BY <1>1, <1>4 DEF f

\* What is kept comes from the log.
LEMMA KeptFrom ==
  ASSUME NEW events \in Seq(Event), NEW left
  PROVE  /\ Kept(events, left) \in Seq(Event)
         /\ \A p \in 1 .. Len(Kept(events, left)) : \E i \in 1 .. Len(events) :
              Kept(events, left)[p] = events[i] /\ Said(events[i], left)
<1>. DEFINE f == UpTo(events, left)
            len == Len(events)
            From(g) == \A p \in 1 .. Len(g) : \E i \in 1 .. len :
                         g[p] = events[i] /\ Said(events[i], left)
            bad == {m \in 0 .. len : ~From(f[m])}
<1>1. /\ len \in Nat /\ f[0] = <<>>
      /\ \A m \in 1 .. len : f[m] = IF Said(events[m], left) THEN Append(f[m - 1], events[m])
                                                             ELSE f[m - 1]
      /\ \A m \in 0 .. len : f[m] \in Seq(Event)
      /\ \A m \in 1 .. len : events[m] \in Event
      /\ Kept(events, left) = f[len]
  BY UpToSteps
<1>. HIDE DEF f, len
<1>2. ASSUME bad # {} PROVE FALSE
  <2>1. bad \subseteq Nat  BY <1>1
  <2>. HIDE DEF bad
  <2>2. PICK m \in bad : \A j \in bad : m <= j
    BY <1>2, <2>1, LeastOf
  <2>3. m \in 0 .. len /\ ~From(f[m])
    BY <2>2 DEF bad
  <2>4. m # 0
    BY <1>1, <2>3
  <2>5. m \in 1 .. len /\ m - 1 \in 0 .. len /\ (m - 1) \notin bad
    BY <1>1, <2>2, <2>3, <2>4
  <2>6. From(f[m - 1])
    BY <2>5 DEF bad
  <2>7. f[m - 1] \in Seq(Event) /\ Len(f[m - 1]) \in Nat /\ events[m] \in Event
    BY <1>1, <2>5
  <2>8. CASE f[m] = f[m - 1]
    BY <2>3, <2>6, <2>8
  <2>9. CASE Said(events[m], left) /\ f[m] = Append(f[m - 1], events[m])
    <3>1. ASSUME NEW p \in 1 .. Len(f[m])
          PROVE  \E i \in 1 .. len : f[m][p] = events[i] /\ Said(events[i], left)
      <4>1. CASE p \in 1 .. Len(f[m - 1])
        <5>1. f[m][p] = f[m - 1][p]
          BY <2>7, <2>9, <4>1
        <5>. QED  BY <2>6, <4>1, <5>1
      <4>2. CASE p = Len(f[m - 1]) + 1
        <5>1. f[m][p] = events[m]
          BY <2>7, <2>9, <4>2
        <5>. QED  BY <2>5, <2>9, <5>1
      <4>. QED  BY <2>7, <2>9, <4>1, <4>2
    <3>. QED  BY <2>3, <3>1
  <2>. QED  BY <1>1, <2>5, <2>8, <2>9
<1>3. len \in 0 .. len /\ f[len] \in Seq(Event)
  BY <1>1
<1>4. From(f[len])
  <2>1. len \notin bad  BY <1>2
  <2>. HIDE DEF From
  <2>. QED  BY <1>3, <2>1
<1>. QED  BY <1>1, <1>3, <1>4 DEF len

\* Neighbours in the log that are both kept are neighbours in what is kept.
LEMMA KeptNext ==
  ASSUME NEW events \in Seq(Event), NEW left, NEW j \in 2 .. Len(events),
         Said(events[j - 1], left), Said(events[j], left)
  PROVE  \E p \in 2 .. Len(Kept(events, left)) :
           /\ Kept(events, left)[p - 1] = events[j - 1]
           /\ Kept(events, left)[p] = events[j]
<1>. DEFINE f == UpTo(events, left)
            p == Len(f[j])
            kept == Kept(events, left)
<1>1. /\ Len(events) \in Nat /\ j - 1 \in 1 .. Len(events) /\ j \in 1 .. Len(events)
      /\ (j - 1) - 1 \in 0 .. Len(events) /\ j \in 0 .. Len(events)
  OBVIOUS
<1>2. /\ events[j] \in Event /\ events[j - 1] \in Event
      /\ f[j] = Append(f[j - 1], events[j])
      /\ f[j - 1] = Append(f[(j - 1) - 1], events[j - 1])
      /\ f[(j - 1) - 1] \in Seq(Event) /\ kept \in Seq(Event)
  <2>1. /\ \A n \in 1 .. Len(events) : f[n] = IF Said(events[n], left)
                                              THEN Append(f[n - 1], events[n]) ELSE f[n - 1]
        /\ \A n \in 0 .. Len(events) : f[n] \in Seq(Event)
    BY UpToSteps
  <2>2. kept \in Seq(Event)
    BY KeptFrom
  <2>3. events[j] \in Event /\ events[j - 1] \in Event
    BY <1>1
  <2>. HIDE DEF f, kept
  <2>. QED  BY <1>1, <2>1, <2>2, <2>3
<1>3. Len(f[j]) <= Len(kept) /\ \A i \in 1 .. Len(f[j]) : kept[i] = f[j][i]
  BY <1>1, UpToGrows
<1>. HIDE DEF f, kept
<1>4. /\ f[j - 1] \in Seq(Event) /\ Len(f[j - 1]) >= 1
      /\ f[j - 1][Len(f[j - 1])] = events[j - 1]
  <2>. DEFINE g == f[(j - 1) - 1]
  <2>1. g \in Seq(Event) /\ events[j - 1] \in Event /\ f[j - 1] = Append(g, events[j - 1])
    BY <1>2
  <2>. HIDE DEF g
  <2>. QED  BY <2>1
<1>5. /\ p = Len(f[j - 1]) + 1 /\ p - 1 = Len(f[j - 1]) /\ p \in Nat /\ p >= 2
      /\ f[j][p] = events[j] /\ f[j][p - 1] = events[j - 1]
  <2>. DEFINE g == f[j - 1]
              h == f[j]
  <2>1. g \in Seq(Event) /\ events[j] \in Event /\ h = Append(g, events[j])
    BY <1>2, <1>4
  <2>2. Len(g) \in Nat /\ Len(g) >= 1 /\ g[Len(g)] = events[j - 1]
    BY <1>4
  <2>. HIDE DEF g, h
  <2>3. Len(h) = Len(g) + 1 /\ h[Len(h)] = events[j] /\ h[Len(g)] = g[Len(g)]
    BY <2>1, <2>2
  <2>4. Len(h) - 1 = Len(g) /\ Len(h) \in Nat /\ Len(h) >= 2
    BY <2>2, <2>3
  <2>. QED  BY <2>2, <2>3, <2>4 DEF g, h
<1>6. Len(kept) \in Nat
  BY <1>2
<1>7. p <= Len(kept) /\ \A i \in 1 .. p : kept[i] = f[j][i]
  BY <1>3
<1>. HIDE DEF p
<1>8. p \in 2 .. Len(kept) /\ p - 1 \in 1 .. p /\ p \in 1 .. p
  BY <1>5, <1>6, <1>7
<1>9. kept[p - 1] = events[j - 1] /\ kept[p] = events[j]
  BY <1>5, <1>7, <1>8
<1>. QED  BY <1>8, <1>9 DEF kept

\* What is replayed comes from the log, and of turns that were not left out.
LEMMA ReplayFrom ==
  ASSUME NEW s \in Sessions, log[s] \in Seq(Event), NEW p \in DOMAIN Replay(s)
  PROVE  \E i \in 1 .. Len(log[s]) :
           /\ Replay(s)[p] = log[s][i]
           /\ log[s][i].turn \notin TurnsWith(s, "incomplete") \ TurnsWith(s, "assistant")
<1>. DEFINE left == TurnsWith(s, "incomplete") \ TurnsWith(s, "assistant")
            all == Conversation(s)
            first == IF Len(all) > HistoryWindow THEN Len(all) - HistoryWindow + 1 ELSE 1
            asks == {i \in first .. Len(all) : all[i].kind = "user"}
            start == CHOOSE i \in asks : \A j \in asks : i <= j
<1>1. all = Kept(log[s], left)
  BY DEF Conversation
<1>2. /\ all \in Seq(Event)
      /\ \A q \in 1 .. Len(all) : \E i \in 1 .. Len(log[s]) :
           all[q] = log[s][i] /\ Said(log[s][i], left)
  <2>. HIDE DEF left, all
  <2>. QED  BY <1>1, KeptFrom
<1>3. Replay(s) = IF asks = {} THEN <<>> ELSE SubSeq(all, start, Len(all))
  BY DEF Replay
<1>. HIDE DEF all
<1>4. Len(all) \in Nat /\ first \in Nat \ {0}
  BY <1>2, LimitsAssumption
<1>. HIDE DEF first
<1>5. asks # {}
  <2>. HIDE DEF asks, start
  <2>. QED  BY <1>3
<1>6. start \in 1 .. Len(all)
  <2>1. asks \subseteq 1 .. Len(all) /\ asks \subseteq Nat
    BY <1>4
  <2>. HIDE DEF asks
  <2>2. \E i \in asks : \A j \in asks : i <= j
    BY <1>5, <2>1, LeastOf
  <2>. QED  BY <2>1, <2>2
<1>. HIDE DEF start, asks
<1>7. Replay(s) = SubSeq(all, start, Len(all))
  BY <1>3, <1>5
<1>8. /\ Len(Replay(s)) = Len(all) - start + 1
      /\ \A q \in 1 .. Len(all) - start + 1 : Replay(s)[q] = all[start + q - 1]
      /\ DOMAIN Replay(s) = 1 .. Len(all) - start + 1
  BY <1>2, <1>4, <1>6, <1>7
<1>9. start + p - 1 \in 1 .. Len(all) /\ Replay(s)[p] = all[start + p - 1]
  BY <1>4, <1>6, <1>8
<1>. QED  BY <1>2, <1>9 DEF Said, left

-----------------------------------------------------------------------------
(* The log. *)

\* Appending an event adds its turn to those of its session and kind.
LEMMA AppendTurns ==
  ASSUME log \in [Sessions -> Seq(Event)], NEW s \in Sessions, NEW r \in Sessions,
         NEW kind \in {"user", "assistant", "incomplete"}, NEW t \in Turns \union {NoTurn},
         log' = Append1(s, kind, t)
  PROVE  /\ log' \in [Sessions -> Seq(Event)]
         /\ TurnsOf(r)' = IF r = s THEN TurnsOf(r) \union {t} ELSE TurnsOf(r)
         /\ \A k : TurnsWith(r, k)' = IF r = s /\ k = kind
                                      THEN TurnsWith(r, k) \union {t} ELSE TurnsWith(r, k)
<1>. DEFINE e == [kind |-> kind, turn |-> t]
<1>1. e \in Event /\ e.turn = t /\ e.kind = kind
  BY DEF Event
<1>2. log' = [log EXCEPT ![s] = Append(log[s], e)]
  BY DEF Append1
<1>. HIDE DEF e
<1>3. log[s] \in Seq(Event) /\ log[r] \in Seq(Event)
  OBVIOUS
<1>4. log' \in [Sessions -> Seq(Event)]
  <2>1. Append(log[s], e) \in Seq(Event)
    BY <1>1, <1>3
  <2>. QED  BY <1>2, <2>1
<1>5. CASE r # s
  <2>1. log'[r] = log[r]
    BY <1>2, <1>5
  <2>. QED  BY <1>4, <1>5, <2>1 DEF TurnsOf, TurnsWith
<1>6. CASE r = s
  <2>1. log'[s] = Append(log[s], e)
    BY <1>2
  <2>2. /\ DOMAIN log'[s] = DOMAIN log[s] \union {Len(log[s]) + 1}
        /\ log'[s][Len(log[s]) + 1] = e
        /\ \A i \in DOMAIN log[s] : log'[s][i] = log[s][i]
    BY <1>1, <1>3, <2>1
  <2>3. TurnsOf(s)' = TurnsOf(s) \union {t}
    BY <1>1, <2>2 DEF TurnsOf
  <2>4. ASSUME NEW k
        PROVE  TurnsWith(s, k)' = IF k = kind THEN TurnsWith(s, k) \union {t} ELSE TurnsWith(s, k)
    BY <1>1, <2>2 DEF TurnsWith
  <2>. QED  BY <1>4, <1>6, <2>3, <2>4
<1>. QED  BY <1>5, <1>6

\* Who writes the log.
LEMMA LogWriters ==
  ASSUME [Next]_vars
  PROVE  \/ log' = log
         \/ Ask \/ Answer \/ Record
         \/ IterationCap \/ ProviderFails \/ InterruptTurn \/ InterruptLate
<1>. USE DEF disk, engine, turnVars, history, bounds
<1>1. CASE \/ OpenTurn \/ CallTool \/ ToolSucceeds \/ ToolFails \/ ProposeWrite
           \/ ProposeGarbled \/ Candidate
  BY <1>1 DEF OpenTurn, CallTool, ToolSucceeds, ToolFails, ProposeWrite, ProposeGarbled, Candidate
<1>2. CASE Snapshot \/ PostCheck \/ Revise \/ CloseTurn \/ Count \/ Persist
  BY <1>2 DEF Snapshot, PostCheck, Revise, CloseTurn, Count, Persist
<1>3. CASE \E s \in Sessions : NewSession(s) \/ ResumeSession(s) \/ Switch(s)
  BY <1>3 DEF NewSession, ResumeSession, Switch
<1>4. CASE SwitchResumes \/ SwitchFails \/ Exit \/ Close \/ RefuseTurn
  BY <1>4 DEF SwitchResumes, SwitchFails, Exit, Close, RefuseTurn
<1>5. CASE Confirm \/ Execute \/ InterruptConfirm \/ Kill \/ UNCHANGED vars
  BY <1>5 DEF Confirm, Execute, InterruptConfirm, Kill, vars
<1>. QED  BY <1>1, <1>2, <1>3, <1>4, <1>5 DEF Next, TurnStep

\* Every step appends at most one event, to the log of the bound session.
LEMMA LogStep ==
  ASSUME TypeOK, Held, [Next]_vars
  PROVE  \/ log' = log
         \/ bound \in Sessions /\ \E kind \in {"user", "assistant", "incomplete"},
                                     t \in Turns \union {NoTurn} :
              log' = Append1(bound, kind, t)
<1>1. CASE Ask
  BY <1>1 DEF Ask, Held
<1>2. CASE IterationCap \/ ProviderFails \/ InterruptTurn \/ InterruptLate
  <2>1. MarkIncomplete /\ pc # "shell"
    BY <1>2 DEF IterationCap, ProviderFails, InterruptTurn, InterruptLate
  <2>. QED  BY <2>1 DEF MarkIncomplete, TypeOK, Held
<1>3. CASE Answer
  BY <1>3 DEF Answer, TypeOK, Held
<1>4. CASE Record
  BY <1>4 DEF Record, Held
<1>. QED  BY <1>1, <1>2, <1>3, <1>4, LogWriters

-----------------------------------------------------------------------------
(* Types. *)

\* Every step keeps the log an event log.
LEMMA LogTyped ==
  ASSUME TypeOK, Held, [Next]_vars
  PROVE  log' \in [Sessions -> Seq(Event)]
BY LogStep, AppendTurns DEF TypeOK

\* The counters of the bounds are only ever counted up.
LEMMA BoundsTyped ==
  ASSUME TypeOK, [Next]_vars
  PROVE  /\ interrupts' \in Nat /\ late' \in Nat /\ kills' \in Nat
         /\ typos' \in Nat /\ garbled' \in Nat
<1>. USE DEF disk, engine, turnVars, history, bounds
<1>0. /\ interrupts \in Nat /\ late \in Nat /\ kills \in Nat
      /\ typos \in Nat /\ garbled \in Nat
  BY DEF TypeOK
<1>1. CASE \E s \in Sessions : NewSession(s) \/ ResumeSession(s) \/ Switch(s)
  BY <1>0, <1>1 DEF NewSession, ResumeSession, Switch
<1>2. CASE InterruptTurn \/ InterruptLate \/ InterruptConfirm \/ Kill \/ ProposeGarbled
  BY <1>0, <1>2 DEF InterruptTurn, InterruptLate, InterruptConfirm, Kill, ProposeGarbled
<1>3. CASE UNCHANGED bounds
  BY <1>0, <1>3
<1>4. CASE \/ OpenTurn \/ CallTool \/ ToolSucceeds \/ ToolFails \/ ProposeWrite \/ Candidate
           \/ IterationCap \/ ProviderFails \/ Snapshot \/ PostCheck \/ Revise \/ Answer
           \/ CloseTurn \/ Count \/ Persist
  BY <1>0, <1>4 DEF OpenTurn, CallTool, ToolSucceeds, ToolFails, ProposeWrite, Candidate,
              IterationCap, ProviderFails, Snapshot, PostCheck, Revise, Answer, CloseTurn,
              Count, Persist
<1>5. CASE SwitchResumes \/ SwitchFails \/ Exit \/ Close \/ Ask \/ RefuseTurn
  BY <1>0, <1>5 DEF SwitchResumes, SwitchFails, Exit, Close, Ask, RefuseTurn
<1>6. CASE Confirm \/ Execute \/ Record \/ UNCHANGED vars
  BY <1>0, <1>6 DEF Confirm, Execute, Record, vars
<1>. QED  BY <1>1, <1>2, <1>3, <1>4, <1>5, <1>6 DEF Next, TurnStep

\* Every step keeps what is on disk, and the histories, in their types.
LEMMA DiskTyped ==
  ASSUME TypeOK, Held, [Next]_vars
  PROVE  /\ snaps' \in [Sessions -> SUBSET (Turns \X SUBSET (1 .. Limit))]
         /\ status' \in [Sessions -> {"none", "active", "closed", "aborted"}]
         /\ executed' \subseteq Token /\ recorded' \subseteq Token
<1>. USE DEF disk, engine, turnVars, history, bounds, TypeOK
<1>1. CASE UNCHANGED <<snaps, status, history>>
  BY <1>1
<1>2. CASE \E s \in Sessions : NewSession(s) \/ ResumeSession(s) \/ Switch(s)
  BY <1>2 DEF NewSession, ResumeSession, Switch, Closed
<1>3. CASE SwitchResumes \/ Close \/ Persist
  BY <1>3 DEF SwitchResumes, Close, Persist, Closed
<1>4. CASE Snapshot
  <2>1. turn \in Turns /\ bound \in Sessions
    BY <1>4 DEF Snapshot, Held, InTurn, Unanswered
  <2>2. <<turn, gathered>> \in Turns \X SUBSET (1 .. Limit)
    BY <2>1
  <2>3. snaps[bound] \union {<<turn, gathered>>} \in SUBSET (Turns \X SUBSET (1 .. Limit))
    BY <2>1, <2>2
  <2>. QED  BY <1>4, <2>3 DEF Snapshot
<1>5. CASE Answer
  BY <1>5, <1>1 DEF Answer
<1>6. CASE Execute \/ Record
  BY <1>6 DEF Execute, Record, Held
<1>7. CASE \/ OpenTurn \/ CallTool \/ ToolSucceeds \/ ToolFails \/ ProposeWrite
           \/ ProposeGarbled \/ Candidate \/ IterationCap \/ ProviderFails
  BY <1>7, <1>1 DEF OpenTurn, CallTool, ToolSucceeds, ToolFails, ProposeWrite, ProposeGarbled,
              Candidate, IterationCap, ProviderFails
<1>8. CASE \/ PostCheck \/ Revise \/ CloseTurn \/ Count \/ SwitchFails \/ Exit
           \/ Ask \/ RefuseTurn
  BY <1>8, <1>1 DEF PostCheck, Revise, CloseTurn, Count, SwitchFails, Exit, Ask, RefuseTurn
<1>9. CASE \/ Confirm \/ InterruptTurn \/ InterruptLate \/ InterruptConfirm \/ Kill
           \/ UNCHANGED vars
  BY <1>9, <1>1 DEF Confirm, InterruptTurn, InterruptLate, InterruptConfirm, Kill, vars
<1>. QED  BY <1>2, <1>3, <1>4, <1>5, <1>6, <1>7, <1>8, <1>9 DEF Next, TurnStep

\* The phases, the session the loop is bound to and the token being redeemed.
LEMMA LoopTyped ==
  ASSUME TypeOK, Held, [Next]_vars
  PROVE  /\ pc' \in Phases
         /\ bound' \in Sessions \union {NoSession} /\ target' \in Sessions \union {NoSession}
         /\ chosen' \in Token \union {NoToken}
<1>. USE DEF disk, engine, turnVars, history, bounds, Phases
<1>0. /\ pc \in Phases
      /\ bound \in Sessions \union {NoSession} /\ target \in Sessions \union {NoSession}
      /\ pending \subseteq Token /\ chosen \in Token \union {NoToken}
  BY DEF TypeOK
<1>1. CASE \E s \in Sessions : NewSession(s) \/ ResumeSession(s) \/ Switch(s)
  BY <1>0, <1>1 DEF NewSession, ResumeSession, Switch
<1>2. CASE SwitchResumes \/ SwitchFails \/ Exit \/ Close \/ Kill
  BY <1>0, <1>2 DEF SwitchResumes, SwitchFails, Exit, Close, Kill, Held
<1>3. CASE Confirm \/ Execute \/ Record \/ InterruptConfirm
  BY <1>0, <1>3 DEF Confirm, Execute, Record, InterruptConfirm
<1>4. CASE Ask \/ OpenTurn \/ RefuseTurn \/ CallTool \/ ToolSucceeds \/ ToolFails \/ ProposeWrite
  BY <1>0, <1>4 DEF Ask, OpenTurn, RefuseTurn, CallTool, ToolSucceeds, ToolFails, ProposeWrite
<1>5. CASE \/ ProposeGarbled \/ Candidate \/ IterationCap \/ ProviderFails
           \/ InterruptTurn \/ InterruptLate
  BY <1>0, <1>5 DEF ProposeGarbled, Candidate, IterationCap, ProviderFails, InterruptTurn,
                    InterruptLate
<1>6. CASE Snapshot \/ PostCheck \/ Revise \/ Answer \/ CloseTurn \/ Persist
  BY <1>0, <1>6 DEF Snapshot, PostCheck, Revise, Answer, CloseTurn, Persist
<1>7. CASE Count \/ UNCHANGED vars
  BY <1>0, <1>7 DEF Count, vars
<1>. QED  BY <1>1, <1>2, <1>3, <1>4, <1>5, <1>6, <1>7 DEF Next, TurnStep

\* What a step does to the state of the turn.
LEMMA TurnStepEffect ==
  ASSUME [Next]_vars
  PROVE  \/ UNCHANGED turnVars
         \/ ClearTurn
         \/ /\ pc = "prompt" /\ turn' = NextTurn(bound) /\ NextTurn(bound) \in Turns
            /\ UNCHANGED <<open, iter, gathered, counted>>
         \/ /\ pc \in {"asked", "answered"} /\ open' \in {turn, NoTurn}
            /\ UNCHANGED <<turn, iter, gathered, counted>>
         \/ /\ pc = "model" /\ iter < Limit /\ iter' = iter + 1
            /\ UNCHANGED <<turn, open, gathered, counted>>
         \/ /\ pc = "tool" /\ gathered' = gathered \union {iter}
            /\ UNCHANGED <<turn, open, iter, counted>>
         \/ /\ pc \in {"check", "revise"}
            /\ counted' \in (0 .. MaxViolations) \union {0, counted}
            /\ UNCHANGED <<turn, open, iter, gathered>>
<1>. USE DEF turnVars
<1>1. CASE \E s \in Sessions : NewSession(s) \/ ResumeSession(s) \/ Switch(s)
  BY <1>1 DEF NewSession, ResumeSession, Switch
<1>2. CASE SwitchResumes \/ SwitchFails \/ Exit \/ Close \/ Kill
  BY <1>2 DEF SwitchResumes, SwitchFails, Exit, Close, Kill
<1>3. CASE Confirm \/ Execute \/ Record \/ InterruptConfirm
  BY <1>3 DEF Confirm, Execute, Record, InterruptConfirm
<1>4. CASE Ask \/ OpenTurn \/ RefuseTurn \/ CallTool \/ ToolSucceeds \/ ToolFails \/ ProposeWrite
  BY <1>4 DEF Ask, OpenTurn, RefuseTurn, CallTool, ToolSucceeds, ToolFails, ProposeWrite
<1>5. CASE \/ ProposeGarbled \/ Candidate \/ IterationCap \/ ProviderFails
           \/ InterruptTurn \/ InterruptLate
  BY <1>5 DEF ProposeGarbled, Candidate, IterationCap, ProviderFails, InterruptTurn,
              InterruptLate
<1>6. CASE Snapshot \/ Answer \/ Persist
  BY <1>6 DEF Snapshot, Answer, Persist
<1>7. CASE PostCheck \/ Revise
  BY <1>7 DEF PostCheck, Revise
<1>8. CASE UNCHANGED vars
  BY <1>8 DEF vars
<1>9. CASE Count
  BY <1>9, Zenon DEF Count
<1>10. CASE CloseTurn
  BY <1>10 DEF CloseTurn
<1>. QED  BY <1>1, <1>2, <1>3, <1>4, <1>5, <1>6, <1>7, <1>8, <1>9, <1>10
          DEF Next, TurnStep

\* The turn, its iterations and the calls it made.
LEMMA TurnTyped ==
  ASSUME TypeOK, Held, [Next]_vars
  PROVE  /\ turn' \in Turns \union {NoTurn} /\ open' \in Turns \union {NoTurn}
         /\ iter' \in 0 .. Limit /\ gathered' \subseteq 1 .. Limit
         /\ counted' \in 0 .. MaxViolations
<1>1. /\ turn \in Turns \union {NoTurn} /\ open \in Turns \union {NoTurn}
      /\ iter \in 0 .. Limit /\ gathered \subseteq 1 .. Limit
      /\ counted \in 0 .. MaxViolations
      /\ pc = "tool" => iter \in 1 .. Limit
  BY DEF TypeOK, Held
<1>2. 0 \in 0 .. Limit /\ 0 \in 0 .. MaxViolations /\ (iter < Limit => iter + 1 \in 0 .. Limit)
  BY <1>1, LimitsAssumption
<1>. QED  BY <1>1, <1>2, TurnStepEffect DEF ClearTurn, turnVars

\* What a step does to the engine.
LEMMA EngineStepEffect ==
  ASSUME [Next]_vars
  PROVE  \/ UNCHANGED engine
         \/ FreshEngine
         \/ Ask
         \/ ProposeWrite
         \/ PostCheck
         \/ Confirm
         \/ Count
<1>. USE DEF engine
<1>1. CASE \E s \in Sessions : NewSession(s) \/ ResumeSession(s) \/ Switch(s)
  BY <1>1 DEF NewSession, ResumeSession, Switch
<1>2. CASE SwitchResumes \/ SwitchFails \/ Exit \/ Close \/ Kill
  BY <1>2 DEF SwitchResumes, SwitchFails, Exit, Close, Kill
<1>3. CASE Execute \/ Record \/ InterruptConfirm
  BY <1>3 DEF Execute, Record, InterruptConfirm
<1>4. CASE OpenTurn \/ RefuseTurn \/ CallTool \/ ToolSucceeds \/ ToolFails
  BY <1>4 DEF OpenTurn, RefuseTurn, CallTool, ToolSucceeds, ToolFails
<1>5. CASE \/ ProposeGarbled \/ Candidate \/ IterationCap \/ ProviderFails
           \/ InterruptTurn \/ InterruptLate
  BY <1>5 DEF ProposeGarbled, Candidate, IterationCap, ProviderFails, InterruptTurn,
              InterruptLate
<1>6. CASE Snapshot \/ Answer \/ CloseTurn \/ Revise \/ Persist
  BY <1>6 DEF Snapshot, Answer, CloseTurn, Revise, Persist
<1>7. CASE UNCHANGED vars
  BY <1>7 DEF vars
<1>. QED  BY <1>1, <1>2, <1>3, <1>4, <1>5, <1>6, <1>7 DEF Next, TurnStep

\* The pending writes, the counter and the evidence.
LEMMA EngineTyped ==
  ASSUME TypeOK, Held, [Next]_vars
  PROVE  /\ pending' \subseteq Token
         /\ total' \in Nat /\ halted' \in BOOLEAN
         /\ ledger' \subseteq Turns \X (1 .. Limit) /\ loaded' \in BOOLEAN
<1>0. /\ pending \subseteq Token /\ total \in Nat /\ halted \in BOOLEAN
      /\ ledger \subseteq Turns \X (1 .. Limit) /\ loaded \in BOOLEAN
  BY DEF TypeOK
<1>1. CASE UNCHANGED engine \/ FreshEngine
  <2>1. CASE UNCHANGED engine
    BY <1>0, <2>1 DEF engine
  <2>2. CASE FreshEngine
    BY <2>2 DEF FreshEngine
  <2>. QED  BY <1>1, <2>1, <2>2
<1>2. CASE Ask \/ Confirm
  BY <1>0, <1>2 DEF Ask, Confirm, Unexpired
<1>3. CASE ProposeWrite
  <2>1. bound \in Sessions /\ turn \in Turns /\ iter \in 1 .. Limit
    BY <1>3 DEF ProposeWrite, Held, InTurn, Unanswered, TypeOK
  <2>2. [session |-> bound, turn |-> turn, call |-> iter] \in Token
    BY <2>1 DEF Token
  <2>. QED  BY <1>0, <1>3, <2>2 DEF ProposeWrite
<1>4. CASE PostCheck
  <2>1. turn \in Turns /\ bound \in Sessions
    BY <1>4 DEF PostCheck, Held, InTurn, Unanswered
  <2>2. Stored(bound) \subseteq Turns \X (1 .. Limit)
    <3>1. \A p \in snaps[bound] : p[1] \in Turns /\ p[2] \subseteq 1 .. Limit
      BY <2>1 DEF TypeOK
    <3>. QED  BY <3>1 DEF Stored
  <2>3. {<<turn, n>> : n \in gathered} \subseteq Turns \X (1 .. Limit)
    BY <2>1 DEF TypeOK
  <2>. QED  BY <1>0, <1>4, <2>2, <2>3 DEF PostCheck
<1>5. CASE Count
  <2>1. total + counted \in Nat
    BY <1>0, LimitsAssumption DEF TypeOK
  <2>. QED  BY <1>0, <1>5, <2>1 DEF Count
<1>. QED  BY <1>1, <1>2, <1>3, <1>4, <1>5, EngineStepEffect

\* Every step keeps the variables in their types.
LEMMA TypePreserved ==
  ASSUME TypeOK, Held, [Next]_vars
  PROVE  TypeOK'
<1>1. log' \in [Sessions -> Seq(Event)]
  BY LogTyped
<1>. QED  BY <1>1, BoundsTyped, DiskTyped, LoopTyped, TurnTyped, EngineTyped DEF TypeOK

\* Every step leaves the process with what its phase needs.
LEMMA HeldPreserved ==
  ASSUME TypeOK, Held, [Next]_vars
  PROVE  Held'
<1>. USE DEF disk, engine, turnVars, history, bounds, Held, InTurn, Unanswered
<1>1. CASE \E s \in Sessions : NewSession(s) \/ ResumeSession(s) \/ Switch(s)
  <2>1. PICK s \in Sessions : NewSession(s) \/ ResumeSession(s) \/ Switch(s)
    BY <1>1
  <2>. QED  BY <2>1 DEF NewSession, ResumeSession, Switch
<1>2. CASE SwitchResumes \/ SwitchFails
  BY <1>2 DEF SwitchResumes, SwitchFails
<1>3. CASE Exit \/ Close \/ Kill
  BY <1>3 DEF Exit, Close, Kill, ClearTurn
<1>4. CASE Ask \/ OpenTurn \/ RefuseTurn
  BY <1>4 DEF Ask, OpenTurn, RefuseTurn, NoTurn
<1>5. CASE CallTool
  <2>1. iter \in 0 .. Limit  BY DEF TypeOK
  <2>. QED  BY <1>5, <2>1, LimitsAssumption DEF CallTool
<1>6. CASE \/ ToolSucceeds \/ ToolFails \/ ProposeWrite \/ ProposeGarbled \/ Candidate
           \/ Snapshot \/ PostCheck \/ Revise \/ Answer \/ CloseTurn
  BY <1>6 DEF ToolSucceeds, ToolFails, ProposeWrite, ProposeGarbled, Candidate,
              Snapshot, PostCheck, Revise, Answer, CloseTurn
<1>7. CASE IterationCap \/ ProviderFails \/ InterruptTurn \/ InterruptLate \/ InterruptConfirm
  BY <1>7 DEF IterationCap, ProviderFails, InterruptTurn, InterruptLate, InterruptConfirm,
              ClearTurn
<1>8. CASE Count \/ Persist
  BY <1>8 DEF Count, Persist, ClearTurn
<1>9. CASE Confirm \/ Execute \/ Record \/ UNCHANGED vars
  BY <1>9 DEF Confirm, Execute, Record, vars, TypeOK
<1>. QED  BY <1>1, <1>2, <1>3, <1>4, <1>5, <1>6, <1>7, <1>8, <1>9 DEF Next, TurnStep

-----------------------------------------------------------------------------
(* Turn ids. *)

\* A turn of a log is a number.
LEMMA TurnsAreNumbers ==
  ASSUME TypeOK, NEW s \in Sessions, NEW t \in TurnsOf(s)
  PROVE  t \in Nat /\ t \in Turns \union {NoTurn}
<1>1. log[s] \in Seq(Event)
  BY DEF TypeOK
<1>2. PICK i \in DOMAIN log[s] : t = log[s][i].turn
  BY DEF TurnsOf
<1>3. log[s][i] \in Event
  BY <1>1, <1>2
<1>. QED  BY <1>2, <1>3 DEF Event, Turns, NoTurn

\* The next turn id is larger than every turn of the log.
LEMMA NextIsLarger ==
  ASSUME TypeOK, HasLatest, NEW s \in Sessions
  PROVE  /\ NextTurn(s) \in Nat \ {0}
         /\ \A t \in TurnsOf(s) \union {NoTurn} : t < NextTurn(s)
<1>. DEFINE seen == TurnsOf(s) \union {NoTurn}
            last == CHOOSE n \in seen : \A m \in seen : m <= n
<1>1. \E n \in seen : \A m \in seen : m <= n
  BY DEF HasLatest
<1>2. last \in seen /\ \A m \in seen : m <= last
  BY <1>1
<1>3. \A m \in seen : m \in Nat
  BY TurnsAreNumbers DEF NoTurn
<1>4. NextTurn(s) = 1 + last
  BY DEF NextTurn
<1>. HIDE DEF last
<1>. QED  BY <1>2, <1>3, <1>4

-----------------------------------------------------------------------------
(* What a step adds to a log. *)

\* Only a question brings a turn to a log that was not in it before.
LEMMA TurnsStep ==
  ASSUME TypeOK, Held, Named, [Next]_vars, NEW s \in Sessions
  PROVE  \/ TurnsOf(s)' = TurnsOf(s)
         \/ Record /\ TurnsOf(s)' = TurnsOf(s) \union {NoTurn}
         \/ Ask /\ s = bound /\ TurnsOf(s)' = TurnsOf(s) \union {NextTurn(s)}
<1>. USE DEF disk, engine, turnVars, history, bounds
<1>0. log \in [Sessions -> Seq(Event)]
  BY DEF TypeOK
<1>1. CASE log' = log
  BY <1>1 DEF TurnsOf
<1>2. CASE Ask
  <2>1. log' = Append1(bound, "user", NextTurn(bound)) /\ bound \in Sessions
        /\ NextTurn(bound) \in Turns
    BY <1>2 DEF Ask, Held
  <2>. QED  BY <1>0, <1>2, <2>1, AppendTurns
<1>3. CASE IterationCap \/ ProviderFails \/ InterruptTurn \/ InterruptLate
  <2>1. MarkIncomplete /\ pc \in InTurn \union {"persist"}
    BY <1>3 DEF IterationCap, ProviderFails, InterruptTurn, InterruptLate, InTurn, Unanswered
  <2>2. bound \in Sessions /\ turn \in TurnsOf(bound) /\ turn \in Turns /\ open \in {NoTurn, turn}
    BY <2>1 DEF Held, Named, InTurn, Unanswered
  <2>3. CASE open = NoTurn
    BY <1>1, <2>1, <2>3 DEF MarkIncomplete
  <2>4. CASE open # NoTurn
    <3>1. log' = Append1(bound, "incomplete", turn)
      BY <2>1, <2>2, <2>4 DEF MarkIncomplete
    <3>2. TurnsOf(s)' = IF s = bound THEN TurnsOf(s) \union {turn} ELSE TurnsOf(s)
      BY <1>0, <2>2, <3>1, AppendTurns
    <3>. QED  BY <2>2, <3>2
  <2>. QED  BY <2>3, <2>4
<1>4. CASE Answer
  <2>1. log' = Append1(bound, "assistant", turn) /\ bound \in Sessions
        /\ turn \in TurnsOf(bound) /\ turn \in Turns
    BY <1>4 DEF Answer, Held, Named, InTurn, Unanswered
  <2>2. TurnsOf(s)' = IF s = bound THEN TurnsOf(s) \union {turn} ELSE TurnsOf(s)
    BY <1>0, <2>1, AppendTurns
  <2>. QED  BY <2>1, <2>2
<1>5. CASE Record
  <2>1. log' = Append1(bound, "user", NoTurn) /\ bound \in Sessions
    BY <1>5 DEF Record, Held
  <2>2. TurnsOf(s)' = IF s = bound THEN TurnsOf(s) \union {NoTurn} ELSE TurnsOf(s)
    BY <1>0, <2>1, AppendTurns
  <2>. QED  BY <1>5, <2>2
<1>6. log' = log \/ Ask \/ Answer \/ Record
      \/ IterationCap \/ ProviderFails \/ InterruptTurn \/ InterruptLate
  BY LogWriters
<1>. QED  BY <1>1, <1>2, <1>3, <1>4, <1>5, <1>6

\* Only Answer answers a turn.
LEMMA AnsweredStep ==
  ASSUME TypeOK, Held, [Next]_vars, NEW s \in Sessions
  PROVE  \/ TurnsWith(s, "assistant")' = TurnsWith(s, "assistant")
         \/ /\ Answer /\ s = bound
            /\ TurnsWith(s, "assistant")' = TurnsWith(s, "assistant") \union {turn}
<1>0. log \in [Sessions -> Seq(Event)]
  BY DEF TypeOK
<1>1. CASE log' = log
  BY <1>1 DEF TurnsWith
<1>2. CASE Answer
  <2>1. log' = Append1(bound, "assistant", turn) /\ bound \in Sessions /\ turn \in Turns
    BY <1>2 DEF Answer, Held, InTurn, Unanswered
  <2>. QED  BY <1>0, <1>2, <2>1, AppendTurns
<1>3. ASSUME NEW kind \in {"user", "incomplete"}, NEW t \in Turns \union {NoTurn},
             bound \in Sessions, log' = Append1(bound, kind, t)
      PROVE  TurnsWith(s, "assistant")' = TurnsWith(s, "assistant")
  BY <1>0, <1>3, AppendTurns
<1>4. CASE Ask \/ Record
  BY <1>3, <1>4 DEF Ask, Record, Held
<1>5. CASE IterationCap \/ ProviderFails \/ InterruptTurn \/ InterruptLate
  <2>1. MarkIncomplete /\ bound \in Sessions
    BY <1>5 DEF IterationCap, ProviderFails, InterruptTurn, InterruptLate, Held
  <2>. QED  BY <1>1, <1>3, <2>1 DEF MarkIncomplete, TypeOK
<1>. QED  BY <1>1, <1>2, <1>4, <1>5, LogWriters

\* The turns of a log keep having a largest one.
LEMMA LatestPreserved ==
  ASSUME TypeOK, Held, Named, HasLatest, [Next]_vars
  PROVE  HasLatest'
<1>. SUFFICES ASSUME NEW s \in Sessions
              PROVE  \E n \in TurnsOf(s)' \union {NoTurn} :
                       \A m \in TurnsOf(s)' \union {NoTurn} : m <= n
  BY DEF HasLatest, NoTurn
<1>1. PICK n \in TurnsOf(s) \union {NoTurn} : \A m \in TurnsOf(s) \union {NoTurn} : m <= n
  BY DEF HasLatest
<1>2. CASE TurnsOf(s)' \union {NoTurn} = TurnsOf(s) \union {NoTurn}
  BY <1>1, <1>2
<1>3. CASE Ask /\ TurnsOf(s)' = TurnsOf(s) \union {NextTurn(s)} /\ s = bound
  <2>1. NextTurn(s) \in Nat /\ \A m \in TurnsOf(s) \union {NoTurn} : m < NextTurn(s)
    BY NextIsLarger
  <2>2. \A m \in TurnsOf(s) \union {NoTurn} : m \in Nat
    BY TurnsAreNumbers DEF NoTurn
  <2>3. \A m \in TurnsOf(s)' \union {NoTurn} : m <= NextTurn(s)
    BY <1>3, <2>1, <2>2
  <2>4. NextTurn(s) \in TurnsOf(s)' \union {NoTurn}
    BY <1>3
  <2>. QED  BY <2>3, <2>4
<1>. QED  BY <1>2, <1>3, TurnsStep

-----------------------------------------------------------------------------
(* What a step does to the rest. *)

\* A turn runs from the question that opened it, in one session.
LEMMA TurnGoesOn ==
  ASSUME [Next]_vars, pc' \in InTurn \union {"persist"}
  PROVE  /\ bound' = bound
         /\ \/ Ask /\ pc' = "asked"
            \/ /\ pc \in InTurn \union {"persist"} /\ turn' = turn
               /\ pc' \in Unanswered => pc \in Unanswered
               /\ pc' \in InTurn => pc \in InTurn
               /\ pc' \in {"asked", "model", "tool", "verify"} =>
                    pc \in {"asked", "model", "tool", "verify"}
               /\ pc' = "check" => Snapshot \/ (pc = "check" /\ gathered' = gathered)
               /\ pc' \in {"revise", "answer"} =>
                    PostCheck \/ (pc \in {"revise", "answer"} /\ UNCHANGED engine)
<1>. USE DEF disk, engine, turnVars, history, bounds, InTurn, Unanswered
<1>1. CASE Ask
  BY <1>1 DEF Ask
<1>2. CASE \/ OpenTurn \/ CallTool \/ ToolSucceeds \/ ToolFails \/ ProposeWrite \/ Candidate
  BY <1>2 DEF OpenTurn, CallTool, ToolSucceeds, ToolFails, ProposeWrite, Candidate
<1>3. CASE Snapshot \/ PostCheck \/ Revise \/ Answer \/ CloseTurn
  BY <1>3 DEF Snapshot, PostCheck, Revise, Answer, CloseTurn
<1>4. CASE ProposeGarbled \/ IterationCap \/ ProviderFails \/ InterruptTurn \/ InterruptLate
  BY <1>4 DEF ProposeGarbled, IterationCap, ProviderFails, InterruptTurn, InterruptLate
<1>5. CASE Count
  <2>1. pc = "count" /\ bound' = bound /\ ((pc' = "persist" /\ UNCHANGED turnVars) \/ pc' = "prompt")
    BY <1>5, Zenon DEF Count
  <2>. QED  BY <2>1
<1>6. CASE Persist
  BY <1>6 DEF Persist
<1>7. CASE \E s \in Sessions : NewSession(s) \/ ResumeSession(s) \/ Switch(s)
  BY <1>7 DEF NewSession, ResumeSession, Switch
<1>8. CASE SwitchResumes \/ SwitchFails \/ Exit \/ Close \/ RefuseTurn
  BY <1>8 DEF SwitchResumes, SwitchFails, Exit, Close, RefuseTurn
<1>9. CASE Confirm \/ Execute \/ Record \/ InterruptConfirm \/ Kill
  BY <1>9 DEF Confirm, Execute, Record, InterruptConfirm, Kill
<1>10. CASE UNCHANGED vars
  BY <1>10 DEF vars
<1>. QED  BY <1>1, <1>2, <1>3, <1>4, <1>5, <1>6, <1>7, <1>8, <1>9, <1>10 DEF Next, TurnStep

\* The loop is bound to another session only by entering one.
LEMMA BoundStep ==
  ASSUME TypeOK, [Next]_vars
  PROVE  \/ bound' = bound /\ (pc' = "shell" => pc = "shell")
                           /\ (pc = "shell" => pc' = "shell" /\ UNCHANGED engine)
         \/ pc' = "shell" /\ FreshEngine
         \/ pc' = "prompt" /\ SwitchResumes
         \/ /\ pc = "shell" /\ pc' = "prompt" /\ UNCHANGED <<log, snaps, engine, history>>
            /\ status'[bound'] = "active" /\ bound' \in Sessions
<1>. USE DEF disk, engine, turnVars, history, bounds
<1>1. CASE Ask \/ RefuseTurn \/ Exit \/ SwitchFails
  BY <1>1 DEF Ask, RefuseTurn, Exit, SwitchFails
<1>2. CASE \/ OpenTurn \/ CallTool \/ ToolSucceeds \/ ToolFails \/ ProposeWrite \/ Candidate
  BY <1>2 DEF OpenTurn, CallTool, ToolSucceeds, ToolFails, ProposeWrite, Candidate
<1>3. CASE Snapshot \/ PostCheck \/ Revise \/ Answer \/ CloseTurn
  BY <1>3 DEF Snapshot, PostCheck, Revise, Answer, CloseTurn
<1>4. CASE ProposeGarbled \/ IterationCap \/ ProviderFails \/ InterruptTurn \/ InterruptLate
  BY <1>4 DEF ProposeGarbled, IterationCap, ProviderFails, InterruptTurn, InterruptLate
<1>5. CASE Count
  <2>1. pc = "count" /\ bound' = bound /\ (pc' = "persist" \/ pc' = "prompt")
    BY <1>5, Zenon DEF Count
  <2>. QED  BY <2>1
<1>6. CASE Persist
  BY <1>6 DEF Persist
<1>7. CASE \E s \in Sessions : NewSession(s) \/ ResumeSession(s) \/ Switch(s)
  BY <1>7 DEF NewSession, ResumeSession, Switch, TypeOK
<1>8. CASE SwitchResumes \/ Close \/ Kill
  BY <1>8 DEF SwitchResumes, Close, Kill
<1>9. CASE Confirm \/ Execute \/ Record \/ InterruptConfirm
  BY <1>9 DEF Confirm, Execute, Record, InterruptConfirm
<1>10. CASE UNCHANGED vars
  BY <1>10 DEF vars
<1>. QED  BY <1>1, <1>2, <1>3, <1>4, <1>5, <1>6, <1>7, <1>8, <1>9, <1>10 DEF Next, TurnStep

\* Who writes the snapshots, and who executes writes.
LEMMA SnapStep ==
  ASSUME [Next]_vars
  PROVE  (snaps' = snaps \/ Snapshot) /\ (executed' = executed \/ Execute)
<1>. USE DEF disk, history
<1>1. CASE Ask \/ RefuseTurn \/ Exit \/ SwitchFails \/ SwitchResumes \/ Close \/ Kill
  BY <1>1 DEF Ask, RefuseTurn, Exit, SwitchFails, SwitchResumes, Close, Kill
<1>2. CASE \/ OpenTurn \/ CallTool \/ ToolSucceeds \/ ToolFails \/ ProposeWrite \/ Candidate
  BY <1>2 DEF OpenTurn, CallTool, ToolSucceeds, ToolFails, ProposeWrite, Candidate
<1>3. CASE Snapshot \/ PostCheck \/ Revise \/ Answer \/ CloseTurn \/ Count \/ Persist
  BY <1>3 DEF Snapshot, PostCheck, Revise, Answer, CloseTurn, Count, Persist
<1>4. CASE ProposeGarbled \/ IterationCap \/ ProviderFails \/ InterruptTurn \/ InterruptLate
  BY <1>4 DEF ProposeGarbled, IterationCap, ProviderFails, InterruptTurn, InterruptLate
<1>5. CASE \E s \in Sessions : NewSession(s) \/ ResumeSession(s) \/ Switch(s)
  BY <1>5 DEF NewSession, ResumeSession, Switch
<1>6. CASE Confirm \/ Execute \/ Record \/ InterruptConfirm \/ UNCHANGED vars
  BY <1>6 DEF Confirm, Execute, Record, InterruptConfirm, vars
<1>. QED  BY <1>1, <1>2, <1>3, <1>4, <1>5, <1>6 DEF Next, TurnStep

\* A write is executed for the token that was confirmed.
LEMMA RedeemedStep ==
  ASSUME [Next]_vars, pc' = "execute"
  PROVE  Confirm \/ (pc = "execute" /\ chosen' = chosen /\ UNCHANGED engine /\ bound' = bound
                     /\ UNCHANGED <<log, executed>>)
<1>. USE DEF disk, engine, history
<1>1. CASE Ask \/ RefuseTurn \/ Exit \/ SwitchFails \/ SwitchResumes \/ Close \/ Kill
  BY <1>1 DEF Ask, RefuseTurn, Exit, SwitchFails, SwitchResumes, Close, Kill
<1>2. CASE \/ OpenTurn \/ CallTool \/ ToolSucceeds \/ ToolFails \/ ProposeWrite \/ Candidate
  BY <1>2 DEF OpenTurn, CallTool, ToolSucceeds, ToolFails, ProposeWrite, Candidate
<1>3. CASE Snapshot \/ PostCheck \/ Revise \/ Answer \/ CloseTurn \/ Persist
  BY <1>3 DEF Snapshot, PostCheck, Revise, Answer, CloseTurn, Persist
<1>4. CASE ProposeGarbled \/ IterationCap \/ ProviderFails \/ InterruptTurn \/ InterruptLate
  BY <1>4 DEF ProposeGarbled, IterationCap, ProviderFails, InterruptTurn, InterruptLate
<1>5. CASE Count
  <2>1. pc' = "persist" \/ pc' = "prompt"
    BY <1>5, Zenon DEF Count
  <2>. QED  BY <2>1
<1>6. CASE \E s \in Sessions : NewSession(s) \/ ResumeSession(s) \/ Switch(s)
  BY <1>6 DEF NewSession, ResumeSession, Switch
<1>7. CASE Confirm \/ Execute \/ Record \/ InterruptConfirm
  BY <1>7 DEF Execute, Record, InterruptConfirm
<1>8. CASE UNCHANGED vars
  BY <1>8 DEF vars
<1>. QED  BY <1>1, <1>2, <1>3, <1>4, <1>5, <1>6, <1>7, <1>8 DEF Next, TurnStep

-----------------------------------------------------------------------------
(* The parts of the invariant. *)

\* What a state function says of the session of the next state.
LEMMA InPrimed ==
  ASSUME NEW s
  PROVE  /\ s = bound' => /\ TurnsOf(bound)' = TurnsOf(s)'
                          /\ TurnsWith(bound, "assistant")' = TurnsWith(s, "assistant")'
                          /\ Stored(bound)' = Stored(s)'
         /\ s = chosen'.session => TurnsOf(chosen.session)' = TurnsOf(s)'
BY DEF TurnsOf, TurnsWith, Stored

\* Logs only grow.
LEMMA TurnsStay ==
  ASSUME TypeOK, Held, Named, [Next]_vars, NEW s \in Sessions
  PROVE  TurnsOf(s) \subseteq TurnsOf(s)'
BY TurnsStep

\* A turn id is in the log before anything is done under it.
LEMMA NamedPreserved ==
  ASSUME TypeOK, Held, Named, [Next]_vars
  PROVE  Named'
<1>1. ASSUME NEW s \in Sessions, NEW p \in snaps'[s]
      PROVE  p[1] \in TurnsOf(s)'
  <2>1. CASE snaps' = snaps
    BY <1>1, <2>1, TurnsStay DEF Named
  <2>2. CASE Snapshot
    <3>1. turn \in TurnsOf(bound) /\ bound \in Sessions
      BY <2>2 DEF Snapshot, Named, Held, InTurn, Unanswered
    <3>2. p \in snaps[s] \/ (s = bound /\ p = <<turn, gathered>>)
      BY <1>1, <2>2 DEF Snapshot, TypeOK
    <3>3. p[1] \in TurnsOf(s)
      BY <3>1, <3>2 DEF Named
    <3>. QED  BY <3>3, TurnsStay
  <2>. QED  BY <2>1, <2>2, SnapStep
<1>2. ASSUME NEW tok \in executed' \union pending'
      PROVE  tok.turn \in TurnsOf(tok.session)'
  <2>1. \/ tok \in executed \union pending
        \/ Execute /\ tok = chosen
        \/ ProposeWrite /\ tok = [session |-> bound, turn |-> turn, call |-> iter]
    <3>1. executed' \subseteq executed \union (IF Execute THEN {chosen} ELSE {})
      BY SnapStep DEF Execute
    <3>2. CASE ProposeWrite
      BY <1>2, <3>1, <3>2 DEF ProposeWrite, history
    <3>3. CASE ~ProposeWrite
      BY <1>2, <3>1, <3>3, EngineStepEffect
         DEF engine, FreshEngine, Ask, Unexpired, PostCheck, Confirm, Count
    <3>. QED  BY <3>2, <3>3
  <2>2. tok.session \in Sessions /\ tok.turn \in TurnsOf(tok.session)
    <3>1. CASE tok \in executed \union pending
      BY <3>1 DEF Named, TypeOK, Token
    <3>2. CASE Execute /\ tok = chosen
      BY <3>2 DEF Execute, Named, Held, Token
    <3>3. CASE ProposeWrite /\ tok = [session |-> bound, turn |-> turn, call |-> iter]
      BY <3>3 DEF ProposeWrite, Named, Held, InTurn, Unanswered
    <3>. QED  BY <2>1, <3>1, <3>2, <3>3
  <2>. QED  BY <2>2, TurnsStay
<1>3. ASSUME pc' = "execute"
      PROVE  (chosen.turn \in TurnsOf(chosen.session))'
  <2>1. Confirm \/ (pc = "execute" /\ chosen' = chosen)
    BY <1>3, RedeemedStep
  <2>2. chosen' \in Token /\ chosen'.turn \in TurnsOf(chosen'.session)
    BY <2>1 DEF Confirm, Named, TypeOK, Held
  <2>3. PICK s \in Sessions : s = chosen'.session
    BY <2>2 DEF Token
  <2>4. chosen'.turn \in TurnsOf(s)'
    BY <2>2, <2>3, TurnsStay
  <2>. QED  BY <2>3, <2>4, InPrimed
<1>4. ASSUME pc' \in InTurn \union {"persist"}
      PROVE  (turn \in TurnsOf(bound))'
  <2>1. PICK s \in Sessions : s = bound /\ s = bound'
    BY <1>4, TurnGoesOn DEF Ask, Held, InTurn, Unanswered
  <2>2. CASE Ask
    <3>1. log' = Append1(s, "user", turn') /\ turn' \in Turns
      BY <2>1, <2>2 DEF Ask
    <3>2. turn' \in TurnsOf(s)'
      BY <3>1, AppendTurns DEF TypeOK
    <3>. QED  BY <2>1, <3>2, InPrimed
  <2>3. CASE pc \in InTurn \union {"persist"} /\ turn' = turn
    <3>1. turn' \in TurnsOf(s)'
      BY <2>1, <2>3, TurnsStay DEF Named
    <3>. QED  BY <2>1, <3>1, InPrimed
  <2>. QED  BY <1>4, <2>2, <2>3, TurnGoesOn
<1>. QED  BY <1>1, <1>2, <1>3, <1>4 DEF Named

\* A turn runs alone under its id, up to the action that uses it.
LEMMA TurnIsNewPreserved ==
  ASSUME TypeOK, Held, HasLatest, Named, TurnIsNew, [Next]_vars
  PROVE  TurnIsNew'
<1>. USE DEF InTurn, Unanswered
<1>1. CASE pc' \notin InTurn
  BY <1>1 DEF TurnIsNew
<1>2. CASE Ask
  <2>1. PICK s \in Sessions : s = bound
    BY <1>2 DEF Ask, Held
  <2>2. /\ pc' = "asked" /\ bound' = s /\ turn' = NextTurn(s) /\ turn' \in Turns
        /\ snaps' = snaps /\ executed' = executed /\ log' = Append1(s, "user", turn')
    BY <1>2, <2>1 DEF Ask, history
  <2>3. \A t \in TurnsOf(s) : t < turn' /\ t \in Nat /\ turn' \in Nat
    BY <2>2, NextIsLarger, TurnsAreNumbers
  <2>4. /\ TurnsOf(s)' = TurnsOf(s) \union {turn'}
        /\ TurnsWith(s, "assistant")' = TurnsWith(s, "assistant")
    BY <2>2, AppendTurns DEF TypeOK
  <2>5. \A t \in TurnsOf(s)' : t <= turn'
    BY <2>2, <2>3, <2>4 DEF Turns
  <2>6. \A p \in snaps[s] : p[1] # turn'
    BY <2>3 DEF Named
  <2>7. turn' \notin TurnsWith(s, "assistant")
    BY <2>3 DEF TurnsWith, TurnsOf
  <2>8. \A tok \in executed : ~(tok.session = s /\ tok.turn = turn')
    BY <2>3 DEF Named
  <2>. QED  BY <2>2, <2>4, <2>5, <2>6, <2>7, <2>8, InPrimed DEF TurnIsNew
<1>3. CASE pc' \in InTurn /\ ~Ask
  <2>1. /\ bound' = bound /\ pc \in InTurn /\ turn' = turn
        /\ pc' \in Unanswered => pc \in Unanswered
    BY <1>3, TurnGoesOn
  <2>2. PICK s \in Sessions : s = bound
    BY <2>1 DEF Held
  <2>3. (\A t \in TurnsOf(bound) : t <= turn)'
    <3>1. turn \in Nat /\ turn >= 0 /\ TurnsOf(s)' \subseteq TurnsOf(s) \union {NoTurn}
      BY <1>3, <2>1, <2>2, TurnsStep DEF Held, Turns
    <3>. QED  BY <2>1, <2>2, <3>1, InPrimed DEF TurnIsNew, NoTurn
  <2>4. (pc \in {"asked", "model", "tool", "verify"} => \A p \in snaps[bound] : p[1] # turn)'
    BY <1>3, <2>1, TurnGoesOn, SnapStep DEF TurnIsNew, Snapshot
  <2>5. ASSUME pc' = "check"
        PROVE  /\ <<turn, gathered>>' \in snaps'[bound']
               /\ \A p \in snaps'[bound'] : p[1] = turn' => p[2] = gathered'
    <3>1. CASE Snapshot
      <4>1. /\ snaps'[s] = snaps[s] \union {<<turn, gathered>>} /\ gathered' = gathered
            /\ \A p \in snaps[s] : p[1] # turn
        BY <2>2, <3>1 DEF Snapshot, TypeOK, TurnIsNew, turnVars
      <4>. QED  BY <2>1, <2>2, <4>1
    <3>2. CASE pc = "check" /\ gathered' = gathered
      <4>1. snaps' = snaps
        BY <3>2, SnapStep DEF Snapshot
      <4>. QED  BY <2>1, <3>2, <4>1 DEF TurnIsNew
    <3>. QED  BY <1>3, <2>5, <3>1, <3>2, TurnGoesOn
  <2>6. ASSUME pc' \in Unanswered
        PROVE  /\ (turn \notin TurnsWith(bound, "assistant"))'
               /\ \A tok \in executed' : ~(tok.session = bound' /\ tok.turn = turn')
    <3>1. pc' # "answered" /\ pc \notin {"execute"}
      BY <2>1, <2>6
    <3>2. TurnsWith(s, "assistant")' = TurnsWith(s, "assistant") /\ executed' = executed
      BY <3>1, AnsweredStep, SnapStep DEF Answer, Execute
    <3>. QED  BY <2>1, <2>2, <2>6, <3>2, InPrimed DEF TurnIsNew
  <2>. QED  BY <2>3, <2>4, <2>5, <2>6 DEF TurnIsNew
<1>. QED  BY <1>1, <1>2, <1>3

\* The engine is halted exactly when the session is aborted, but for the moment
\* in which one is written after the other.
LEMMA AbortsPreserved ==
  ASSUME TypeOK, Held, Aborts, [Next]_vars
  PROVE  Aborts'
<1>. USE DEF disk, engine, turnVars, history, bounds, Aborts, InTurn, Unanswered
<1>0. /\ status \in [Sessions -> {"none", "active", "closed", "aborted"}]
      /\ total \in Nat /\ counted \in Nat /\ late \in Nat
      /\ 0 <= EpistemicLimit /\ EpistemicLimit \in Nat
      /\ pc # "shell" => bound \in Sessions
      /\ pc = "switch" => target \in Sessions /\ target # bound
  BY LimitsAssumption DEF TypeOK, Held
<1>1. ASSUME NEW s \in Sessions, NewSession(s) \/ ResumeSession(s)
      PROVE  Aborts'
  BY <1>0, <1>1 DEF NewSession, ResumeSession
<1>2. ASSUME NEW s \in Sessions, Switch(s)
      PROVE  Aborts'
  BY <1>0, <1>2 DEF Switch, Closed
<1>3. CASE SwitchResumes
  BY <1>0, <1>3 DEF SwitchResumes, FreshEngine
<1>4. CASE Close \/ Kill
  BY <1>0, <1>4 DEF Close, Kill, FreshEngine
<1>5. CASE Ask
  BY <1>0, <1>5 DEF Ask
<1>6. CASE RefuseTurn \/ Exit \/ SwitchFails
  BY <1>0, <1>6 DEF RefuseTurn, Exit, SwitchFails
<1>7. CASE \/ OpenTurn \/ CallTool \/ ToolSucceeds \/ ToolFails \/ ProposeWrite \/ Candidate
           \/ ProposeGarbled
  BY <1>0, <1>7 DEF OpenTurn, CallTool, ToolSucceeds, ToolFails, ProposeWrite, Candidate,
                    ProposeGarbled
<1>8. CASE Snapshot \/ PostCheck \/ Revise \/ Answer \/ CloseTurn
  BY <1>0, <1>8 DEF Snapshot, PostCheck, Revise, Answer, CloseTurn
<1>9. CASE IterationCap \/ ProviderFails \/ InterruptTurn
  BY <1>0, <1>9 DEF IterationCap, ProviderFails, InterruptTurn
<1>10. CASE InterruptLate \/ InterruptConfirm
  BY <1>0, <1>10 DEF InterruptLate, InterruptConfirm
<1>11. CASE Count
  <2>1. CASE total + counted > EpistemicLimit
    <3>1. /\ halted' = TRUE /\ pc' = "persist" /\ pc = "count"
          /\ bound' = bound /\ status' = status
      BY <1>11, <2>1, Zenon DEF Count
    <3>. QED  BY <1>0, <3>1
  <2>2. CASE ~(total + counted > EpistemicLimit)
    <3>1. /\ halted' = halted /\ pc' = "prompt" /\ pc = "count" /\ late' = late
          /\ bound' = bound /\ status' = status /\ total' = total + counted
      BY <1>11, <2>2, Zenon DEF Count
    <3>. QED  BY <1>0, <2>2, <3>1
  <2>. QED  BY <2>1, <2>2
<1>12. CASE Persist
  BY <1>0, <1>12 DEF Persist
<1>13. CASE Confirm \/ Execute \/ Record \/ UNCHANGED vars
  BY <1>0, <1>13 DEF Confirm, Execute, Record, vars
<1>. QED  BY <1>1, <1>2, <1>3, <1>4, <1>5, <1>6, <1>7, <1>8, <1>9, <1>10, <1>11, <1>12, <1>13
          DEF Next, TurnStep

\* Tokens of a session stay fresh until a turn too late begins, or they are used.
LEMMA ConsentPreserved ==
  ASSUME TypeOK, Held, HasLatest, Named, TurnIsNew, Consent, [Next]_vars
  PROVE  Consent'
<1>1. CASE pc' = "shell"
  <2>1. CASE FreshEngine
    BY <1>1, <2>1 DEF FreshEngine, Consent
  <2>2. CASE pc = "shell" /\ UNCHANGED engine
    BY <1>1, <2>2 DEF Consent, engine
  <2>. QED  BY <1>1, <2>1, <2>2, BoundStep
<1>2. CASE pc' = "prompt" /\ (SwitchResumes \/ pc = "shell")
  <2>1. pending' = {}
    BY <1>2, BoundStep DEF SwitchResumes, FreshEngine, Consent, engine
  <2>. QED  BY <1>2, <2>1 DEF Consent
<1>3. CASE pc' # "shell" /\ bound' = bound /\ pc # "shell"
  <2>1. PICK s \in Sessions : s = bound /\ s = bound'
    BY <1>3 DEF Held
  <2>2. ASSUME NEW tok, tok.turn \in Nat, \A t \in TurnsOf(s) : t <= tok.turn + TokenAge, ~Ask
        PROVE  \A t \in TurnsOf(s)' : t <= tok.turn + TokenAge
    <3>1. TurnsOf(s)' \subseteq TurnsOf(s) \union {NoTurn}
      BY <2>2, TurnsStep
    <3>. QED  BY <2>2, <3>1, LimitsAssumption DEF NoTurn
  <2>3. ASSUME NEW tok \in pending'
        PROVE  Fresh(tok)'
    <3>1. CASE Ask
      <4>1. /\ tok \in pending /\ executed' = executed
            /\ NextTurn(s) - tok.turn <= TokenAge /\ NextTurn(s) \in Turns
        BY <2>1, <2>3, <3>1 DEF Ask, Unexpired, history
      <4>2. TurnsOf(s)' \subseteq TurnsOf(s) \union {NextTurn(s), NoTurn}
        BY TurnsStep
      <4>3. Fresh(tok) /\ tok.turn \in Nat
        BY <4>1 DEF Consent, TypeOK, Token, Turns
      <4>4. \A t \in TurnsOf(s)' : t <= tok.turn + TokenAge
        BY <2>1, <4>1, <4>2, <4>3, LimitsAssumption DEF Fresh, Turns, NoTurn
      <4>. QED  BY <2>1, <4>1, <4>3, <4>4, InPrimed DEF Fresh
    <3>2. CASE ProposeWrite /\ tok = [session |-> bound, turn |-> turn, call |-> iter]
      <4>1. /\ turn \in Turns /\ \A t \in TurnsOf(s) : t <= turn /\ t \in Nat
            /\ \A e \in executed : ~(e.session = bound /\ e.turn = turn)
        BY <2>1, <3>2, TurnsAreNumbers
           DEF ProposeWrite, Held, TurnIsNew, InTurn, Unanswered
      <4>2. tok.session = bound /\ tok.turn = turn /\ tok \notin executed
        BY <3>2, <4>1
      <4>3. log' = log /\ executed' = executed
        BY <3>2 DEF ProposeWrite, disk, history
      <4>4. \A t \in TurnsOf(s)' : t <= tok.turn + TokenAge
        BY <4>1, <4>2, <4>3, LimitsAssumption DEF TurnsOf, Turns
      <4>. QED  BY <2>1, <4>2, <4>3, <4>4, InPrimed DEF Fresh
    <3>3. CASE tok \in pending /\ ~Ask
      <4>1. Fresh(tok) /\ tok.turn \in Nat
        BY <3>3 DEF Consent, TypeOK, Token, Turns
      <4>2. \A t \in TurnsOf(s)' : t <= tok.turn + TokenAge
        BY <2>1, <2>2, <3>3, <4>1 DEF Fresh
      <4>3. tok \notin executed'
        BY <3>3, <4>1, SnapStep DEF Fresh, Execute, Consent
      <4>. QED  BY <2>1, <4>1, <4>2, <4>3, InPrimed DEF Fresh
    <3>4. \/ Ask \/ tok \in pending
          \/ ProposeWrite /\ tok = [session |-> bound, turn |-> turn, call |-> iter]
      BY <2>3, EngineStepEffect DEF engine, FreshEngine, ProposeWrite, PostCheck, Confirm, Count
    <3>. QED  BY <3>1, <3>2, <3>3, <3>4
  <2>4. ASSUME pc' = "execute"
        PROVE  (Fresh(chosen) /\ chosen \notin pending)'
    <3>1. /\ chosen' \notin pending' /\ chosen' \in Token /\ executed' = executed
          /\ Fresh(chosen') /\ ~Ask
      BY <2>4, RedeemedStep DEF Confirm, Consent, TypeOK, Held, history, engine, Ask
    <3>2. chosen'.turn \in Nat
      BY <3>1 DEF Token, Turns
    <3>3. \A t \in TurnsOf(s)' : t <= chosen'.turn + TokenAge
      BY <2>1, <2>2, <3>1, <3>2 DEF Fresh
    <3>. QED  BY <2>1, <3>1, <3>3, InPrimed DEF Fresh
  <2>. QED  BY <1>3, <2>3, <2>4 DEF Consent
<1>. QED  BY <1>1, <1>2, <1>3, BoundStep

\* Only a snapshot puts values on disk: those of the turn that is running.
LEMMA StoredStep ==
  ASSUME TypeOK, [Next]_vars, NEW s \in Sessions
  PROVE  Stored(s)' = IF Snapshot /\ s = bound
                      THEN Stored(s) \union {<<turn, n>> : n \in gathered} ELSE Stored(s)
<1>1. CASE ~Snapshot
  BY <1>1, SnapStep DEF Stored
<1>2. CASE Snapshot /\ s # bound
  BY <1>2 DEF Snapshot, Stored, TypeOK
<1>3. CASE Snapshot /\ s = bound
  <2>1. snaps'[s] = snaps[s] \union {<<turn, gathered>>}
    BY <1>3 DEF Snapshot, TypeOK
  <2>. DEFINE Values(p) == {<<p[1], n>> : n \in p[2]}
  <2>2. /\ \A e : e \in Stored(s)' <=> \E p \in snaps'[s] : e \in Values(p)
        /\ \A e : e \in Stored(s) <=> \E p \in snaps[s] : e \in Values(p)
    BY DEF Stored
  <2>3. Values(<<turn, gathered>>) = {<<turn, n>> : n \in gathered}
    OBVIOUS
  <2>. HIDE DEF Values
  <2>4. \A e : e \in Stored(s)' <=> e \in Stored(s) \/ e \in {<<turn, n>> : n \in gathered}
    BY <2>1, <2>2, <2>3
  <2>. QED  BY <1>3, <2>4
<1>. QED  BY <1>1, <1>2, <1>3

\* The pool is loaded from disk once, and follows what the turns put there.
LEMMA EvidencePreserved ==
  ASSUME TypeOK, Held, Named, TurnIsNew, Evidence, [Next]_vars
  PROVE  Evidence'
<1>. USE DEF InTurn, Unanswered
<1>1. CASE pc' = "shell"
  <2>1. CASE FreshEngine
    BY <1>1, <2>1 DEF FreshEngine, Evidence
  <2>2. CASE pc = "shell" /\ UNCHANGED engine
    BY <1>1, <2>2 DEF Evidence, engine
  <2>. QED  BY <1>1, <2>1, <2>2, BoundStep
<1>2. CASE pc' = "prompt" /\ (SwitchResumes \/ pc = "shell")
  <2>1. ~loaded' /\ ledger' = {}
    <3>1. CASE SwitchResumes
      BY <3>1 DEF SwitchResumes, FreshEngine
    <3>2. CASE pc = "shell" /\ UNCHANGED engine
      BY <3>2 DEF Evidence, engine
    <3>. QED  BY <1>2, <3>1, <3>2, BoundStep
  <2>. QED  BY <1>2, <2>1 DEF Evidence
<1>3. CASE pc' # "shell" /\ bound' = bound /\ pc # "shell" /\ ~SwitchResumes
  <2>1. PICK s \in Sessions : s = bound /\ s = bound'
    BY <1>3 DEF Held
  <2>2. /\ ledger \subseteq Stored(s)
        /\ loaded => \A e \in Stored(s) : e[1] \in TurnsWith(s, "assistant") => e \in ledger
    BY <1>3, <2>1 DEF Evidence
  <2>3. CASE PostCheck
    <3>1. /\ pc = "check" /\ pc' \in {"revise", "answer"} /\ loaded' = TRUE
          /\ turn' = turn /\ log' = log /\ snaps' = snaps
          /\ ledger' = (IF loaded THEN ledger ELSE Stored(s))
                         \union {<<turn, n>> : n \in gathered}
      BY <2>1, <2>3 DEF PostCheck, disk
    <3>2. /\ <<turn, gathered>> \in snaps[s]
          /\ \A p \in snaps[s] : p[1] = turn => p[2] = gathered
      BY <2>1, <3>1 DEF TurnIsNew
    <3>3. /\ Stored(s)' = Stored(s) /\ TurnsWith(s, "assistant")' = TurnsWith(s, "assistant")
      BY <3>1 DEF Stored, TurnsWith
    <3>4. {<<turn, n>> : n \in gathered} \subseteq Stored(s)
      BY <3>2 DEF Stored
    <3>5. \A e \in Stored(s) : e[1] = turn => e \in {<<turn, n>> : n \in gathered}
      BY <3>2 DEF Stored
    <3>6. ledger' \subseteq Stored(s)'
      BY <2>2, <3>1, <3>3, <3>4
    <3>7. \A e \in Stored(s)' : e[1] \in TurnsWith(s, "assistant")' => e \in ledger'
      BY <2>2, <3>1, <3>3
    <3>8. \A e \in Stored(s)' : e[1] = turn' => e \in ledger'
      BY <3>1, <3>3, <3>5
    <3>. QED  BY <2>1, <3>1, <3>6, <3>7, <3>8, InPrimed DEF Evidence
  <2>4. CASE ~PostCheck
    <3>1. \/ ledger' = ledger /\ loaded' = loaded
          \/ ledger' = {} /\ loaded' = FALSE
      BY <2>4, EngineStepEffect DEF engine, FreshEngine, Ask, ProposeWrite, Confirm, Count
    <3>2. Stored(s) \subseteq Stored(s)'
      BY StoredStep
    <3>3. ledger' \subseteq Stored(s)'
      BY <2>2, <3>1, <3>2
    <3>4. ASSUME loaded', NEW e \in Stored(s)', e[1] \in TurnsWith(s, "assistant")'
          PROVE  e \in ledger'
      <4>1. CASE Answer
        <5>1. /\ Stored(s)' = Stored(s) /\ pc = "answer"
              /\ TurnsWith(s, "assistant")' \subseteq TurnsWith(s, "assistant") \union {turn}
          BY <4>1, AnsweredStep, StoredStep DEF Answer, Snapshot
        <5>2. \A o \in Stored(s) : o[1] = turn => o \in ledger
          BY <2>1, <5>1 DEF Evidence
        <5>. QED  BY <2>2, <3>1, <3>4, <5>1, <5>2
      <4>2. CASE Snapshot
        <5>1. /\ TurnsWith(s, "assistant")' = TurnsWith(s, "assistant")
              /\ turn \notin TurnsWith(s, "assistant")
              /\ Stored(s)' = Stored(s) \union {<<turn, n>> : n \in gathered}
          BY <2>1, <4>2, AnsweredStep, StoredStep DEF Answer, Snapshot, TurnIsNew
        <5>2. e \in Stored(s)
          BY <3>4, <5>1
        <5>. QED  BY <2>2, <3>1, <3>4, <5>1, <5>2
      <4>3. CASE ~Answer /\ ~Snapshot
        BY <2>2, <3>1, <3>4, <4>3, AnsweredStep, StoredStep
      <4>. QED  BY <4>1, <4>2, <4>3
    <3>5. ASSUME pc' \in {"revise", "answer"}
          PROVE  loaded' /\ \A e \in Stored(s)' : e[1] = turn' => e \in ledger'
      <4>1. pc \in {"revise", "answer"} /\ turn' = turn
        BY <2>4, <3>5, TurnGoesOn DEF Ask
      <4>2. Stored(s)' = Stored(s) /\ UNCHANGED engine
        BY <2>4, <3>5, <4>1, StoredStep, TurnGoesOn DEF Snapshot, Ask
      <4>. QED  BY <2>1, <4>1, <4>2 DEF Evidence, engine
    <3>. QED  BY <2>1, <3>3, <3>4, <3>5, <1>3, InPrimed DEF Evidence
  <2>. QED  BY <2>3, <2>4
<1>. QED  BY <1>1, <1>2, <1>3, BoundStep DEF SwitchResumes

\* Between an execution and its record the process only stops, or records it.
LEMMA OnRecordPreserved ==
  ASSUME TypeOK, OnRecord, [Next]_vars
  PROVE  OnRecord'
<1>. USE DEF disk, history, bounds, OnRecord
<1>0. kills \in Nat /\ late \in Nat
  BY DEF TypeOK
<1>1. CASE Ask \/ RefuseTurn \/ Exit \/ SwitchFails \/ SwitchResumes \/ Close
  BY <1>1 DEF Ask, RefuseTurn, Exit, SwitchFails, SwitchResumes, Close
<1>2. CASE Kill \/ InterruptLate \/ InterruptConfirm
  BY <1>0, <1>2 DEF Kill, InterruptLate, InterruptConfirm
<1>3. CASE \/ OpenTurn \/ CallTool \/ ToolSucceeds \/ ToolFails \/ ProposeWrite \/ Candidate
  BY <1>3 DEF OpenTurn, CallTool, ToolSucceeds, ToolFails, ProposeWrite, Candidate
<1>4. CASE Snapshot \/ PostCheck \/ Revise \/ Answer \/ CloseTurn \/ Count \/ Persist
  BY <1>4 DEF Snapshot, PostCheck, Revise, Answer, CloseTurn, Count, Persist
<1>5. CASE ProposeGarbled \/ IterationCap \/ ProviderFails \/ InterruptTurn
  BY <1>5 DEF ProposeGarbled, IterationCap, ProviderFails, InterruptTurn
<1>6. CASE \E s \in Sessions : NewSession(s) \/ ResumeSession(s) \/ Switch(s)
  BY <1>6 DEF NewSession, ResumeSession, Switch
<1>7. CASE Confirm \/ Execute \/ Record
  BY <1>7 DEF Confirm, Execute, Record
<1>8. CASE UNCHANGED vars
  BY <1>8 DEF vars
<1>. QED  BY <1>1, <1>2, <1>3, <1>4, <1>5, <1>6, <1>7, <1>8 DEF Next, TurnStep

\* The bound session is closed only to go to one that can be resumed.
LEMMA OnOpenPreserved ==
  ASSUME TypeOK, Held, OnOpen, [Next]_vars
  PROVE  OnOpen'
<1>. USE DEF disk, bounds, OnOpen
<1>0. /\ status \in [Sessions -> {"none", "active", "closed", "aborted"}]
      /\ typos \in Nat
      /\ pc # "shell" => bound \in Sessions
      /\ pc = "switch" => target \in Sessions /\ target # bound
  BY DEF TypeOK, Held
<1>1. ASSUME NEW s \in Sessions, NewSession(s) \/ ResumeSession(s)
      PROVE  OnOpen'
  BY <1>0, <1>1 DEF NewSession, ResumeSession
<1>2. ASSUME NEW s \in Sessions, Switch(s)
      PROVE  OnOpen'
  <2>1. SUFFICES ASSUME typos' = 0
                 PROVE  pc' = "switch" /\ Resumable(target)'
    BY DEF OnOpen
  <2>2. status[s] \notin {"none", "aborted"} /\ target' = s /\ pc' = "switch"
    BY <1>0, <1>2, <2>1 DEF Switch
  <2>3. status'[s] = status[s]
    BY <1>0, <1>2 DEF Switch, Closed
  <2>. QED  BY <1>0, <2>2, <2>3 DEF Resumable
<1>3. CASE SwitchResumes \/ SwitchFails
  BY <1>0, <1>3 DEF SwitchResumes, SwitchFails
<1>4. CASE Close \/ Kill \/ Exit \/ InterruptConfirm \/ ProposeGarbled
  BY <1>4 DEF Close, Kill, Exit, InterruptConfirm, ProposeGarbled
<1>5. CASE Ask \/ RefuseTurn
  BY <1>5 DEF Ask, RefuseTurn
<1>6. CASE \/ OpenTurn \/ CallTool \/ ToolSucceeds \/ ToolFails \/ ProposeWrite \/ Candidate
  BY <1>6 DEF OpenTurn, CallTool, ToolSucceeds, ToolFails, ProposeWrite, Candidate
<1>7. CASE Snapshot \/ PostCheck \/ Revise \/ Answer \/ CloseTurn
  BY <1>7 DEF Snapshot, PostCheck, Revise, Answer, CloseTurn
<1>8. CASE IterationCap \/ ProviderFails \/ InterruptTurn \/ InterruptLate
  BY <1>8 DEF IterationCap, ProviderFails, InterruptTurn, InterruptLate
<1>9. CASE Count
  <2>1. /\ pc = "count" /\ pc' \in {"persist", "prompt"} /\ bound' = bound
        /\ status' = status /\ typos' = typos
    BY <1>9, Zenon DEF Count
  <2>. QED  BY <2>1
<1>10. CASE Persist
  BY <1>0, <1>10 DEF Persist
<1>11. CASE Confirm \/ Execute \/ Record
  BY <1>11 DEF Confirm, Execute, Record
<1>12. CASE UNCHANGED vars
  BY <1>12 DEF vars, Resumable
<1>. QED  BY <1>1, <1>2, <1>3, <1>4, <1>5, <1>6, <1>7, <1>8, <1>9, <1>10, <1>11, <1>12
          DEF Next, TurnStep

\* A turn without its answer goes on, is answered, or is stopped.
LEMMA TurnWorkedOn ==
  ASSUME [Next]_vars, pc \in Unanswered
  PROVE  \/ pc' \in Unanswered /\ UNCHANGED <<log, bound, turn, kills, garbled, late>>
         \/ Answer
         \/ (IterationCap \/ ProviderFails \/ InterruptTurn) /\ pc # "asked"
         \/ InterruptLate \/ Kill \/ ProposeGarbled
<1>. USE DEF disk, turnVars, bounds, Unanswered
<1>1. CASE \/ OpenTurn \/ CallTool \/ ToolSucceeds \/ ToolFails \/ ProposeWrite \/ Candidate
  BY <1>1 DEF OpenTurn, CallTool, ToolSucceeds, ToolFails, ProposeWrite, Candidate
<1>2. CASE Snapshot \/ PostCheck \/ Revise
  BY <1>2 DEF Snapshot, PostCheck, Revise
<1>3. ~(CloseTurn \/ Count \/ Persist \/ Ask \/ RefuseTurn \/ Exit \/ Close)
  BY DEF CloseTurn, Count, Persist, Ask, RefuseTurn, Exit, Close
<1>4. ~(SwitchResumes \/ SwitchFails \/ Confirm \/ Execute \/ Record \/ InterruptConfirm)
  BY DEF SwitchResumes, SwitchFails, Confirm, Execute, Record, InterruptConfirm
<1>5. ~ \E s \in Sessions : NewSession(s) \/ ResumeSession(s) \/ Switch(s)
  BY DEF NewSession, ResumeSession, Switch
<1>6. CASE UNCHANGED vars
  BY <1>6 DEF vars
<1>7. CASE IterationCap \/ ProviderFails \/ InterruptTurn
  BY <1>7 DEF IterationCap, ProviderFails, InterruptTurn
<1>. QED  BY <1>1, <1>2, <1>3, <1>4, <1>5, <1>6, <1>7 DEF Next, TurnStep

\* A turn is noted as open as soon as its question is recorded.
LEMMA OpenNotedPreserved ==
  ASSUME OpenNoted, [Next]_vars
  PROVE  OpenNoted'
<1>. SUFFICES ASSUME pc' \in Unanswered \ {"asked"}
              PROVE  open' = turn'
  BY DEF OpenNoted
<1>. USE DEF turnVars, Unanswered
<1>1. CASE pc \notin Unanswered
  BY <1>1, TurnGoesOn DEF InTurn
<1>2. CASE OpenTurn
  BY <1>2 DEF OpenTurn
<1>3. CASE CallTool \/ ToolSucceeds \/ ToolFails \/ ProposeWrite \/ Candidate
  BY <1>3 DEF CallTool, ToolSucceeds, ToolFails, ProposeWrite, Candidate, OpenNoted
<1>4. CASE Snapshot \/ PostCheck \/ Revise
  BY <1>4 DEF Snapshot, PostCheck, Revise, OpenNoted
<1>5. CASE Answer \/ IterationCap \/ ProviderFails \/ ProposeGarbled
  BY <1>5 DEF Answer, IterationCap, ProviderFails, ProposeGarbled
<1>6. CASE InterruptTurn \/ InterruptLate \/ Kill
  BY <1>6 DEF InterruptTurn, InterruptLate, Kill
<1>7. CASE UNCHANGED vars
  BY <1>7 DEF vars, OpenNoted
<1>8. ASSUME pc \in Unanswered
      PROVE  ~(CloseTurn \/ Count \/ Persist \/ Ask \/ RefuseTurn \/ Exit \/ Close)
  BY <1>8 DEF CloseTurn, Count, Persist, Ask, RefuseTurn, Exit, Close
<1>9. ASSUME pc \in Unanswered
      PROVE  ~(SwitchResumes \/ SwitchFails \/ Confirm \/ Execute \/ Record \/ InterruptConfirm)
  BY <1>9 DEF SwitchResumes, SwitchFails, Confirm, Execute, Record, InterruptConfirm
<1>10. ASSUME pc \in Unanswered
       PROVE  ~ \E s \in Sessions : NewSession(s) \/ ResumeSession(s) \/ Switch(s)
  BY <1>10 DEF NewSession, ResumeSession, Switch
<1>. QED  BY <1>1, <1>2, <1>3, <1>4, <1>5, <1>6, <1>7, <1>8, <1>9, <1>10 DEF Next, TurnStep

\* Appending an event to a log leaves what is before it.
LEMMA AppendEvents ==
  ASSUME log \in [Sessions -> Seq(Event)], NEW s \in Sessions, NEW r \in Sessions,
         NEW kind \in {"user", "assistant", "incomplete"}, NEW t \in Turns \union {NoTurn},
         log' = Append1(s, kind, t)
  PROVE  /\ \A i \in 1 .. Len(log[r]) : log'[r][i] = log[r][i]
         /\ r # s => log'[r] = log[r]
         /\ r = s => /\ Len(log'[r]) = Len(log[r]) + 1
                     /\ log'[r][Len(log[r]) + 1] = [kind |-> kind, turn |-> t]
<1>. DEFINE e == [kind |-> kind, turn |-> t]
<1>1. e \in Event
  BY DEF Event
<1>2. log' = [log EXCEPT ![s] = Append(log[s], e)]
  BY DEF Append1
<1>. HIDE DEF e
<1>3. log[s] \in Seq(Event) /\ log[r] \in Seq(Event)
  OBVIOUS
<1>4. log'[s] = Append(log[s], e) /\ (r # s => log'[r] = log[r])
  BY <1>2
<1>. QED  BY <1>1, <1>3, <1>4 DEF e

\* An answer is appended right after its question.
LEMMA FollowPreserved ==
  ASSUME TypeOK, Held, AnswersFollow, [Next]_vars
  PROVE  AnswersFollow'
<1>0. log \in [Sessions -> Seq(Event)]
  BY DEF TypeOK
<1>1. CASE log' = log
  <2>1. CASE pc' \in Unanswered
    <3>1. ~Ask
      <4>1. ASSUME Ask PROVE FALSE
        <5>1. PICK s \in Sessions : s = bound
          BY <4>1 DEF Ask, Held
        <5>2. log' = Append1(s, "user", NextTurn(s)) /\ NextTurn(s) \in Turns
          BY <4>1, <5>1 DEF Ask
        <5>3. Len(log'[s]) = Len(log[s]) + 1
          <6>1. "user" \in {"user", "assistant", "incomplete"}
                /\ NextTurn(s) \in Turns \union {NoTurn}
            BY <5>2
          <6>. QED  BY <1>0, <5>2, <6>1, AppendEvents
        <5>4. log[s] \in Seq(Event) /\ Len(log[s]) \in Nat
          BY <1>0
        <5>. QED  BY <1>1, <5>3, <5>4
      <4>. QED  BY <4>1
    <3>2. pc \in Unanswered /\ bound' = bound /\ turn' = turn
      BY <2>1, <3>1, TurnGoesOn DEF InTurn
    <3>. QED  BY <1>1, <3>2 DEF AnswersFollow
  <2>2. CASE pc' \notin Unanswered
    BY <1>1, <2>2 DEF AnswersFollow
  <2>. QED  BY <2>1, <2>2
<1>2. ASSUME NEW s \in Sessions, s = bound,
             NEW kind \in {"user", "assistant", "incomplete"}, NEW t \in Turns \union {NoTurn},
             log' = Append1(s, kind, t),
             kind = "assistant" => pc = "answer" /\ t = turn,
             pc' \in Unanswered => bound' = s /\ kind = "user" /\ t = turn'
      PROVE  AnswersFollow'
  <2>0. log' \in [Sessions -> Seq(Event)]
    BY <1>0, <1>2, AppendTurns
  <2>1. ASSUME NEW r \in Sessions, NEW j \in DOMAIN log'[r], log'[r][j].kind = "assistant"
        PROVE  j > 1 /\ log'[r][j - 1] = [kind |-> "user", turn |-> log'[r][j].turn]
    <3>0. log[r] \in Seq(Event) /\ log'[r] \in Seq(Event) /\ j \in 1 .. Len(log'[r])
      BY <1>0, <2>0
    <3>1. /\ \A i \in 1 .. Len(log[r]) : log'[r][i] = log[r][i]
          /\ r # s => log'[r] = log[r]
          /\ r = s => /\ Len(log'[r]) = Len(log[r]) + 1
                      /\ log'[r][Len(log[r]) + 1] = [kind |-> kind, turn |-> t]
      BY <1>0, <1>2, AppendEvents
    <3>2. CASE j \in 1 .. Len(log[r])
      <4>1. log[r][j].kind = "assistant" /\ j \in DOMAIN log[r]
        BY <2>1, <3>0, <3>1, <3>2
      <4>2. j > 1 /\ log[r][j - 1] = [kind |-> "user", turn |-> log[r][j].turn]
        BY <4>1 DEF AnswersFollow
      <4>3. j - 1 \in 1 .. Len(log[r])
        BY <3>0, <3>2, <4>2
      <4>. QED  BY <3>1, <3>2, <4>2, <4>3
    <3>3. CASE j \notin 1 .. Len(log[r])
      <4>1. r = s /\ j = Len(log[r]) + 1 /\ Len(log[r]) \in Nat
        BY <3>0, <3>1, <3>3
      <4>2. kind = "assistant" /\ log'[r][j].turn = t
        BY <2>1, <3>1, <4>1
      <4>3. Len(log[r]) > 0 /\ log[r][Len(log[r])] = [kind |-> "user", turn |-> turn]
        BY <1>2, <4>1, <4>2 DEF AnswersFollow, Unanswered
      <4>. QED  BY <1>2, <3>1, <4>1, <4>2, <4>3
    <3>. QED  BY <3>2, <3>3
  <2>2. ASSUME pc' \in Unanswered
        PROVE  Len(log'[s]) > 0 /\ log'[s][Len(log'[s])] = [kind |-> "user", turn |-> turn']
    <3>1. /\ Len(log[s]) \in Nat /\ Len(log'[s]) = Len(log[s]) + 1
          /\ log'[s][Len(log[s]) + 1] = [kind |-> kind, turn |-> t]
      BY <1>0, <1>2, AppendEvents
    <3>. QED  BY <1>2, <2>2, <3>1
  <2>. QED  BY <1>2, <2>1, <2>2 DEF AnswersFollow
<1>3. CASE Ask
  BY <1>2, <1>3 DEF Ask, Held
<1>4. CASE Answer
  BY <1>2, <1>4 DEF Answer, Held, InTurn, Unanswered
<1>5. CASE Record
  BY <1>2, <1>5 DEF Record, Held, Unanswered
<1>6. CASE IterationCap \/ ProviderFails \/ InterruptTurn \/ InterruptLate
  <2>1. MarkIncomplete /\ bound \in Sessions /\ pc' \notin Unanswered
    BY <1>6 DEF IterationCap, ProviderFails, InterruptTurn, InterruptLate, Held, Unanswered
  <2>2. open \in Turns \union {NoTurn}
    BY DEF TypeOK
  <2>. QED  BY <1>1, <1>2, <2>1, <2>2 DEF MarkIncomplete
<1>. QED  BY <1>1, <1>3, <1>4, <1>5, <1>6, LogWriters

\* Nothing of what may leave a question unsettled is taken back.
LEMMA Undisturbed ==
  ASSUME TypeOK, [Next]_vars, kills' = 0, garbled' = 0, late' = 0
  PROVE  kills = 0 /\ garbled = 0 /\ late = 0 /\ ~(Kill \/ InterruptLate \/ ProposeGarbled)
<1>. USE DEF bounds
<1>0. late \in Nat /\ kills \in Nat /\ garbled \in Nat
  BY DEF TypeOK
<1>1. CASE \E s \in Sessions : NewSession(s) \/ ResumeSession(s) \/ Switch(s)
  BY <1>1 DEF NewSession, ResumeSession, Switch, Kill, InterruptLate, ProposeGarbled
<1>2. ~(InterruptLate \/ Kill \/ ProposeGarbled)
  BY <1>0 DEF InterruptLate, Kill, ProposeGarbled
<1>3. CASE InterruptConfirm \/ InterruptTurn
  BY <1>0, <1>2, <1>3 DEF InterruptTurn, InterruptConfirm
<1>4. CASE UNCHANGED bounds
  BY <1>2, <1>4
<1>5. CASE \/ OpenTurn \/ CallTool \/ ToolSucceeds \/ ToolFails \/ ProposeWrite \/ Candidate
           \/ IterationCap \/ ProviderFails \/ Snapshot \/ PostCheck \/ Revise \/ Answer
           \/ CloseTurn \/ Count \/ Persist
  BY <1>4, <1>5 DEF OpenTurn, CallTool, ToolSucceeds, ToolFails, ProposeWrite, Candidate,
              IterationCap, ProviderFails, Snapshot, PostCheck, Revise, Answer, CloseTurn,
              Count, Persist
<1>6. CASE SwitchResumes \/ SwitchFails \/ Exit \/ Close \/ Ask \/ RefuseTurn
  BY <1>4, <1>6 DEF SwitchResumes, SwitchFails, Exit, Close, Ask, RefuseTurn
<1>7. CASE Confirm \/ Execute \/ Record \/ UNCHANGED vars
  BY <1>4, <1>7 DEF Confirm, Execute, Record, vars
<1>. QED  BY <1>1, <1>2, <1>3, <1>5, <1>6, <1>7 DEF Next, TurnStep

\* A question is settled before the turn it belongs to is left.
LEMMA SettledPreserved ==
  ASSUME TypeOK, Held, OpenNoted, Settled, [Next]_vars
  PROVE  Settled'
<1>. SUFFICES ASSUME kills' = 0 /\ garbled' = 0 /\ late' = 0
              PROVE  \A s \in Sessions : \A t \in TurnsWith(s, "user")' :
                       \/ t \in TurnsWith(s, "assistant")' \union TurnsWith(s, "incomplete")'
                                  \union {NoTurn}
                       \/ pc' \in Unanswered /\ s = bound' /\ t = turn'
  BY DEF Settled
<1>0. log \in [Sessions -> Seq(Event)] /\ turn \in Turns \union {NoTurn}
      /\ open \in Turns \union {NoTurn}
  BY DEF TypeOK
<1>1. /\ ~(Kill \/ InterruptLate \/ ProposeGarbled)
      /\ \A s \in Sessions : \A t \in TurnsWith(s, "user") :
           \/ t \in TurnsWith(s, "assistant") \union TurnsWith(s, "incomplete") \union {NoTurn}
           \/ pc \in Unanswered /\ s = bound /\ t = turn
  BY Undisturbed DEF Settled
<1>2. CASE /\ log' = log
           /\ pc \in Unanswered => pc' \in Unanswered /\ UNCHANGED <<bound, turn>>
  <2>1. \A s \in Sessions : \A k : TurnsWith(s, k)' = TurnsWith(s, k)
    BY <1>2 DEF TurnsWith
  <2>. QED  BY <1>1, <1>2, <2>1
<1>3. ASSUME NEW kind \in {"assistant", "incomplete"}, pc \in Unanswered,
             log' = Append1(bound, kind, turn)
      PROVE  \A s \in Sessions : \A t \in TurnsWith(s, "user")' :
               t \in TurnsWith(s, "assistant")' \union TurnsWith(s, "incomplete")' \union {NoTurn}
  <2>1. bound \in Sessions
    BY <1>3 DEF Held, Unanswered
  <2>2. ASSUME NEW s \in Sessions
        PROVE  \A k : TurnsWith(s, k)' = IF s = bound /\ k = kind
                                         THEN TurnsWith(s, k) \union {turn} ELSE TurnsWith(s, k)
    BY <1>0, <1>3, <2>1, AppendTurns
  <2>. QED  BY <1>1, <1>3, <2>2
<1>4. ASSUME NEW t \in Turns \union {NoTurn}, pc \notin Unanswered, bound \in Sessions,
             log' = Append1(bound, "user", t),
             t = NoTurn \/ (pc' = "asked" /\ bound' = bound /\ turn' = t)
      PROVE  \A s \in Sessions : \A u \in TurnsWith(s, "user")' :
               \/ u \in TurnsWith(s, "assistant")' \union TurnsWith(s, "incomplete")'
                          \union {NoTurn}
               \/ pc' \in Unanswered /\ s = bound' /\ u = turn'
  <2>1. ASSUME NEW s \in Sessions
        PROVE  \A k : TurnsWith(s, k)' = IF s = bound /\ k = "user"
                                         THEN TurnsWith(s, k) \union {t} ELSE TurnsWith(s, k)
    BY <1>0, <1>4, AppendTurns
  <2>. QED  BY <1>1, <1>4, <2>1 DEF Unanswered
<1>5. CASE pc \in Unanswered
  <2>1. CASE Answer
    BY <1>3, <1>5, <2>1 DEF Answer
  <2>2. CASE (IterationCap \/ ProviderFails \/ InterruptTurn) /\ pc # "asked"
    <3>1. MarkIncomplete
      BY <2>2 DEF IterationCap, ProviderFails, InterruptTurn
    <3>2. open = turn /\ turn # NoTurn
      BY <1>5, <2>2 DEF OpenNoted, Held, InTurn, Turns, NoTurn
    <3>. QED  BY <1>3, <1>5, <3>1, <3>2 DEF MarkIncomplete
  <2>. QED  BY <1>1, <1>2, <1>5, <2>1, <2>2, TurnWorkedOn
<1>6. CASE pc \notin Unanswered
  <2>1. CASE Ask
    <3>1. /\ NextTurn(bound) \in Turns /\ bound \in Sessions /\ bound' = bound
          /\ turn' = NextTurn(bound) /\ pc' = "asked"
          /\ log' = Append1(bound, "user", NextTurn(bound))
      BY <2>1 DEF Ask, Held
    <3>. QED  BY <1>4, <1>6, <3>1
  <2>2. CASE Record
    BY <1>4, <1>6, <2>2 DEF Record, Held
  <2>3. ~(Answer \/ ProviderFails \/ IterationCap \/ InterruptTurn)
    BY <1>6 DEF Answer, ProviderFails, IterationCap, InterruptTurn, Unanswered
  <2>4. log' = log \/ Ask \/ Record
    BY <1>1, <2>3, LogWriters
  <2>. QED  BY <1>2, <1>6, <2>1, <2>2, <2>4
<1>. QED  BY <1>5, <1>6

-----------------------------------------------------------------------------
(* What is left of a turn. *)

\* How many steps of its own the engine may still take before it is at the
\* prompt again, or the loop has ended.
Left ==
  CASE pc = "asked" -> 2 * Limit + 12
    [] pc = "tool" -> 2 * (Limit - iter) + 11
    [] pc = "model" -> 2 * (Limit - iter) + 10
    [] pc = "verify" -> 9
    [] pc = "check" -> 8
    [] pc = "revise" -> 7
    [] pc = "answer" -> 6
    [] pc = "answered" -> 5
    [] pc = "count" -> 4
    [] pc = "persist" -> 3
    [] OTHER -> 0

\* Nothing of a turn is started over: each step of the engine brings its end
\* nearer, and only a question of the user puts it off.
TurnShortens == (TurnStep => Left' < Left) /\ (Left' > Left => Ask)

\* What is left is a number, and never more than the tool limit allows.
LEMMA LeftIsBounded ==
  ASSUME TypeOK, Held
  PROVE  Left \in 0 .. 2 * Limit + 12
<1>1. Limit \in Nat \ {0} /\ iter \in 0 .. Limit
  BY LimitsAssumption DEF TypeOK
<1>2. 2 * (Limit - iter) \in 0 .. 2 * Limit /\ 2 * Limit \in Nat
  BY <1>1
<1>3. CASE pc = "tool"
  BY <1>1, <1>2, <1>3 DEF Left
<1>4. CASE pc = "model"
  BY <1>1, <1>2, <1>4 DEF Left
<1>5. CASE pc \notin {"tool", "model"}
  BY <1>1, <1>2, <1>5 DEF Left
<1>. QED  BY <1>3, <1>4, <1>5

\* Every step of the engine shortens its turn.
LEMMA EngineShortens ==
  ASSUME TypeOK, Held, TurnStep
  PROVE  Left' < Left
<1>. USE DEF turnVars
<1>1. Limit \in Nat \ {0} /\ iter \in 0 .. Limit
  BY LimitsAssumption DEF TypeOK
<1>2. CASE OpenTurn
  <2>1. pc = "asked" /\ pc' = "model" /\ iter' = iter
    BY <1>2 DEF OpenTurn
  <2>2. Left = 2 * Limit + 12 /\ Left' = 2 * (Limit - iter) + 10
    BY <2>1 DEF Left
  <2>. QED  BY <1>1, <2>2
<1>3. CASE CallTool
  <2>1. pc = "model" /\ pc' = "tool" /\ iter' = iter + 1
    BY <1>3 DEF CallTool
  <2>2. Left = 2 * (Limit - iter) + 10 /\ Left' = 2 * (Limit - (iter + 1)) + 11
    BY <2>1 DEF Left
  <2>. QED  BY <1>1, <2>2
<1>4. CASE ToolSucceeds \/ ToolFails \/ ProposeWrite
  <2>1. pc = "tool" /\ pc' = "model" /\ iter' = iter
    BY <1>4 DEF ToolSucceeds, ToolFails, ProposeWrite
  <2>2. Left = 2 * (Limit - iter) + 11 /\ Left' = 2 * (Limit - iter) + 10
    BY <2>1 DEF Left
  <2>. QED  BY <1>1, <2>2
<1>5. ASSUME pc \in {"model", "tool"}, pc' \in {"verify", "prompt", "closing"}
      PROVE  Left' < Left
  <2>1. Left' <= 9 /\ Left' \in Nat
    BY <1>5 DEF Left
  <2>2. Left = 2 * (Limit - iter) + 11 \/ Left = 2 * (Limit - iter) + 10
    BY <1>5 DEF Left
  <2>3. 2 * (Limit - iter) \in Nat
    BY <1>1
  <2>. QED  BY <2>1, <2>2, <2>3
<1>6. CASE Candidate \/ IterationCap \/ ProposeGarbled
  BY <1>5, <1>6 DEF Candidate, IterationCap, ProposeGarbled
<1>7. CASE ProviderFails
  <2>1. CASE pc = "model"
    BY <1>5, <1>7, <2>1 DEF ProviderFails
  <2>2. CASE pc = "revise" /\ pc' = "prompt"
    BY <2>2 DEF Left
  <2>. QED  BY <1>7, <2>1, <2>2 DEF ProviderFails
<1>8. CASE Snapshot \/ Revise \/ Answer \/ CloseTurn
  <2>1. \/ pc = "verify" /\ pc' = "check"
        \/ pc = "revise" /\ pc' = "answer"
        \/ pc = "answer" /\ pc' = "answered"
        \/ pc = "answered" /\ pc' = "count"
    BY <1>8 DEF Snapshot, Revise, Answer, CloseTurn
  <2>. QED  BY <2>1 DEF Left
<1>9. CASE PostCheck
  <2>1. pc = "check" /\ pc' \in {"revise", "answer"}
    BY <1>9 DEF PostCheck
  <2>. QED  BY <2>1 DEF Left
<1>10. CASE Count
  <2>1. pc = "count" /\ pc' \in {"persist", "prompt"}
    BY <1>10, Zenon DEF Count
  <2>. QED  BY <2>1 DEF Left
<1>11. CASE Persist
  <2>1. pc = "persist" /\ pc' \in {"prompt", "closing"}
    BY <1>11 DEF Persist
  <2>. QED  BY <2>1 DEF Left
<1>. QED  BY <1>2, <1>3, <1>4, <1>6, <1>7, <1>8, <1>9, <1>10, <1>11 DEF TurnStep

-----------------------------------------------------------------------------
(* The theorems. *)

\* The initial state satisfies every part of the invariant.
LEMMA InitInvariant == Init => IInv
<1>. SUFFICES ASSUME Init PROVE IInv
  OBVIOUS
<1>. USE DEF Init, InTurn, Unanswered
<1>1. TypeOK
  <2>1. <<>> \in Seq(Event) /\ 0 \in 0 .. Limit /\ 0 \in 0 .. MaxViolations
    BY LimitsAssumption
  <2>2. /\ log \in [Sessions -> Seq(Event)]
        /\ snaps \in [Sessions -> SUBSET (Turns \X SUBSET (1 .. Limit))]
        /\ status \in [Sessions -> {"none", "active", "closed", "aborted"}]
    BY <2>1
  <2>3. halted \in BOOLEAN /\ loaded \in BOOLEAN /\ pc \in Phases
    BY DEF Phases
  <2>. QED  BY <2>1, <2>2, <2>3 DEF TypeOK
<1>2. Held
  BY DEF Held
<1>3. HasLatest /\ Named /\ TurnIsNew
  <2>1. ASSUME NEW s \in Sessions
        PROVE  TurnsOf(s) = {}
    <3>1. log[s] = <<>> /\ DOMAIN <<>> = {}
      OBVIOUS
    <3>. QED  BY <3>1 DEF TurnsOf
  <2>. QED  BY <2>1 DEF HasLatest, Named, TurnIsNew, NoTurn
<1>4. Aborts /\ Consent /\ Evidence /\ OnRecord /\ OnOpen
  BY LimitsAssumption DEF Aborts, Consent, Evidence, OnRecord, OnOpen
<1>5. OpenNoted /\ AnswersFollow /\ Settled
  <2>1. ASSUME NEW s \in Sessions
        PROVE  DOMAIN log[s] = {}
    <3>1. log[s] = <<>> /\ DOMAIN <<>> = {}
      OBVIOUS
    <3>. QED  BY <3>1
  <2>2. AnswersFollow
    BY <2>1 DEF AnswersFollow
  <2>3. \A s \in Sessions : TurnsWith(s, "user") = {}
    BY <2>1 DEF TurnsWith
  <2>. QED  BY <2>2, <2>3 DEF OpenNoted, Settled
<1>. QED  BY <1>1, <1>2, <1>3, <1>4, <1>5 DEF IInv

\* Every reachable state of every terminal satisfies the inductive invariant.
THEOREM Invariance == Spec => []IInv
<1>1. IInv /\ [Next]_vars => IInv'
  BY TypePreserved, HeldPreserved, LatestPreserved, NamedPreserved, TurnIsNewPreserved,
     AbortsPreserved, ConsentPreserved, EvidencePreserved, OnRecordPreserved, OnOpenPreserved,
     OpenNotedPreserved, FollowPreserved, SettledPreserved
     DEF IInv
<1>. QED  BY InitInvariant, <1>1, PTL DEF Spec

\* The session store and the engine always hold values of their types.
THEOREM TypeCorrect == Spec => []TypeOK
<1>1. IInv => TypeOK
  BY DEF IInv
<1>. QED  BY <1>1, Invariance, PTL

\* No interruption, kill or resume makes two turns share an id, so the snapshot
\* of a turn is never refused.
THEOREM SnapshotsNew == Spec => []SnapshotFresh
<1>1. IInv => SnapshotFresh
  BY DEF IInv, TurnIsNew, SnapshotFresh
<1>. QED  BY <1>1, Invariance, PTL

\* The post-check never passes a number on a value that is not on disk, and
\* never misses one that an answered turn put there.
THEOREM EvidenceComplete == Spec => []EvidenceOnDisk
<1>1. IInv => EvidenceOnDisk
  BY DEF IInv, Evidence, EvidenceOnDisk
<1>. QED  BY <1>1, Invariance, PTL

\* No way of closing, leaving and re-entering a session makes the loop call the
\* model for one that is aborted.
THEOREM AbortHolds == Spec => []AbortedIsSilent
<1>1. IInv => AbortedIsSilent
  BY DEF IInv, Aborts, AbortedIsSilent, InTurn, Unanswered
<1>. QED  BY <1>1, Invariance, PTL

\* The engine never goes on past the INV-002 budget without the session's being
\* aborted on disk, unless a Ctrl-C came in between.
THEOREM BudgetHolds == Spec => []BudgetAborts
<1>1. IInv => BudgetAborts
  BY DEF IInv, Aborts, BudgetAborts
<1>. QED  BY <1>1, Invariance, PTL

\* No order of turns, switches, kills and confirmations executes a write twice,
\* in another session, or too long after it was shown.
THEOREM ConsentHolds == Spec => []ConsentIsFresh
<1>1. IInv => ConsentIsFresh
  BY DEF IInv, Consent, Fresh, ConsentIsFresh
<1>. QED  BY <1>1, Invariance, PTL

\* A write the user confirmed is on record once the prompt is back.
THEOREM WritesKept == Spec => []WritesOnRecord
<1>1. IInv => WritesOnRecord
  BY DEF IInv, OnRecord, WritesOnRecord
<1>. QED  BY <1>1, Invariance, PTL

\* Without a mistyped id, no switch leaves the loop on a closed record.
THEOREM LoopOnOpen == Spec => []BoundNotClosedIfNamed
<1>1. IInv => BoundNotClosedIfNamed
  BY DEF IInv, OnOpen, BoundNotClosedIfNamed
<1>. QED  BY <1>1, Invariance, PTL

\* Every answer on record is replayed right after its question, in every session
\* and whatever Ctrl-C, kill, marker or confirmed write came in between.
THEOREM AnswersKept == Spec => []AnswersStand
<1>1. ASSUME IInv
      PROVE  AnswersStand
  <2>. SUFFICES ASSUME NEW s \in Sessions, NEW t \in TurnsWith(s, "assistant")
                PROVE  \E i \in 2 .. Len(Conversation(s)) :
                         /\ Conversation(s)[i] = [kind |-> "assistant", turn |-> t]
                         /\ Conversation(s)[i - 1] = [kind |-> "user", turn |-> t]
    BY DEF AnswersStand
  <2>. DEFINE left == TurnsWith(s, "incomplete") \ TurnsWith(s, "assistant")
  <2>1. log[s] \in Seq(Event)
    BY <1>1 DEF IInv, TypeOK
  <2>2. PICK j \in DOMAIN log[s] : log[s][j].kind = "assistant" /\ log[s][j].turn = t
    BY DEF TurnsWith
  <2>3. j > 1 /\ log[s][j - 1] = [kind |-> "user", turn |-> t]
    BY <1>1, <2>2 DEF IInv, AnswersFollow
  <2>4. j \in 2 .. Len(log[s]) /\ log[s][j] = [kind |-> "assistant", turn |-> t]
    <3>1. j \in 1 .. Len(log[s]) /\ log[s][j] \in Event
      BY <2>1
    <3>. QED  BY <2>2, <2>3, <3>1 DEF Event
  <2>5. t \notin left
    OBVIOUS
  <2>. HIDE DEF left
  <2>6. Said(log[s][j], left) /\ Said(log[s][j - 1], left)
    BY <2>3, <2>4, <2>5 DEF Said
  <2>7. \E p \in 2 .. Len(Kept(log[s], left)) :
          /\ Kept(log[s], left)[p - 1] = log[s][j - 1]
          /\ Kept(log[s], left)[p] = log[s][j]
    BY <2>1, <2>4, <2>6, KeptNext
  <2>8. Conversation(s) = Kept(log[s], left)
    BY DEF Conversation, left
  <2>. QED  BY <2>3, <2>4, <2>7, <2>8
<1>. QED  BY <1>1, Invariance, PTL

\* The model is told of no question without its answer, for every window, every
\* number of turns and every way in which the turns ended that marks them.
THEOREM NoQuestionOpen == Spec => []QuestionsAnswered
<1>1. ASSUME IInv
      PROVE  QuestionsAnswered
  <2>. SUFFICES ASSUME kills = 0, garbled = 0, late = 0, pc = "prompt",
                       NEW t \in Questions(bound)
                PROVE  t \in TurnsWith(bound, "assistant") \union {NoTurn}
    BY DEF QuestionsAnswered
  <2>1. PICK s \in Sessions : s = bound
    BY <1>1 DEF IInv, Held
  <2>2. log[s] \in Seq(Event)
    BY <1>1 DEF IInv, TypeOK
  <2>3. PICK i \in 1 .. Len(log[s]) :
          /\ log[s][i].kind = "user" /\ log[s][i].turn = t
          /\ t \notin TurnsWith(s, "incomplete") \ TurnsWith(s, "assistant")
    BY <2>1, <2>2, ReplayFrom DEF Questions
  <2>4. t \in TurnsWith(s, "user")
    BY <2>2, <2>3 DEF TurnsWith
  <2>. QED  BY <1>1, <2>1, <2>3, <2>4 DEF IInv, Settled, Unanswered
<1>. QED  BY <1>1, Invariance, PTL

\* A turn takes at most 2 * Limit + 12 steps of the engine, whatever the model
\* and the tools answer: the bound on which the end of every turn rests.
THEOREM TurnsAreBounded == Spec => [](Left \in 0 .. 2 * Limit + 12) /\ [][TurnShortens]_vars
<1>1. IInv => Left \in 0 .. 2 * Limit + 12
  BY LeftIsBounded DEF IInv
<1>2. IInv /\ IInv' /\ [Next]_vars => [TurnShortens]_vars
  <2>. SUFFICES ASSUME IInv, IInv', [Next]_vars
                PROVE  TurnShortens \/ UNCHANGED vars
    OBVIOUS
  <2>. USE DEF turnVars
  <2>1. Left \in Nat /\ Left' \in Nat
    <3>1. Left \in 0 .. 2 * Limit + 12 /\ (Left \in 0 .. 2 * Limit + 12)'
      BY <1>1, PTL
    <3>. QED  BY <3>1, LimitsAssumption
  <2>2. CASE TurnStep
    <3>1. Left' < Left
      BY <2>2, EngineShortens DEF IInv
    <3>. QED  BY <2>1, <3>1 DEF TurnShortens
  <2>3. CASE Ask /\ ~TurnStep
    BY <2>3 DEF TurnShortens
  <2>4. ASSUME pc' \in {"prompt", "closing", "shell", "switch", "execute", "record"}, ~TurnStep
        PROVE  TurnShortens
    <3>1. Left' = 0
      BY <2>4 DEF Left
    <3>. QED  BY <2>1, <2>4, <3>1 DEF TurnShortens
  <2>5. CASE \E s \in Sessions : NewSession(s) \/ ResumeSession(s) \/ Switch(s)
    BY <2>2, <2>4, <2>5 DEF NewSession, ResumeSession, Switch
  <2>6. CASE SwitchResumes \/ SwitchFails \/ Exit \/ Close \/ RefuseTurn
    BY <2>2, <2>4, <2>6 DEF SwitchResumes, SwitchFails, Exit, Close, RefuseTurn
  <2>7. CASE Confirm \/ Execute \/ Record
    BY <2>2, <2>4, <2>7 DEF Confirm, Execute, Record
  <2>8. CASE InterruptTurn \/ InterruptLate \/ InterruptConfirm \/ Kill
    BY <2>2, <2>4, <2>8 DEF InterruptTurn, InterruptLate, InterruptConfirm, Kill
  <2>. QED  BY <2>2, <2>3, <2>5, <2>6, <2>7, <2>8 DEF Next
<1>. QED  BY <1>1, <1>2, Invariance, PTL DEF Spec

\* No step of any action takes a session out of the aborted state.
THEOREM AbortFinal == Spec => AbortIsTerminal
<1>1. IInv /\ [Next]_vars =>
        [\A s \in Sessions : status[s] = "aborted" => status'[s] = "aborted"]_status
  <2>. SUFFICES ASSUME IInv, [Next]_vars, NEW s \in Sessions, status[s] = "aborted"
                PROVE  status'[s] = "aborted"
    OBVIOUS
  <2>. USE DEF disk
  <2>1. status \in [Sessions -> {"none", "active", "closed", "aborted"}]
    BY DEF IInv, TypeOK
  <2>2. ASSUME NEW r \in Sessions, NewSession(r) \/ ResumeSession(r) \/ Switch(r)
        PROVE  status'[s] = "aborted"
    BY <2>1, <2>2 DEF NewSession, ResumeSession, Switch, Resumable, Closed
  <2>3. CASE SwitchResumes \/ Close \/ Persist
    BY <2>1, <2>3 DEF SwitchResumes, Close, Persist, Resumable, Closed
  <2>4. CASE SwitchFails \/ Exit \/ Kill \/ Ask \/ RefuseTurn
    BY <2>4 DEF SwitchFails, Exit, Kill, Ask, RefuseTurn
  <2>5. CASE \/ OpenTurn \/ CallTool \/ ToolSucceeds \/ ToolFails \/ ProposeWrite \/ Candidate
    BY <2>5 DEF OpenTurn, CallTool, ToolSucceeds, ToolFails, ProposeWrite, Candidate
  <2>6. CASE Snapshot \/ PostCheck \/ Revise \/ Answer \/ CloseTurn \/ Count
    BY <2>6 DEF Snapshot, PostCheck, Revise, Answer, CloseTurn, Count
  <2>7. CASE ProposeGarbled \/ IterationCap \/ ProviderFails \/ InterruptTurn \/ InterruptLate
    BY <2>7 DEF ProposeGarbled, IterationCap, ProviderFails, InterruptTurn, InterruptLate
  <2>8. CASE Confirm \/ Execute \/ Record \/ InterruptConfirm \/ UNCHANGED vars
    BY <2>8 DEF Confirm, Execute, Record, InterruptConfirm, vars
  <2>. QED  BY <2>2, <2>3, <2>4, <2>5, <2>6, <2>7, <2>8 DEF Next, TurnStep
<1>. QED  BY <1>1, Invariance, PTL DEF Spec, AbortIsTerminal
=============================================================================
