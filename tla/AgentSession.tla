---------------------------- MODULE AgentSession ----------------------------
(***************************************************************************)
(* One terminal of the agent: the REPL loop (agent/repl.py), the turn     *)
(* engine (agent/loop.py), the confirmation broker (agent/confirm.py), the *)
(* INV-002 counter (agent/guardrail.py, PostCheckCounter) and the session  *)
(* store on disk (agent/session.py).                                       *)
(*                                                                         *)
(* One action is one file write or one call of the provider or of a tool: *)
(* Ctrl-C (Interrupt) or a kill of the process (Kill) may come between any *)
(* two.  Texts are not modelled, only what the post-check says of them.    *)
(*                                                                         *)
(* session.jsonl is abstracted to the events the program reads back:      *)
(* questions, answers and turn-incomplete markers.  Tool and error events  *)
(* carry the turn of a question that is already there, and replay skips    *)
(* them.  A response holds at most one tool call.                          *)
(*                                                                         *)
(* Definitions named Wrong... are mistakes this code has made or could    *)
(* make; TLC finds a property violated with each of them in place.         *)
(***************************************************************************)
EXTENDS Integers, Sequences

CONSTANTS
  Sessions,        \* session ids, the mistyped ones included
  Limit,           \* tool_loop_limit(profile)
  HistoryWindow,   \* HISTORY_WINDOW
  TokenAge,        \* max_age of expire_turns
  EpistemicLimit,  \* epistemic_limit of PostCheckCounter
  MaxViolations,   \* bound: INV-002 violations in one answer
  MaxTurns,        \* bound: turns of a session
  MaxInterrupts,   \* bound: Ctrl-C before the answer is recorded
  MaxLate,         \* bound: Ctrl-C around the recording of the question or the
                   \* answer, after it, or inside a confirmed write
  MaxKills,        \* bound: kills of the process
  MaxTypos,        \* bound: /resume of an id that does not exist
  MaxGarbled       \* bound: write calls whose JSON arguments are no object

ASSUME LimitsAssumption ==
  /\ Limit \in Nat \ {0}
  /\ HistoryWindow \in Nat \ {0}
  /\ TokenAge \in Nat
  /\ EpistemicLimit \in Nat
  /\ MaxViolations \in Nat \ {0}
  /\ MaxTurns \in Nat \ {0}

ASSUME EventBounds ==
  /\ MaxInterrupts \in Nat /\ MaxLate \in Nat /\ MaxKills \in Nat
  /\ MaxTypos \in Nat /\ MaxGarbled \in Nat

Turns == 1 .. MaxTurns
NoTurn == 0          \* the harness's own messages have turn null
NoSession == "no session"
NoToken == [turn |-> NoTurn]

\* Events of session.jsonl; "user" and "assistant" are the conversational ones.
Event == [kind : {"user", "assistant", "incomplete"}, turn : Turns \union {NoTurn}]

\* A confirmation token stands for what it is bound to.
Token == [session : Sessions, turn : Turns, call : 1 .. Limit]

Phases == {"shell", "prompt", "asked", "model", "tool", "verify", "check", "revise",
           "answer", "answered", "count", "persist", "switch", "execute", "record",
           "closing"}

VARIABLES
  log,       \* session.jsonl of every session
  snaps,     \* context/: <<turn, the calls whose values it holds>>
  status,    \* index.json; "none": there is no such session
  pc,        \* where the process is; "shell": there is no process
  bound,     \* the session the loop is bound to
  target,    \* the id /resume was given
  pending,   \* ConfirmationBroker._pending
  chosen,    \* the token being redeemed
  total,     \* PostCheckCounter._epistemic_total
  halted,    \* TurnEngine._aborted
  ledger,    \* TurnEngine._ledgers of the bound session: <<turn, call>>
  loaded,    \* is there an entry for it in _ledgers?
  turn,      \* turn_id
  open,      \* _open_turn
  iter,      \* _iteration
  gathered,  \* snapshot_values: the calls that succeeded in this turn
  counted,   \* INV-002 violations of the verdict the counter will be fed
  executed,  \* history: tokens whose write was executed
  recorded,  \* history: tokens whose write is in a session's log
  interrupts, late, kills, typos, garbled   \* the bounded counters

disk == <<log, snaps, status>>
engine == <<pending, total, halted, ledger, loaded>>
turnVars == <<turn, open, iter, gathered, counted>>
history == <<executed, recorded>>
bounds == <<interrupts, late, kills, typos, garbled>>
vars == <<disk, pc, bound, target, engine, chosen, turnVars, history, bounds>>

-----------------------------------------------------------------------------
(* Reading the log back. *)

TurnsOf(s) == {log[s][i].turn : i \in DOMAIN log[s]}

\* The turn after the last answered one.
WrongNextTurn(s) ==
  LET done == {log[s][i].turn : i \in {j \in DOMAIN log[s] : log[s][j].kind = "assistant"}}
                \union {NoTurn}
  IN 1 + CHOOSE n \in done : \A m \in done : m <= n

\* _next_turn_id: one more than the largest turn in the log.
NextTurn(s) ==
  LET seen == TurnsOf(s) \union {NoTurn}
  IN 1 + CHOOSE n \in seen : \A m \in seen : m <= n

TurnsWith(s, kind) == {log[s][i].turn : i \in {j \in DOMAIN log[s] : log[s][j].kind = kind}}

\* The questions and answers of a log, in order, but those of the turns `left`.
Said(e, left) == e.kind \in {"user", "assistant"} /\ e.turn \notin left

Kept(events, left) ==
  LET upTo[n \in 0 .. Len(events)] ==
        IF n = 0 THEN <<>>
        ELSE IF Said(events[n], left) THEN Append(upTo[n - 1], events[n]) ELSE upTo[n - 1]
  IN upTo[Len(events)]

\* Every question is replayed (before DE-14).
WrongConversation(s) == Kept(log[s], {})

\* A marked turn is left out, answered or not.
MarkedLeftOut(s) == Kept(log[s], TurnsWith(s, "incomplete"))

\* Questions and answers, without the turns marked as having no answer.
Conversation(s) == Kept(log[s], TurnsWith(s, "incomplete") \ TurnsWith(s, "assistant"))

\* _history_messages: the last HistoryWindow of them, from the first question on.
Replay(s) ==
  LET all == Conversation(s)
      first == IF Len(all) > HistoryWindow THEN Len(all) - HistoryWindow + 1 ELSE 1
      asks == {i \in first .. Len(all) : all[i].kind = "user"}
  IN IF asks = {} THEN <<>>
     ELSE SubSeq(all, CHOOSE i \in asks : \A j \in asks : i <= j, Len(all))

\* load_snapshots, merged: every value a finished turn put on disk.
Stored(s) == UNION {{<<p[1], n>> : n \in p[2]} : p \in snaps[s]}

Append1(s, kind, t) == [log EXCEPT ![s] = Append(@, [kind |-> kind, turn |-> t])]

-----------------------------------------------------------------------------
(* The process's memory. *)

ClearTurn ==
  /\ turn' = NoTurn /\ open' = NoTurn /\ iter' = 0 /\ gathered' = {}
  /\ counted' = 0

\* _build_engine: a new broker, a new counter, empty ledgers.
FreshEngine ==
  /\ pending' = {} /\ total' = 0 /\ halted' = FALSE
  /\ ledger' = {} /\ loaded' = FALSE

Init ==
  /\ log = [s \in Sessions |-> <<>>]
  /\ snaps = [s \in Sessions |-> {}]
  /\ status = [s \in Sessions |-> "none"]
  /\ pc = "shell" /\ bound = NoSession /\ target = NoSession
  /\ pending = {} /\ total = 0 /\ halted = FALSE /\ ledger = {} /\ loaded = FALSE
  /\ chosen = NoToken
  /\ turn = NoTurn /\ open = NoTurn /\ iter = 0 /\ gathered = {}
  /\ counted = 0
  /\ executed = {} /\ recorded = {}
  /\ interrupts = 0 /\ late = 0 /\ kills = 0 /\ typos = 0 /\ garbled = 0
-----------------------------------------------------------------------------
(* Entering and leaving a session. *)

\* start_new_session: an id is generated, its tree and index row are written.
NewSession(s) ==
  /\ pc = "shell" /\ status[s] = "none"
  /\ status' = [status EXCEPT ![s] = "active"]
  /\ bound' = s /\ pc' = "prompt"
  /\ UNCHANGED <<log, snaps, target, engine, chosen, turnVars, history, bounds>>

\* store.resume: an aborted session is refused, any other is reopened.
Resumable(s) == status[s] \in {"active", "closed"}

ResumeSession(s) ==
  /\ pc = "shell" /\ Resumable(s)
  /\ status' = [status EXCEPT ![s] = "active"]
  /\ bound' = s /\ pc' = "prompt"
  /\ UNCHANGED <<log, snaps, target, engine, chosen, turnVars, history, bounds>>

\* The verdict is overwritten (before the H4 residual).
WrongClosed(s) == [status EXCEPT ![s] = "closed"]

\* store.close: an aborted session stays aborted.
Closed(s) == [status EXCEPT ![s] = IF @ = "aborted" THEN @ ELSE "closed"]

\* /exit, end of input, or an exception at the prompt: the loop ends.
Exit ==
  /\ pc = "prompt"
  /\ pc' = "closing"
  /\ UNCHANGED <<disk, bound, target, engine, chosen, turnVars, history, bounds>>

\* The entry closes the session the loop returned; the process ends.
Close ==
  /\ pc = "closing"
  /\ status' = Closed(bound)
  /\ pc' = "shell" /\ bound' = NoSession /\ chosen' = NoToken
  /\ FreshEngine /\ ClearTurn
  /\ UNCHANGED <<log, snaps, target, history, bounds>>

\* The bound session is closed before the target is looked at (before TP-018b).
WrongSwitch(s) ==
  /\ pc = "prompt" /\ s # bound
  /\ status[s] = "none" => typos < MaxTypos
  /\ typos' = IF status[s] = "none" THEN typos + 1 ELSE typos
  /\ status' = Closed(bound)
  /\ target' = s /\ pc' = "switch"
  /\ UNCHANGED <<log, snaps, bound, engine, chosen, turnVars, history,
                 interrupts, late, kills, garbled>>

\* /resume <id>: an aborted target is refused before anything is touched; any
\* other id, an unknown one too, closes the bound session first.
Switch(s) ==
  /\ pc = "prompt" /\ s # bound /\ status[s] # "aborted"
  /\ status[s] = "none" => typos < MaxTypos
  /\ typos' = IF status[s] = "none" THEN typos + 1 ELSE typos
  /\ status' = Closed(bound)
  /\ target' = s /\ pc' = "switch"
  /\ UNCHANGED <<log, snaps, bound, engine, chosen, turnVars, history,
                 interrupts, late, kills, garbled>>

\* The engine, and the broker in it, survive the switch.
WrongSwitchResumes ==
  /\ pc = "switch" /\ Resumable(target)
  /\ status' = [status EXCEPT ![target] = "active"]
  /\ bound' = target /\ target' = NoSession /\ pc' = "prompt"
  /\ UNCHANGED <<log, snaps, engine, chosen, turnVars, history, bounds>>

\* resume succeeds: the loop is bound to the target and gets a new engine.
SwitchResumes ==
  /\ pc = "switch" /\ Resumable(target)
  /\ status' = [status EXCEPT ![target] = "active"]
  /\ bound' = target /\ target' = NoSession /\ pc' = "prompt"
  /\ FreshEngine
  /\ UNCHANGED <<log, snaps, chosen, turnVars, history, bounds>>

\* resume raises SessionError: the error is shown and the loop goes on.
SwitchFails ==
  /\ pc = "switch" /\ ~Resumable(target)
  /\ target' = NoSession /\ pc' = "prompt"
  /\ UNCHANGED <<disk, bound, engine, chosen, turnVars, history, bounds>>

-----------------------------------------------------------------------------
(* One turn (run_turn, _run_turn). *)

\* expire_turns: what is kept of the pending writes when turn t begins.
Unexpired(t) == {tok \in pending : t - tok.turn <= TokenAge}

\* The abort is a line on the screen (before H4).
WrongAsk ==
  /\ pc = "prompt" /\ NextTurn(bound) \in Turns
  /\ turn' = NextTurn(bound)
  /\ pending' = Unexpired(NextTurn(bound))
  /\ log' = Append1(bound, "user", NextTurn(bound))
  /\ pc' = "asked"
  /\ UNCHANGED <<snaps, status, bound, target, total, halted, ledger, loaded, chosen,
                 open, iter, gathered, counted, history, bounds>>

\* Tokens age out, history is read, then the question is appended.
Ask ==
  /\ pc = "prompt" /\ ~halted /\ NextTurn(bound) \in Turns
  /\ turn' = NextTurn(bound)
  /\ pending' = Unexpired(NextTurn(bound))
  /\ log' = Append1(bound, "user", NextTurn(bound))
  /\ pc' = "asked"
  /\ UNCHANGED <<snaps, status, bound, target, total, halted, ledger, loaded, chosen,
                 open, iter, gathered, counted, history, bounds>>

\* From here an interruption leaves the turn open.
OpenTurn ==
  /\ pc = "asked"
  /\ open' = turn
  /\ pc' = "model"
  /\ UNCHANGED <<disk, bound, target, engine, chosen,
                 turn, iter, gathered, counted, history, bounds>>

\* A halted engine answers with a refusal; a conversational turn then leaves
\* the loop, a /report does not.
RefuseTurn ==
  /\ pc = "prompt" /\ halted
  /\ pc' \in {"prompt", "closing"}
  /\ UNCHANGED <<disk, bound, target, engine, chosen, turnVars, history, bounds>>

\* The loop never counts (before the owner ruling on iteration caps).
WrongCallTool ==
  /\ pc = "model" /\ iter < Limit
  /\ pc' = "tool"
  /\ UNCHANGED <<disk, bound, target, engine, chosen, turnVars, history, bounds>>

\* One iteration more than the profile allows.
OneCallTooMany ==
  /\ pc = "model" /\ iter <= Limit
  /\ iter' = iter + 1
  /\ pc' = "tool"
  /\ UNCHANGED <<disk, bound, target, engine, chosen,
                 turn, open, gathered, counted, history, bounds>>

\* The response calls a tool.
CallTool ==
  /\ pc = "model" /\ iter < Limit
  /\ iter' = iter + 1
  /\ pc' = "tool"
  /\ UNCHANGED <<disk, bound, target, engine, chosen,
                 turn, open, gathered, counted, history, bounds>>

\* Values enter the session's pool as they are read.
WrongToolSucceeds ==
  /\ pc = "tool"
  /\ gathered' = gathered \union {iter}
  /\ ledger' = (IF loaded THEN ledger ELSE Stored(bound)) \union {<<turn, iter>>}
  /\ loaded' = TRUE
  /\ pc' = "model"
  /\ UNCHANGED <<disk, bound, target, pending, total, halted, chosen,
                 turn, open, iter, counted, history, bounds>>

\* A read tool that succeeds: its values join this turn's snapshot.
ToolSucceeds ==
  /\ pc = "tool"
  /\ gathered' = gathered \union {iter}
  /\ pc' = "model"
  /\ UNCHANGED <<disk, bound, target, engine, chosen,
                 turn, open, iter, counted, history, bounds>>

\* An unknown tool, arguments that are no JSON, a tool that raises: the result
\* says so, and the model is asked again.
ToolFails ==
  /\ pc = "tool"
  /\ pc' = "model"
  /\ UNCHANGED <<disk, bound, target, engine, chosen, turnVars, history, bounds>>

\* A write tool is never run here: a token is issued and shown to the user.
ProposeWrite ==
  /\ pc = "tool"
  /\ pending' = pending \union {[session |-> bound, turn |-> turn, call |-> iter]}
  /\ pc' = "model"
  /\ UNCHANGED <<disk, bound, target, total, halted, ledger, loaded, chosen,
                 turnVars, history, bounds>>

\* JSON that is not an object reaches dict(arguments) in issue, which raises
\* TypeError: nothing in the turn or the loop handles it, the loop ends.
ProposeGarbled ==
  /\ pc = "tool" /\ garbled < MaxGarbled
  /\ garbled' = garbled + 1
  /\ pc' = "closing"
  /\ UNCHANGED <<disk, bound, target, engine, chosen, turnVars, history,
                 interrupts, late, kills, typos>>

\* The response is an answer.
Candidate ==
  /\ pc = "model" /\ iter < Limit
  /\ pc' = "verify"
  /\ UNCHANGED <<disk, bound, target, engine, chosen, turnVars, history, bounds>>

\* _mark_incomplete: the open turn has no answer and is left out of replay.
MarkIncomplete ==
  log' = IF open = NoTurn THEN log ELSE Append1(bound, "incomplete", open)

\* The iteration cap stops the turn.
IterationCap ==
  /\ pc = "model" /\ iter = Limit
  /\ MarkIncomplete
  /\ pc' = "prompt" /\ ClearTurn
  /\ UNCHANGED <<snaps, status, bound, target, engine, chosen, history, bounds>>

\* The call fails: ProviderError, from the first call or the regeneration.
ProviderFails ==
  /\ pc = "revise" \/ (pc = "model" /\ iter < Limit)
  /\ MarkIncomplete
  /\ pc' = "prompt" /\ ClearTurn
  /\ UNCHANGED <<snaps, status, bound, target, engine, chosen, history, bounds>>

\* The values the turn gathered are written to context/<turn>.json.
Snapshot ==
  /\ pc = "verify"
  /\ snaps' = [snaps EXCEPT ![bound] = @ \union {<<turn, gathered>>}]
  /\ pc' = "check"
  /\ UNCHANGED <<log, status, bound, target, engine, chosen, turnVars, history, bounds>>

\* run_postcheck against the session's pool: withheld, epistemic violations
\* (one regeneration), or shown (with its unverified numbers marked or not).
PostCheck ==
  /\ pc = "check"
  /\ ledger' = (IF loaded THEN ledger ELSE Stored(bound)) \union {<<turn, n>> : n \in gathered}
  /\ loaded' = TRUE
  /\ \E v \in 0 .. MaxViolations, withheld \in BOOLEAN :
       /\ counted' = v
       /\ pc' = IF v > 0 /\ ~withheld THEN "revise" ELSE "answer"
  /\ UNCHANGED <<disk, bound, target, pending, total, halted, chosen,
                 turn, open, iter, gathered, history, bounds>>

\* The one regeneration is shown or refused, counting the original's
\* violations, or withheld, when the recheck replaces the verdict.
Revise ==
  /\ pc = "revise"
  /\ counted' \in {counted, 0}
  /\ pc' = "answer"
  /\ UNCHANGED <<disk, bound, target, engine, chosen,
                 turn, open, iter, gathered, history, bounds>>

\* The answer is appended to the log.
Answer ==
  /\ pc = "answer"
  /\ log' = Append1(bound, "assistant", turn)
  /\ pc' = "answered"
  /\ UNCHANGED <<snaps, status, bound, target, engine, chosen,
                 turnVars, history, bounds>>

\* An interruption from here on leaves the turn complete.
CloseTurn ==
  /\ pc = "answered"
  /\ open' = NoTurn
  /\ pc' = "count"
  /\ UNCHANGED <<disk, bound, target, engine, chosen,
                 turn, iter, gathered, counted, history, bounds>>

\* The abort is only kept in memory (before the H4 residual).
WrongCount ==
  /\ pc = "count"
  /\ total' = total + counted
  /\ halted' = (halted \/ total + counted > EpistemicLimit)
  /\ pc' = "prompt" /\ ClearTurn
  /\ UNCHANGED <<disk, bound, target, pending, ledger, loaded, chosen, history, bounds>>

\* PostCheckCounter.record; beyond the budget the engine halts.
Count ==
  /\ pc = "count"
  /\ total' = total + counted
  /\ IF total + counted > EpistemicLimit
     THEN /\ halted' = TRUE /\ pc' = "persist"
          /\ UNCHANGED turnVars
     ELSE /\ pc' = "prompt" /\ ClearTurn
          /\ UNCHANGED halted
  /\ UNCHANGED <<disk, bound, target, pending, ledger, loaded, chosen, history, bounds>>

\* store.abort; a conversational turn then leaves the loop, a /report does not.
Persist ==
  /\ pc = "persist"
  /\ status' = [status EXCEPT ![bound] = "aborted"]
  /\ pc' \in {"prompt", "closing"}
  /\ ClearTurn
  /\ UNCHANGED <<log, snaps, bound, target, engine, chosen, history, bounds>>

-----------------------------------------------------------------------------
(* `confirm <token>`: the only way a proposed write is executed. *)

\* consume: a token is redeemed once.
Confirm ==
  /\ pc = "prompt"
  /\ \E tok \in pending : chosen' = tok /\ pending' = pending \ {tok}
  /\ pc' = "execute"
  /\ UNCHANGED <<disk, bound, target, total, halted, ledger, loaded, turnVars, history, bounds>>

\* A failed write is reported on the screen only.
WrongExecute ==
  /\ pc = "execute"
  /\ executed' = executed \union {chosen}
  /\ pc' \in {"record", "prompt"}
  /\ chosen' = IF pc' = "record" THEN chosen ELSE NoToken
  /\ UNCHANGED <<disk, bound, target, engine, turnVars, recorded, bounds>>

\* registry.execute with allow_write; ok or failed, the outcome is reported.
Execute ==
  /\ pc = "execute"
  /\ executed' = executed \union {chosen}
  /\ pc' = "record"
  /\ UNCHANGED <<disk, bound, target, engine, chosen, turnVars,
                 recorded, bounds>>

\* The events of the write, of turn null; the last is a harness message.
Record ==
  /\ pc = "record"
  /\ log' = Append1(bound, "user", NoTurn)
  /\ recorded' = recorded \union {chosen}
  /\ pc' = "prompt" /\ chosen' = NoToken
  /\ UNCHANGED <<snaps, status, bound, target, engine, turnVars,
                 executed, bounds>>

-----------------------------------------------------------------------------
(* Ctrl-C and kills. *)

\* Inside a turn, Ctrl-C returns to the prompt; an open turn is marked.
InterruptTurn ==
  /\ pc \in {"model", "tool", "verify", "check", "revise", "answer"}
  /\ interrupts < MaxInterrupts /\ interrupts' = interrupts + 1
  /\ MarkIncomplete
  /\ pc' = "prompt" /\ ClearTurn
  /\ UNCHANGED <<snaps, status, bound, target, engine, chosen, history,
                 late, kills, typos, garbled>>

\* The same while the question or the answer is being recorded (append_event
\* also rewrites index.json), or after it.
InterruptLate ==
  /\ pc \in {"asked", "answered", "count", "persist"}
  /\ late < MaxLate /\ late' = late + 1
  /\ MarkIncomplete
  /\ pc' = "prompt" /\ ClearTurn
  /\ UNCHANGED <<snaps, status, bound, target, engine, chosen, history,
                 interrupts, kills, typos, garbled>>

\* Outside a turn nothing handles Ctrl-C: the loop ends.
InterruptConfirm ==
  /\ pc \in {"execute", "record"}
  /\ late < MaxLate /\ late' = late + 1
  /\ pc' = "closing"
  /\ UNCHANGED <<disk, bound, target, engine, chosen, turnVars, history,
                 interrupts, kills, typos, garbled>>

Kill ==
  /\ pc # "shell"
  /\ kills < MaxKills /\ kills' = kills + 1
  /\ pc' = "shell" /\ bound' = NoSession /\ target' = NoSession /\ chosen' = NoToken
  /\ FreshEngine /\ ClearTurn
  /\ UNCHANGED <<disk, history, interrupts, late, typos, garbled>>

-----------------------------------------------------------------------------
\* What the engine does by itself once a turn has begun.
TurnStep ==
  \/ OpenTurn \/ CallTool \/ ToolSucceeds \/ ToolFails \/ ProposeWrite \/ ProposeGarbled \/ Candidate
  \/ IterationCap \/ ProviderFails
  \/ Snapshot \/ PostCheck \/ Revise \/ Answer \/ CloseTurn \/ Count \/ Persist

Next ==
  \/ TurnStep
  \/ \E s \in Sessions : NewSession(s) \/ ResumeSession(s) \/ Switch(s)
  \/ SwitchResumes \/ SwitchFails
  \/ Exit \/ Close
  \/ Ask \/ RefuseTurn
  \/ Confirm \/ Execute \/ Record
  \/ InterruptTurn \/ InterruptLate \/ InterruptConfirm \/ Kill

Spec == Init /\ [][Next]_vars

\* The engine runs; users may stop typing at any time.
FairSpec == Spec /\ WF_vars(TurnStep)

-----------------------------------------------------------------------------
TypeOK ==
  /\ log \in [Sessions -> Seq(Event)]
  /\ snaps \in [Sessions -> SUBSET (Turns \X SUBSET (1 .. Limit))]
  /\ status \in [Sessions -> {"none", "active", "closed", "aborted"}]
  /\ pc \in Phases
  /\ bound \in Sessions \union {NoSession} /\ target \in Sessions \union {NoSession}
  /\ pending \subseteq Token
  /\ chosen \in Token \union {NoToken}
  /\ total \in Nat /\ halted \in BOOLEAN
  /\ ledger \subseteq Turns \X (1 .. Limit) /\ loaded \in BOOLEAN
  /\ turn \in Turns \union {NoTurn} /\ open \in Turns \union {NoTurn}
  /\ iter \in 0 .. Limit /\ gathered \subseteq 1 .. Limit
  /\ counted \in 0 .. MaxViolations
  /\ executed \subseteq Token /\ recorded \subseteq Token
  /\ interrupts \in Nat /\ late \in Nat /\ kills \in Nat /\ typos \in Nat /\ garbled \in Nat

Questions(s) == {Replay(s)[i].turn : i \in {j \in DOMAIN Replay(s) : Replay(s)[j].kind = "user"}}

\* What the model is told of the past holds no question without its answer,
\* whatever ended the turns in between: an interruption, an error, the cap.
\* Only a kill, an exception nothing handles, or a Ctrl-C before the turn is
\* noted as open leaves one (DE-14).
QuestionsAnswered ==
  kills = 0 /\ garbled = 0 /\ late = 0 /\ pc = "prompt" =>
    Questions(bound) \subseteq TurnsWith(bound, "assistant") \union {NoTurn}

\* An answer that is on record is replayed, right after its question, even when
\* Ctrl-C struck while it was being recorded and its turn was marked (ADR-001 Am2).
AnswersStand ==
  \A s \in Sessions : \A t \in TurnsWith(s, "assistant") :
    \E i \in 2 .. Len(Conversation(s)) :
      /\ Conversation(s)[i] = [kind |-> "assistant", turn |-> t]
      /\ Conversation(s)[i - 1] = [kind |-> "user", turn |-> t]

\* The snapshot of a turn is never refused for reusing a turn id: turns that
\* were interrupted, killed or resumed do not give theirs to a later one.
SnapshotFresh == pc = "verify" => \A p \in snaps[bound] : p[1] # turn

\* Numbers are only verified against values that are on disk, and against all
\* that the session's answered turns put there: what an interrupted turn read in
\* memory is no evidence, and a resumed session has all it had (TP-017 PR-3a).
EvidenceOnDisk ==
  pc \in {"revise", "answer"} =>
    /\ ledger \subseteq Stored(bound)
    /\ \A e \in Stored(bound) :
         e[1] \in TurnsWith(bound, "assistant") \union {turn} => e \in ledger

\* The model is never called for a session the guardrail aborted (H4).
AbortedIsSilent == pc \in {"model", "tool", "revise"} => status[bound] # "aborted"

\* No close, switch, resume, kill or restart undoes an abort (H4 residual).
AbortIsTerminal ==
  [][\A s \in Sessions : status[s] = "aborted" => status'[s] = "aborted"]_status

\* A session whose engine is over the INV-002 budget leaves the turn aborted on
\* disk, so that a restart cannot reopen it (P-08).  A Ctrl-C after the answer
\* may come before the verdict is counted, or written.
BudgetAborts ==
  late = 0 /\ total > EpistemicLimit /\ pc # "persist" => status[bound] = "aborted"

\* A confirmed write was proposed in the session the user is in, no more than
\* TokenAge turns ago, and was not executed before (ADR-005 Am3).
ConsentIsFresh ==
  pc = "execute" =>
    /\ chosen.session = bound
    /\ \A t \in TurnsOf(bound) : t <= chosen.turn + TokenAge
    /\ chosen \notin executed

\* Every write the user confirmed is in the log the model reads, executed or
\* failed, unless the process was stopped in between (H3-4).
WritesOnRecord == kills = 0 /\ late = 0 /\ pc = "prompt" => executed \subseteq recorded

\* A turn that began ends, whatever the model answers.
TurnEnds == (open # NoTurn) ~> (open = NoTurn)

\* The loop is never left bound to a closed record, and turns on it
\* (TP-018b): switching, refused targets, late interrupts and resumes keep it
\* on an open or an aborted one while the user only names sessions that exist.
BoundNotClosedIfNamed ==
  typos = 0 /\ pc \in {"prompt", "model"} => status[bound] # "closed"
=============================================================================
