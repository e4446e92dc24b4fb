---------------------------- MODULE AtomicBudget ----------------------------
(***************************************************************************)
(* What the call budget promises (ingest/budget.py): a spending happens in *)
(* one step, whole or not at all, and never takes the calls of a day above *)
(* the cap; a new UTC day starts at zero; nothing else moves the count.    *)
(***************************************************************************)
EXTENDS Integers

CONSTANTS
  Cap,     \* EODHD_DAILY_CALLS
  Costs    \* what one item may cost

VARIABLES
  calls,   \* the calls made today
  day      \* the UTC date

Init == calls = 0 /\ day = 1

Spend(n) ==
  /\ calls + n <= Cap
  /\ calls' = calls + n
  /\ UNCHANGED day

NewDay == day' = day + 1 /\ calls' = 0

Next == NewDay \/ \E n \in Costs : Spend(n)

Spec == Init /\ [][Next]_<<calls, day>>
=============================================================================
