-------------------------- MODULE EngineContract --------------------------
(***************************************************************************)
(* What a batch engine promises the code that drives it: it is started     *)
(* once, counts every row at most once, settles only with all rows         *)
(* counted, may be told to cancel at any time, and stays silent after it   *)
(* has settled.  If start() rejects, rows that were in flight still count. *)
(***************************************************************************)
EXTENDS Naturals

CONSTANT Rows

VARIABLE engine

Init ==
    engine = [state |-> "idle", done |-> 0, ok |-> 0, bad |-> 0, cancelled |-> FALSE]

Start  == engine.state = "idle"
          /\ engine' = [engine EXCEPT !.state = "running", !.cancelled = FALSE]
Cancel == engine' = [engine EXCEPT !.cancelled = TRUE]
Row    == /\ engine.state \in {"running", "rejected"} /\ engine.done < Rows
          /\ \/ engine' = [engine EXCEPT !.done = @ + 1, !.ok = @ + 1]
             \/ engine' = [engine EXCEPT !.done = @ + 1, !.bad = @ + 1]
             \/ engine' = [engine EXCEPT !.done = @ + 1]
Settle == engine.state = "running" /\ engine.done = Rows
          /\ engine' = [engine EXCEPT !.state = "settled"]
Reject == engine.state = "running" /\ engine' = [engine EXCEPT !.state = "rejected"]

Next == Start \/ Cancel \/ Row \/ Settle \/ Reject

Spec == Init /\ [][Next]_engine
=============================================================================
