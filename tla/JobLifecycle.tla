--------------------------- MODULE JobLifecycle ---------------------------
(***************************************************************************)
(* What the batch API promises a client that polls one job: the status     *)
(* only moves forward, a verdict is final, an interrupted job may still    *)
(* turn out to have reached one, and the record is eventually forgotten.   *)
(***************************************************************************)
VARIABLE status

Open     == {"queued", "running"}
Verdicts == {"completed", "failed", "cancelled"}

Init == status = "none"

Submit    == status = "none" /\ status' = "queued"
Advance   == status = "queued" /\ status' = "running"
Settle    == status \in Open \cup {"interrupted"} /\ status' \in Verdicts
Interrupt == status \in Open /\ status' = "interrupted"
Forget    == status \in Open \cup Verdicts \cup {"interrupted"} /\ status' = "gone"

Next == Submit \/ Advance \/ Settle \/ Interrupt \/ Forget

Spec == Init /\ [][Next]_status /\ WF_status(Settle \/ Interrupt \/ Forget)
                                /\ WF_status(Forget)
=============================================================================
