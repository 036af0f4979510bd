----------------------------- MODULE JobRecord -----------------------------
(***************************************************************************)
(* The batch-job record shared by the HTTP route, the worker process and   *)
(* every replica that answers a poll: its status enum, the progress frame  *)
(* it carries, and the pure functions the writers apply to it.             *)
(*                                                                         *)
(* A frame keeps the three counters the status is derived from (rows done, *)
(* signed, in error; skipped rows are the difference) and the two flags.   *)
(* Timestamps are abstracted: `settled` stands for the presence of         *)
(* completedAt, lastSeenAt is left out.                                    *)
(***************************************************************************)
EXTENDS Naturals

CONSTANTS
    Rows,      \* number of rows of the batch
    NoFrame,   \* JobRecord.progress = null
    NoRecord   \* the store has no record under the job id

Statuses == {"queued", "running", "completed", "cancelled", "failed", "interrupted"}

\* Statuses after which the engine has nothing more to say.
Terminal == {"completed", "cancelled", "failed", "interrupted"}

Frames == [done : 0..Rows, ok : 0..Rows, bad : 0..Rows,
           running : BOOLEAN, cancelled : BOOLEAN]

Records == [status : Statuses, progress : Frames \cup {NoFrame}, settled : BOOLEAN]

ASSUME RowsAssumption   == Rows \in Nat \ {0}
ASSUME NoFrameAssumption  == NoFrame \notin Frames
ASSUME NoRecordAssumption == NoRecord \notin Records

\* (fault) the running flag is not looked at
DeriveStatusIgnoringRunning(f) ==
    IF f = NoFrame THEN "queued"
    ELSE IF f.cancelled THEN "cancelled"
    ELSE IF f.bad > 0 /\ f.ok = 0 THEN "failed"
    ELSE "completed"

(***************************************************************************)
(* deriveStatus: the status a frame stands for.  A cancelled frame says    *)
(* "cancelled" whether or not rows are still being signed.                 *)
(***************************************************************************)
DeriveStatus(f) ==
    IF f = NoFrame THEN "queued"
    ELSE IF f.cancelled THEN "cancelled"
    ELSE IF f.running THEN IF f.done = 0 THEN "queued" ELSE "running"
    ELSE IF f.bad > 0 /\ f.ok = 0 THEN "failed"
    ELSE "completed"

\* The record POST /credentials/batch writes before it answers.
InitialRecord == [status |-> "queued", progress |-> NoFrame, settled |-> FALSE]

\* (fault) the frame is stored, the status is not derived from it
WithFrameOnly(cur, f) == [cur EXCEPT !.progress = f]

\* A progress frame pushed into the record: a poll of the owning replica
\* (GET handler) or an onProgress frame of a worker.
WithFrame(cur, f) == [cur EXCEPT !.progress = f, !.status = DeriveStatus(f)]

\* The last write of an engine that settled, and of one whose start() threw.
WithResult(cur, f) == [WithFrame(cur, f) EXCEPT !.settled = TRUE]
WithFailure(cur)   == [cur EXCEPT !.status = "failed", !.settled = TRUE]

\* (fault) the tick rewrites the record of the POST, not the one it read
BeatOfInitial(cur) == IF cur.status \in Terminal THEN NoRecord ELSE InitialRecord

\* A heartbeat: refuses a settled record (NoRecord = "abort the update"),
\* otherwise rewrites the record it read.
WithBeat(cur) == IF cur.status \in Terminal THEN NoRecord ELSE cur

\* finalizeAllRunningJobs: keep what the engine reported, else interrupt.
WithInterrupt(cur) ==
    IF cur.status \in {"completed", "failed", "cancelled"} THEN cur
    ELSE [cur EXCEPT !.status = "interrupted", !.settled = TRUE]

\* GET /credentials/batch/:id/results answers 409 JOB_RUNNING.
ResultsRefused(r) == r.progress # NoFrame /\ r.progress.running
=============================================================================
