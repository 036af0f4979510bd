---------------------------- MODULE InlineBatch ----------------------------
(***************************************************************************)
(* One batch job in inline dispatch mode, on the replica that owns it: the *)
(* POST handler, the engine it starts, the heartbeat timer, polls of the   *)
(* progress endpoint, the engine's completion handlers, SIGTERM and crash, *)
(* all writing one job record through JobStore.update.                     *)
(*                                                                         *)
(* Store = "memory": update() runs inside one turn of the event loop.      *)
(* Store = "redis":  update() is GET, mutate, SET.  A process has one      *)
(* connection, which executes commands in the order they were sent: the    *)
(* SETs in flight form a queue (`wire`) in the order of their GETs, and    *)
(* other commands run between the two halves.  A SET may fail, applied or  *)
(* not; update() then backs off and starts over with a fresh GET.          *)
(***************************************************************************)
EXTENDS JobRecord, Sequences

CONSTANTS
    Store,          \* what createJobStore() built
    StoreFails,     \* Redis commands may fail
    SourceFails,    \* the row source may throw, rejecting engine.start()
    MaxAttempts,    \* UPDATE_MAX_ATTEMPTS
    Beats, Syncs    \* heartbeat ticks and polls that may be in flight at once

CONSTANTS Final, Shutdown   \* the completion handler; finalizeAllRunningJobs

Writers == Beats \cup Syncs \cup {Final, Shutdown}

ASSUME StoreAssumption    == Store \in {"memory", "redis"}
ASSUME FlagsAssumption    == StoreFails \in BOOLEAN /\ SourceFails \in BOOLEAN
ASSUME AttemptsAssumption == MaxAttempts \in Nat \ {0}
ASSUME WritersAssumption  ==
    /\ Final # Shutdown
    /\ Beats \cap Syncs = {}
    /\ Store = "memory" => ~StoreFails
    /\ {Final, Shutdown} \cap (Beats \cup Syncs) = {}

VARIABLES
    rec,      \* the record in the store
    post,     \* how far the POST handler is
    engine,   \* the streaming engine
    local,    \* localEngines holds the engine
    beating,  \* heartbeatTimers holds the job's timer
    op,       \* per writer: the update() call it is in
    wire,     \* writers whose SET is on the connection, oldest first
    phase,    \* the process: serving, then its shutdown steps
    webhook   \* status of the completion notification sent, or "none"

vars == <<rec, post, engine, local, beating, op, wire, phase, webhook>>

EngineStates == {"idle", "running", "settled", "rejected"}
Phases == {"serving", "finalizing", "draining", "closed", "exited"}
OpStates == {"idle", "sent", "backoff", "resolved"}

Engines == [state : EngineStates, done : 0..Rows, ok : 0..Rows, bad : 0..Rows,
            cancelled : BOOLEAN]
Ops == [state : OpStates, frame : Frames \cup {NoFrame},
        next : Records \cup {NoRecord}, tries : 0..(MaxAttempts - 1)]

IdleOp == [state |-> "idle", frame |-> NoFrame, next |-> NoRecord, tries |-> 0]

TypeOK ==
    /\ rec \in Records \cup {NoRecord}
    /\ post \in {"none", "stored", "started", "refused"}
    /\ engine \in Engines
    /\ local \in BOOLEAN
    /\ beating \in BOOLEAN
    /\ op \in [Writers -> Ops]
    /\ wire \in Seq(Writers)
    /\ phase \in Phases
    /\ webhook \in {"none", "completed", "cancelled"}

Init ==
    /\ rec = NoRecord
    /\ post = "none"
    /\ engine = [state |-> "idle", done |-> 0, ok |-> 0, bad |-> 0, cancelled |-> FALSE]
    /\ local = FALSE
    /\ beating = FALSE
    /\ op = [w \in Writers |-> IdleOp]
    /\ wire = <<>>
    /\ phase = "serving"
    /\ webhook = "none"

Up == phase # "exited"

\* (fault) the running flag is lost
SnapshotNotRunning(e) == [done |-> e.done, ok |-> e.ok, bad |-> e.bad,
                          running |-> FALSE, cancelled |-> e.cancelled]

\* engine.getProgress(): the snapshot a poll or the completion handler takes.
Snapshot(e) == [done |-> e.done, ok |-> e.ok, bad |-> e.bad,
                running |-> e.state = "running", cancelled |-> e.cancelled]

(***************************************************************************)
(* With the memory store an update resolves in the turn that started it,   *)
(* so its continuation runs before any other handler.                      *)
(***************************************************************************)
TurnEnds ==
    Store = "memory" => \A w \in {Final, Shutdown} : op[w].state # "resolved"

----------------------------------------------------------------------------
(* JobStore.update *)

\* The mutator each caller passes.  Final carries no frame when start() threw.
Mutate(w, cur, frame) ==
    IF w \in Beats THEN WithBeat(cur)
    ELSE IF w \in Syncs THEN WithFrame(cur, frame)
    ELSE IF w = Shutdown THEN WithInterrupt(cur)
    ELSE IF frame = NoFrame THEN WithFailure(cur)
    ELSE WithResult(cur, frame)

\* update() returned or threw.  Only Final and Shutdown have code after it.
Finished(w, frame) ==
    IF w \in {Final, Shutdown} THEN [IdleOp EXCEPT !.state = "resolved", !.frame = frame]
    ELSE IdleOp

\* One turn of the update loop: GET, mutate, and send the SET (or, in the
\* memory store, write).  A closed store, a missing record and a mutator that
\* aborts all end the call without a write; so does a GET that fails.
Turn(w, frame, tries) ==
    LET next == IF phase = "closed" \/ rec = NoRecord THEN NoRecord
                ELSE Mutate(w, rec, frame) IN
    \/ /\ next = NoRecord \/ StoreFails
       /\ op' = [op EXCEPT ![w] = Finished(w, frame)]
       /\ UNCHANGED <<rec, wire>>
    \/ /\ next # NoRecord
       /\ Store = "memory"
       /\ rec' = next
       /\ op' = [op EXCEPT ![w] = Finished(w, frame)]
       /\ UNCHANGED wire
    \/ /\ next # NoRecord
       /\ Store = "redis"
       /\ op' = [op EXCEPT ![w] = [state |-> "sent", frame |-> frame,
                                   next |-> next, tries |-> tries]]
       /\ wire' = Append(wire, w)
       /\ UNCHANGED rec

\* The oldest SET on the connection executes and its reply arrives.
SetApplied ==
    /\ wire # <<>>
    /\ rec' = op[Head(wire)].next
    /\ op' = [op EXCEPT ![Head(wire)] = Finished(Head(wire), @.frame)]
    /\ wire' = Tail(wire)
    /\ UNCHANGED <<post, engine, local, beating, phase, webhook>>

\* The SET fails, having been executed or not.  The last attempt throws, and
\* every caller catches; an earlier one backs off.
SetFails ==
    /\ StoreFails
    /\ wire # <<>>
    /\ LET w == Head(wire) IN
       /\ rec' \in {rec, op[w].next}
       /\ op' = [op EXCEPT ![w] =
                   IF @.tries + 1 = MaxAttempts THEN Finished(w, @.frame)
                   ELSE [state |-> "backoff", frame |-> @.frame,
                         next |-> NoRecord, tries |-> @.tries + 1]]
    /\ wire' = Tail(wire)
    /\ UNCHANGED <<post, engine, local, beating, phase, webhook>>

\* The backoff timer fires: the loop starts over, with the caller's old frame.
Retry(w) ==
    /\ Up /\ TurnEnds
    /\ op[w].state = "backoff"
    /\ Turn(w, op[w].frame, op[w].tries)
    /\ UNCHANGED <<post, engine, local, beating, phase, webhook>>

----------------------------------------------------------------------------
(* POST /credentials/batch *)

\* jobStore.set(initialRecord): stored, or the request fails (the record may
\* be there all the same).
PostStores ==
    /\ phase \in {"serving", "finalizing", "draining"}
    /\ post = "none"
    /\ \/ rec' = InitialRecord /\ post' = "stored"
       \/ StoreFails /\ rec' \in {NoRecord, InitialRecord} /\ post' = "refused"
    /\ UNCHANGED <<engine, local, beating, op, wire, phase, webhook>>

\* The handler resumes: register the engine, start the heartbeat and the engine.
PostStarts ==
    /\ phase \in {"serving", "finalizing", "draining"}
    /\ post = "stored"
    /\ post' = "started"
    /\ local' = TRUE
    /\ beating' = TRUE
    /\ engine' = [engine EXCEPT !.state = "running", !.cancelled = FALSE]
    /\ UNCHANGED <<rec, op, wire, phase, webhook>>

----------------------------------------------------------------------------
(* The engine *)

\* A row is counted: signed, in error, or skipped (invalid or cancelled).  Rows
\* in flight when start() rejects are finished all the same.
EngineRow ==
    /\ Up /\ TurnEnds
    /\ engine.state \in {"running", "rejected"} /\ engine.done < Rows
    /\ \/ engine' = [engine EXCEPT !.done = @ + 1, !.ok = @ + 1]
       \/ engine' = [engine EXCEPT !.done = @ + 1, !.bad = @ + 1]
       \/ engine' = [engine EXCEPT !.done = @ + 1]
    /\ UNCHANGED <<rec, post, local, beating, op, wire, phase, webhook>>

\* (fault) the final frame is taken before running is cleared
EngineEndsStaleFrame ==
    /\ Up /\ TurnEnds
    /\ engine.state = "running" /\ engine.done = Rows
    /\ engine' = [engine EXCEPT !.state = "settled"]
    /\ Turn(Final, Snapshot(engine), 0)
    /\ UNCHANGED <<post, local, beating, phase, webhook>>

\* start() resolves after the last row, or rejects; the completion handler
\* begins its update in the same turn.
EngineEnds ==
    /\ Up /\ TurnEnds
    /\ engine.state = "running"
    /\ \/ /\ engine.done = Rows
          /\ engine' = [engine EXCEPT !.state = "settled"]
          /\ Turn(Final, Snapshot(engine'), 0)
       \/ /\ SourceFails
          /\ engine' = [engine EXCEPT !.state = "rejected"]
          /\ Turn(Final, NoFrame, 0)
    /\ UNCHANGED <<post, local, beating, phase, webhook>>

\* (fault) the handler forgets stopHeartbeat
CleanupKeepsTimer ==
    /\ Up
    /\ op[Final].state = "resolved"
    /\ op' = [op EXCEPT ![Final] = IdleOp]
    /\ local' = FALSE
    /\ UNCHANGED <<rec, post, engine, beating, wire, phase, webhook>>

\* The handler resumes: release the engine and the timer, notify (only the
\* fulfilled handler does; the payload knows two statuses).
Cleanup ==
    /\ Up
    /\ op[Final].state = "resolved"
    /\ op' = [op EXCEPT ![Final] = IdleOp]
    /\ local' = FALSE
    /\ beating' = FALSE
    /\ webhook' = IF op[Final].frame = NoFrame THEN webhook
                  ELSE IF op[Final].frame.cancelled THEN "cancelled" ELSE "completed"
    /\ UNCHANGED <<rec, post, engine, wire, phase>>

----------------------------------------------------------------------------
(* Heartbeat and polls *)

Beat(b) ==
    /\ Up /\ TurnEnds
    /\ beating
    /\ op[b].state = "idle"
    /\ Turn(b, NoFrame, 0)
    /\ UNCHANGED <<post, engine, local, beating, phase, webhook>>

\* GET /credentials/batch/:id with the engine on this replica pushes the frame
\* it answers with into the store.
Sync(s) ==
    /\ phase \in {"serving", "finalizing", "draining"} /\ TurnEnds
    /\ local
    /\ op[s].state = "idle"
    /\ Turn(s, Snapshot(engine), 0)
    /\ UNCHANGED <<post, engine, local, beating, phase, webhook>>

----------------------------------------------------------------------------
(* Shutdown, crash, expiry *)

\* SIGTERM: finalizeAllRunningJobs cancels the engine, stops the timer and
\* begins its update; with no local engine it has nothing to do.
BeginShutdown ==
    /\ phase = "serving" /\ TurnEnds
    /\ IF local
       THEN /\ engine' = [engine EXCEPT !.cancelled = TRUE]
            /\ beating' = FALSE
            /\ Turn(Shutdown, NoFrame, 0)
            /\ phase' = "finalizing"
       ELSE /\ phase' = "draining"
            /\ UNCHANGED <<rec, engine, beating, op, wire>>
    /\ UNCHANGED <<post, local, webhook>>

\* localEngines.clear(); the server stops accepting and drains.
EndFinalize ==
    /\ phase = "finalizing"
    /\ op[Shutdown].state = "resolved"
    /\ op' = [op EXCEPT ![Shutdown] = IdleOp]
    /\ local' = FALSE
    /\ phase' = "draining"
    /\ UNCHANGED <<rec, post, engine, beating, wire, webhook>>

\* server.close() calls back once no request is open; the store is closed.
CloseStore ==
    /\ phase = "draining" /\ TurnEnds
    /\ post # "stored"
    /\ \A s \in Syncs : op[s].state = "idle"
    /\ phase' = "closed"
    /\ rec' = IF Store = "memory" THEN NoRecord ELSE rec
    /\ UNCHANGED <<post, engine, local, beating, op, wire, webhook>>

\* quit() has flushed the connection: the process ends.
Exit ==
    /\ phase = "closed"
    /\ wire = <<>>
    /\ phase' = "exited"
    /\ local' = FALSE
    /\ beating' = FALSE
    /\ op' = [w \in Writers |-> IdleOp]
    /\ UNCHANGED <<rec, post, engine, wire, webhook>>

\* SIGKILL, OOM, or the forced exit after 25 s.  SETs not executed are lost,
\* and so is a store that lived in the process.
Crash ==
    /\ Up
    /\ phase' = "exited"
    /\ local' = FALSE
    /\ beating' = FALSE
    /\ op' = [w \in Writers |-> IdleOp]
    /\ wire' = <<>>
    /\ rec' = IF Store = "memory" THEN NoRecord ELSE rec
    /\ UNCHANGED <<post, engine, webhook>>

\* OPENCRED_SESSION_TTL has passed since the last write.  It is far longer than
\* an update or a heartbeat interval, so it waits for both.
Expire ==
    /\ rec # NoRecord
    /\ \A w \in Writers : op[w].state \notin {"sent", "backoff"}
    /\ ~(Up /\ post = "stored")
    /\ ~(beating /\ WithBeat(rec) # NoRecord)
    /\ rec' = NoRecord
    /\ UNCHANGED <<post, engine, local, beating, op, wire, phase, webhook>>

----------------------------------------------------------------------------
Next ==
    \/ PostStores \/ PostStarts
    \/ EngineRow \/ EngineEnds \/ Cleanup
    \/ \E b \in Beats : Beat(b)
    \/ \E s \in Syncs : Sync(s)
    \/ \E w \in Writers : Retry(w)
    \/ SetApplied \/ SetFails
    \/ BeginShutdown \/ EndFinalize \/ CloseStore \/ Exit
    \/ Crash \/ Expire

(***************************************************************************)
(* The event loop resumes what is ready, the signer answers, Redis answers *)
(* and expires keys.  Nobody has to post, poll, send SIGTERM or crash.     *)
(***************************************************************************)
Fairness ==
    /\ WF_vars(PostStarts)
    /\ WF_vars(EngineRow) /\ WF_vars(EngineEnds) /\ WF_vars(Cleanup)
    /\ WF_vars(SetApplied \/ SetFails)
    /\ \A w \in Writers : WF_vars(Retry(w))
    /\ WF_vars(EndFinalize) /\ WF_vars(CloseStore) /\ WF_vars(Exit)
    /\ WF_vars(Expire)

Spec == Init /\ [][Next]_vars /\ Fairness

----------------------------------------------------------------------------
Ended == engine.state \in {"settled", "rejected"}

(* Nobody who reads the store is told that a batch completed or failed     *)
(* while its engine is still signing rows, whatever writers overtake each  *)
(* other: no update in flight carries such a record either.                *)
FinishedIsTrue ==
    rec # NoRecord /\ rec.status \in {"completed", "failed"} => Ended

(* A frame in the store that is not running holds the final counts of an   *)
(* engine that settled: late SETs and retries may replay an older running  *)
(* frame, never a wrong total.  (After start() has rejected, rows that     *)
(* were in flight may still be added to what such a frame says.)           *)
FinalCountsTrue ==
    rec # NoRecord /\ rec.progress # NoFrame /\ ~rec.progress.running =>
        /\ Ended
        /\ rec.progress.done <= engine.done
        /\ engine.state = "settled" =>
              /\ rec.progress.done = engine.done
              /\ rec.progress.ok = engine.ok
              /\ rec.progress.bad = engine.bad

(* Once the completion handler has run on a serving replica, the record    *)
(* has a terminal status: no client polls a job that nobody is working on. *)
EndedIsSettled ==
    Ended /\ phase = "serving" /\ op[Final].state = "idle" /\ rec # NoRecord =>
        rec.status \in Terminal

(* The count of finished rows a poll sees never goes back.                 *)
ProgressMonotone ==
    [][(rec # NoRecord /\ rec' # NoRecord /\ rec.progress # NoFrame) =>
           rec'.progress # NoFrame /\ rec'.progress.done >= rec.progress.done]_rec

(* Session data is ephemeral: nothing keeps re-arming the record's TTL.    *)
Ephemeral == (rec # NoRecord) ~> (rec = NoRecord)

(* The record, as a client polls it, follows the lifecycle of the API.     *)
PolledStatus ==
    IF rec # NoRecord THEN rec.status ELSE IF post = "none" THEN "none" ELSE "gone"

Lifecycle == INSTANCE JobLifecycle WITH status <- PolledStatus

LifecycleSpec == Lifecycle!Spec
=============================================================================
