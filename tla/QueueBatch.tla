---------------------------- MODULE QueueBatch ----------------------------
(***************************************************************************)
(* One batch job in queue dispatch mode: POST stores the record and hands  *)
(* the job to BullMQ; worker processes run the engine, push its frames     *)
(* into the record, write the verdict, queue a webhook and acknowledge.    *)
(*                                                                         *)
(* BullMQ is external: a job is waiting, locked by a worker, completed or  *)
(* failed.  A worker that dies or is too slow to renew its lock loses it,  *)
(* and the job runs again, at most MaxStalls times; a slow worker does not *)
(* notice and goes on.                                                     *)
(*                                                                         *)
(* The record is in Redis, updated by GET, mutate, SET as in InlineBatch.  *)
(* Each worker has a connection of its own with its SETs in order (`wire`).*)
(***************************************************************************)
EXTENDS JobRecord, Sequences

CONSTANTS
    Workers,       \* processing slots, each in a process of its own
    NoWorker,
    Outcomes,      \* of a row: "signed", "error", "skipped", or some of them
    MaxAttempts,   \* UPDATE_MAX_ATTEMPTS
    MaxStalls,     \* BullMQ's maxStalledCount: 1, its default
    HookAttempts,  \* attempts of a webhook job: 5
    MaxFaults      \* bound: Redis commands that fail (an add that left no job
                   \* is free), and worker processes that crash or are told to
                   \* stop

ASSUME WorkerAssumption == NoWorker \notin Workers
ASSUME OutcomeAssumption == Outcomes \subseteq {"signed", "error", "skipped"}
ASSUME BoundAssumption  ==
    /\ MaxAttempts \in Nat \ {0} /\ HookAttempts \in Nat \ {0}
    /\ MaxStalls \in Nat /\ MaxFaults \in Nat

VARIABLES
    rec,       \* the record in the store
    post,      \* how far the POST handler is
    job,       \* the BullMQ job
    holder,    \* worker with the job's lock
    stalls,    \* the job's stalledCounter
    at,        \* per worker: where its processor is
    stopping,  \* workers that were sent SIGTERM
    run,       \* per worker: the number of its run of the job
    engine,    \* per worker: the engine of its run
    op,        \* per worker: its update() calls
    wire,      \* per worker: SETs on its connection, oldest first
    hook,      \* per run: the webhook job it queued
    blips, restarts,
    verdicts   \* history: final frames of the runs that ended

queue == <<job, holder, stalls>>
vars  == <<rec, post, queue, at, stopping, run, engine, op, wire, hook, blips,
           restarts, verdicts>>

\* Update calls of a processor: a throttled progress frame; and one that is
\* awaited, first for the frame start() ends with, then for the verdict.
Kinds == {"frame", "awaited"}
Places == {"off", "idle", "running", "flushing", "writing", "acking"}
Runs   == 1..(MaxStalls + 1)

Engines == [done : 0..Rows, ok : 0..Rows, bad : 0..Rows, running : BOOLEAN]
Fresh   == [done |-> 0, ok |-> 0, bad |-> 0, running |-> TRUE]
NoOp    == [state |-> "idle", frame |-> NoFrame, next |-> NoRecord, tries |-> 0]
Ops     == [state : {"idle", "sent", "backoff", "resolved"}, frame : Frames \cup {NoFrame},
            next : Records \cup {NoRecord}, tries : 0..(MaxAttempts - 1)]
Hook(state, frame) == [state |-> state, frame |-> frame, attempt |-> 0, stalls |-> 0]
NoHook  == Hook("none", NoFrame)
Hooks   == [state : {"none", "waiting", "delivered", "dead"}, frame : Frames \cup {NoFrame},
            attempt : 0..(HookAttempts - 1), stalls : 0..MaxStalls]

TypeOK ==
    /\ rec \in Records \cup {NoRecord}
    /\ post \in {"none", "stored", "queued", "refused", "lost"}
    /\ job \in {"none", "waiting", "active", "completed", "failed"}
    /\ holder \in Workers \cup {NoWorker}
    /\ stalls \in 0..MaxStalls
    /\ at \in [Workers -> Places]
    /\ stopping \subseteq Workers
    /\ run \in [Workers -> 0..(MaxStalls + 1)]
    /\ engine \in [Workers -> Engines]
    /\ op \in [Workers -> [Kinds -> Ops]]
    /\ wire \in [Workers -> Seq(Kinds)]
    /\ hook \in [Runs -> Hooks]
    /\ blips \in 0..MaxFaults
    /\ restarts \in 0..MaxFaults
    /\ verdicts \subseteq Frames

Init ==
    /\ rec = NoRecord /\ post = "none"
    /\ job = "none" /\ holder = NoWorker /\ stalls = 0
    /\ at = [w \in Workers |-> "idle"]
    /\ stopping = {}
    /\ run = [w \in Workers |-> 0]
    /\ engine = [w \in Workers |-> Fresh]
    /\ op = [w \in Workers |-> [k \in Kinds |-> NoOp]]
    /\ wire = [w \in Workers |-> <<>>]
    /\ hook = [r \in Runs |-> NoHook]
    /\ blips = 0 /\ restarts = 0 /\ verdicts = {}

FaultLeft == blips + restarts < MaxFaults

Processing == {"running", "flushing", "writing", "acking"}

\* (fault) the frame says the engine has stopped as soon as all rows are counted
SnapshotEarly(e) == [done |-> e.done, ok |-> e.ok, bad |-> e.bad,
                     running |-> e.done < Rows, cancelled |-> FALSE]

\* snapshotProgress(): a worker never cancels its engine.
Snapshot(e) == [done |-> e.done, ok |-> e.ok, bad |-> e.bad,
                running |-> e.running, cancelled |-> FALSE]

----------------------------------------------------------------------------
(* POST /credentials/batch, on an API replica *)

\* jobStore.set, then batchQueue.add.
PostStores ==
    /\ post = "none"
    /\ rec' = InitialRecord
    /\ post' = "stored"
    /\ UNCHANGED <<queue, at, stopping, run, engine, op, wire, hook, blips, restarts,
                   verdicts>>

PostEnqueues ==
    /\ post = "stored"
    /\ post' = "queued"
    /\ job' = "waiting"
    /\ UNCHANGED <<rec, holder, stalls, at, stopping, run, engine, op, wire, hook,
                   blips, restarts, verdicts>>

\* The add is refused, or only its answer is lost: the record is marked failed
\* if that write gets through, and the client is told 503.
PostRefused ==
    /\ post = "stored"
    /\ post' = "refused"
    /\ rec' \in {rec} \cup (IF rec = NoRecord THEN {} ELSE {WithFailure(rec)})
    /\ \/ UNCHANGED <<job, blips>>
       \/ FaultLeft /\ blips' = blips + 1 /\ job' = "waiting"
    /\ UNCHANGED <<holder, stalls, at, stopping, run, engine, op, wire, hook, restarts,
                   verdicts>>

\* The replica goes down between the two.
PostLost ==
    /\ post = "stored"
    /\ post' = "lost"
    /\ UNCHANGED <<rec, queue, at, stopping, run, engine, op, wire, hook, blips,
                   restarts, verdicts>>

----------------------------------------------------------------------------
(* JobStore.update, as a processor calls it *)

\* The call returned or threw.  Nobody waits for a progress frame.
Over(k, frame) ==
    IF k = "frame" THEN NoOp ELSE [NoOp EXCEPT !.state = "resolved", !.frame = frame]

\* GET, mutate, send the SET.  A missing record and a GET that fails end it.
\* `settles`: the mutator is the processor's own, which sets completedAt.
Turn(w, k, frame, tries, settles) ==
    \/ /\ rec = NoRecord
       /\ op' = [op EXCEPT ![w][k] = Over(k, frame)]
       /\ UNCHANGED <<wire, blips>>
    \/ /\ FaultLeft
       /\ blips' = blips + 1
       /\ op' = [op EXCEPT ![w][k] = Over(k, frame)]
       /\ UNCHANGED wire
    \/ /\ rec # NoRecord
       /\ op' = [op EXCEPT ![w][k] =
                   [state |-> "sent", frame |-> frame, tries |-> tries,
                    next |-> IF settles THEN WithResult(rec, frame) ELSE WithFrame(rec, frame)]]
       /\ wire' = [wire EXCEPT ![w] = Append(@, k)]
       /\ UNCHANGED blips

SetApplied(w) ==
    /\ wire[w] # <<>>
    /\ LET k == Head(wire[w]) IN
       /\ rec' = op[w][k].next
       /\ op' = [op EXCEPT ![w][k] = Over(k, @.frame)]
    /\ wire' = [wire EXCEPT ![w] = Tail(@)]
    /\ UNCHANGED <<post, queue, at, stopping, run, engine, hook, blips, restarts, verdicts>>

\* The SET fails, executed or not.  The last attempt throws; an earlier one
\* backs off.
SetFails(w) ==
    /\ wire[w] # <<>>
    /\ FaultLeft
    /\ blips' = blips + 1
    /\ LET k == Head(wire[w]) IN
       /\ rec' \in {rec, op[w][k].next}
       /\ op' = [op EXCEPT ![w][k] =
                   IF @.tries + 1 = MaxAttempts THEN Over(k, @.frame)
                   ELSE [state |-> "backoff", frame |-> @.frame, next |-> NoRecord,
                         tries |-> @.tries + 1]]
    /\ wire' = [wire EXCEPT ![w] = Tail(@)]
    /\ UNCHANGED <<post, queue, at, stopping, run, engine, hook, restarts, verdicts>>

\* A new GET, the caller's old frame.
Retry(w, k) ==
    /\ op[w][k].state = "backoff"
    /\ Turn(w, k, op[w][k].frame, op[w][k].tries, k = "awaited" /\ at[w] = "writing")
    /\ UNCHANGED <<rec, post, queue, at, stopping, run, engine, hook, restarts, verdicts>>

----------------------------------------------------------------------------
(* The batch worker's processor *)

Take(w) ==
    /\ at[w] = "idle" /\ w \notin stopping
    /\ job = "waiting"
    /\ job' = "active" /\ holder' = w
    /\ at' = [at EXCEPT ![w] = "running"]
    /\ run' = [run EXCEPT ![w] = stalls + 1]
    /\ UNCHANGED <<rec, post, stalls, stopping, engine, op, wire, hook, blips, restarts,
                   verdicts>>

\* A row is counted as signed, in error or skipped.
Row(w) ==
    /\ at[w] = "running" /\ engine[w].done < Rows
    /\ \E o \in Outcomes :
         engine' = [engine EXCEPT ![w] =
                      [done |-> @.done + 1, running |-> @.running,
                       ok  |-> IF o = "signed" THEN @.ok + 1 ELSE @.ok,
                       bad |-> IF o = "error" THEN @.bad + 1 ELSE @.bad]]
    /\ UNCHANGED <<rec, post, queue, at, stopping, run, op, wire, hook, blips, restarts,
                   verdicts>>

\* onProgress: a frame, at once or from the throttle timer, with the counts of
\* the last row.  At most one is on its way (they are 500 ms apart).
Emit(w) ==
    /\ at[w] = "running" /\ engine[w].done > 0
    /\ op[w]["frame"].state = "idle"
    /\ Turn(w, "frame", Snapshot(engine[w]), 0, FALSE)
    /\ UNCHANGED <<rec, post, queue, at, stopping, run, engine, hook, restarts, verdicts>>

\* start() ends: the last frame is emitted and awaited.
Settle(w) ==
    /\ at[w] = "running" /\ engine[w].done = Rows
    /\ engine' = [engine EXCEPT ![w].running = FALSE]
    /\ verdicts' = verdicts \cup {Snapshot(engine'[w])}
    /\ Turn(w, "awaited", Snapshot(engine'[w]), 0, FALSE)
    /\ at' = [at EXCEPT ![w] = "flushing"]
    /\ UNCHANGED <<rec, post, queue, stopping, run, hook, restarts>>

\* (fault) the last frame is taken for the final write
WriteNothing(w) ==
    /\ at[w] = "flushing" /\ op[w]["awaited"].state = "resolved"
    /\ at' = [at EXCEPT ![w] = "writing"]
    /\ UNCHANGED <<rec, post, queue, stopping, run, engine, op, wire, hook, blips,
                   restarts, verdicts>>

\* start() has returned: the final write, with completedAt.
Write(w) ==
    /\ at[w] = "flushing" /\ op[w]["awaited"].state = "resolved"
    /\ Turn(w, "awaited", op[w]["awaited"].frame, 0, TRUE)
    /\ at' = [at EXCEPT ![w] = "writing"]
    /\ UNCHANGED <<rec, post, queue, stopping, run, engine, hook, restarts, verdicts>>

\* webhookQueueOut.add, whose failure is logged.
Notify(w) ==
    /\ at[w] = "writing" /\ op[w]["awaited"].state = "resolved"
    /\ \/ /\ hook' = [hook EXCEPT ![run[w]] = Hook("waiting", op[w]["awaited"].frame)]
          /\ UNCHANGED blips
       \/ /\ FaultLeft /\ blips' = blips + 1
          /\ UNCHANGED hook
    /\ op' = [op EXCEPT ![w]["awaited"] = NoOp]
    /\ at' = [at EXCEPT ![w] = "acking"]
    /\ UNCHANGED <<rec, post, queue, stopping, run, engine, wire, restarts, verdicts>>

\* The processor returned: BullMQ completes the job if the lock is still ours.
Ack(w) ==
    /\ at[w] = "acking"
    /\ IF holder = w THEN job' = "completed" /\ holder' = NoWorker
                     ELSE UNCHANGED <<job, holder>>
    /\ at' = [at EXCEPT ![w] = "idle"]
    /\ run' = [run EXCEPT ![w] = 0]
    /\ engine' = [engine EXCEPT ![w] = Fresh]
    /\ UNCHANGED <<rec, post, stalls, stopping, op, wire, hook, blips, restarts,
                   verdicts>>

----------------------------------------------------------------------------
(* Locks, crashes, shutdown *)

\* The lock has run out: the job runs again, or has stalled too often.
Stall ==
    /\ holder # NoWorker
    /\ holder' = NoWorker
    /\ IF stalls < MaxStalls THEN job' = "waiting" /\ stalls' = stalls + 1
                             ELSE job' = "failed" /\ UNCHANGED stalls
    /\ UNCHANGED <<rec, post, at, stopping, run, engine, op, wire, hook, blips,
                   restarts, verdicts>>

Killed(w) ==
    /\ at' = [at EXCEPT ![w] = "off"]
    /\ stopping' = stopping \ {w}
    /\ op' = [op EXCEPT ![w] = [k \in Kinds |-> NoOp]]
    /\ run' = [run EXCEPT ![w] = 0]
    /\ engine' = [engine EXCEPT ![w] = Fresh]
    /\ UNCHANGED <<rec, post, queue, hook, blips, verdicts>>

\* SIGKILL or OOM.  SETs not executed are lost.
Crash(w) ==
    /\ at[w] # "off" /\ FaultLeft
    /\ restarts' = restarts + 1
    /\ wire' = [wire EXCEPT ![w] = <<>>]
    /\ Killed(w)

\* SIGTERM: batchWorker.close() lets no new job in.
Stop(w) ==
    /\ at[w] # "off" /\ w \notin stopping /\ FaultLeft
    /\ restarts' = restarts + 1
    /\ stopping' = stopping \cup {w}
    /\ UNCHANGED <<rec, post, queue, at, run, engine, op, wire, hook, blips, verdicts>>

\* (fault) the store is closed without waiting for the batch worker
ExitAtOnce(w) ==
    /\ w \in stopping /\ at[w] \in {"flushing", "writing", "acking", "idle"}
    /\ job' = IF holder = w THEN "completed" ELSE job
    /\ holder' = IF holder = w THEN NoWorker ELSE holder
    /\ at' = [at EXCEPT ![w] = "off"]
    /\ stopping' = stopping \ {w}
    /\ op' = [op EXCEPT ![w] = [k \in Kinds |-> NoOp]]
    /\ wire' = [wire EXCEPT ![w] = <<>>]
    /\ UNCHANGED <<rec, post, stalls, run, engine, hook, blips, restarts, verdicts>>

\* close() waits for the processor, then the store's quit()
\* flushes the connection.
Exit(w) ==
    /\ w \in stopping
    /\ at[w] = "idle"
    /\ wire[w] = <<>>
    /\ Killed(w)
    /\ UNCHANGED <<wire, restarts>>

Restart(w) ==
    /\ at[w] = "off"
    /\ at' = [at EXCEPT ![w] = "idle"]
    /\ UNCHANGED <<rec, post, queue, stopping, run, engine, op, wire, hook, blips,
                   restarts, verdicts>>

\* OPENCRED_SESSION_TTL after the last write; a run writes more often than that,
\* a job may wait longer.
Expire ==
    /\ rec # NoRecord /\ post # "stored"
    /\ \A w \in Workers : at[w] \notin Processing /\ \A k \in Kinds : op[w][k].state = "idle"
    /\ rec' = NoRecord
    /\ UNCHANGED <<post, queue, at, stopping, run, engine, op, wire, hook, blips,
                   restarts, verdicts>>

----------------------------------------------------------------------------
(* The webhook worker, in the same processes *)

\* BullMQ runs the job: deliverWebhook gets a 2xx, or throws (after its POSTs,
\* or for want of a secret) and uses up an attempt, or the process dies on it.
HookRun(r) ==
    /\ hook[r].state = "waiting"
    /\ \/ hook' = [hook EXCEPT ![r] = Hook("delivered", @.frame)]
       \/ /\ hook[r].attempt + 1 < HookAttempts
          /\ hook' = [hook EXCEPT ![r].attempt = @ + 1]
       \/ /\ hook[r].attempt + 1 = HookAttempts
          /\ hook' = [hook EXCEPT ![r] = Hook("dead", @.frame)]
       \/ /\ hook[r].stalls < MaxStalls
          /\ hook' = [hook EXCEPT ![r].stalls = @ + 1]
    /\ UNCHANGED <<rec, post, queue, at, stopping, run, engine, op, wire, blips, restarts,
                   verdicts>>

----------------------------------------------------------------------------
Worker(w) ==
    \/ Take(w) \/ Row(w) \/ Emit(w) \/ Settle(w) \/ Write(w) \/ Notify(w) \/ Ack(w)
    \/ SetApplied(w) \/ SetFails(w) \/ \E k \in Kinds : Retry(w, k)
    \/ Crash(w) \/ Stop(w) \/ Exit(w) \/ Restart(w)

Next ==
    \/ PostStores \/ PostEnqueues \/ PostRefused \/ PostLost
    \/ \E w \in Workers : Worker(w)
    \/ \E r \in Runs : HookRun(r)
    \/ Stall \/ Expire

(***************************************************************************)
(* Processors go on, Redis answers, an orchestrator restarts workers, and  *)
(* BullMQ notices a lock that nobody renews.  That a slow worker loses its *)
(* lock, that a frame is emitted between two others, that anything fails   *)
(* or expires is never required.                                           *)
(***************************************************************************)
Orphaned == holder # NoWorker /\ at[holder] \notin Processing

Fairness ==
    /\ \A w \in Workers :
         /\ WF_vars(Take(w)) /\ WF_vars(Row(w)) /\ WF_vars(Settle(w)) /\ WF_vars(Write(w))
         /\ WF_vars(Notify(w)) /\ WF_vars(Ack(w)) /\ WF_vars(Exit(w)) /\ WF_vars(Restart(w))
         /\ WF_vars(SetApplied(w) \/ SetFails(w))
         /\ \A k \in Kinds : WF_vars(Retry(w, k))
    /\ WF_vars(Orphaned /\ Stall)
    /\ \A r \in Runs : WF_vars(HookRun(r))

Spec == Init /\ [][Next]_vars /\ Fairness

----------------------------------------------------------------------------
(* A frame in the record that says the batch is over, and every frame a    *)
(* webhook carries, has the counts of one run that ended: runs that        *)
(* overlap or repeat never mix theirs.                                     *)
VerdictsTrue ==
    /\ rec # NoRecord /\ rec.progress # NoFrame /\ ~rec.progress.running =>
           rec.progress \in verdicts
    /\ \A r \in Runs : hook[r].state # "none" => hook[r].frame \in verdicts

(* Whoever is told by the webhook that the batch is over, and polls, reads *)
(* the same counts; unless a write to the store failed or the job runs     *)
(* again (worker.ts:236-239, 258-262 accept the former).                   *)
NotifiedIsReadable ==
    \A r \in Runs : hook[r].state # "none" /\ blips = 0 /\ stalls = 0 =>
        \/ rec = NoRecord
        \/ rec.settled /\ rec.progress = hook[r].frame

(* A job BullMQ counts as completed is one whose record says how it ended, *)
(* also when workers were stopped, or when a slow worker lost its lock and *)
(* the job ran twice; unless a write failed, or a worker went down.        *)
AckedIsSettled ==
    job = "completed" /\ blips = 0 /\ (stalls = 0 \/ restarts = 0)
      /\ (\A w \in Workers : at[w] \notin Processing)
    => rec = NoRecord \/ rec.status \in Terminal

(* Who polls an accepted job learns its outcome, unless the record expired *)
(* first, a write failed, the job stalled too often, or a worker that had  *)
(* lost its lock went down after it had written.                           *)
Reported ==
    (post = "queued") ~>
        \/ rec = NoRecord \/ rec.status \in Terminal
        \/ blips > 0 \/ job = "failed" \/ (stalls > 0 /\ restarts > 0)
=============================================================================
