---------------------------- MODULE BatchEngine ----------------------------
(***************************************************************************)
(* The streaming batch engine: p-map pulls rows from the source and runs   *)
(* at most `Workers` row mappers at a time; every mapper is suspended at   *)
(* its awaits while others run.  Mappers share the counters, the           *)
(* single-flight proof configuration and the throttled progress emission.  *)
(*                                                                         *)
(* Time is the throttle window only: `recent` says that less than          *)
(* progressThrottleMs have passed since the last emission.                 *)
(***************************************************************************)
EXTENDS Naturals, FiniteSets

CONSTANTS
    Rows,        \* rows the source yields
    Workers,     \* resolved concurrency
    SourceFails, \* the source may throw
    NoFrame      \* no progress frame

Row == 1..Rows

ASSUME RowsAssumption    == Rows \in Nat
ASSUME WorkersAssumption == Workers \in Nat \ {0}
ASSUME FlagsAssumption   == SourceFails \in BOOLEAN

VARIABLES
    status,    \* per row: rowResult.status, "unread" before the row is pulled
    await,     \* per row: what its mapper is suspended on
    progress,  \* the engine's counters and flags
    config,    \* precomputedProofConfigPromise; "perRow" for formats that have none
    bundles,   \* proof configurations computed
    call,      \* start()
    observed,  \* an onProgress observer is registered
    pending,   \* pendingFrame
    timer,     \* the flush timer; ripe once the window it was set in is over
    recent,    \* within progressThrottleMs of the last emission
    delivered  \* the last frame handed to the observers

emission == <<observed, pending, timer, recent, delivered>>
vars == <<status, await, progress, config, bundles, call, emission>>

RowStatuses == {"unread", "processing", "success", "error", "skipped"}
Awaits      == {"nothing", "config", "signer", "return"}
Calls       == {"idle", "running", "flushing", "resolved", "rejected"}

Frames == [total : 0..Rows, completed : 0..Rows, successCount : 0..Rows,
           errorCount : 0..Rows, skippedCount : 0..Rows,
           running : BOOLEAN, cancelled : BOOLEAN]

ASSUME NoFrameAssumption == NoFrame \notin Frames

TypeOK ==
    /\ status \in [Row -> RowStatuses]
    /\ await \in [Row -> Awaits]
    /\ progress \in Frames
    /\ config \in {"perRow", "none", "computing", "ready", "failed"}
    /\ bundles \in 0..Rows
    /\ call \in Calls
    /\ observed \in BOOLEAN
    /\ pending \in Frames \cup {NoFrame}
    /\ timer \in {"off", "armed", "ripe"}
    /\ recent \in BOOLEAN
    /\ delivered \in Frames \cup {NoFrame}

Init ==
    /\ status = [r \in Row |-> "unread"]
    /\ await = [r \in Row |-> "nothing"]
    /\ progress = [total |-> 0, completed |-> 0, successCount |-> 0,
                   errorCount |-> 0, skippedCount |-> 0,
                   running |-> FALSE, cancelled |-> FALSE]
    /\ config \in {"perRow", "none"}
    /\ bundles = 0
    /\ call = "idle"
    /\ observed \in BOOLEAN
    /\ pending = NoFrame
    /\ timer = "off"
    /\ recent = FALSE
    /\ delivered = NoFrame

InFlight == {r \in Row : await[r] # "nothing"}

----------------------------------------------------------------------------
(* Progress emission *)

\* (fault) a frame that is emitted at once leaves an older one to the timer
ScheduleEmitKeepsOlder(p) ==
    \/ /\ ~observed
       /\ UNCHANGED emission
    \/ /\ observed /\ ~recent
       /\ delivered' = p
       /\ recent' = TRUE
       /\ UNCHANGED <<observed, timer, pending>>
    \/ /\ observed /\ recent
       /\ pending' = p
       /\ timer' = IF timer = "off" THEN "armed" ELSE timer
       /\ UNCHANGED <<observed, recent, delivered>>

\* scheduleProgressEmit, at the end of a turn that left the counters at p.
ScheduleEmit(p) ==
    \/ /\ ~observed
       /\ UNCHANGED emission
    \/ /\ observed /\ ~recent
       /\ delivered' = p
       /\ pending' = NoFrame
       /\ recent' = TRUE
       /\ UNCHANGED <<observed, timer>>
    \/ /\ observed /\ recent
       /\ pending' = p
       /\ timer' = IF timer = "off" THEN "armed" ELSE timer
       /\ UNCHANGED <<observed, recent, delivered>>

WindowPasses ==
    /\ recent
    /\ recent' = FALSE
    /\ timer' = IF timer = "armed" THEN "ripe" ELSE timer
    /\ UNCHANGED <<status, await, progress, config, bundles, call, observed, pending, delivered>>

TimerFires ==
    /\ timer = "ripe"
    /\ timer' = "off"
    /\ pending' = NoFrame
    /\ IF pending = NoFrame THEN UNCHANGED <<delivered, recent>>
       ELSE delivered' = pending /\ recent' = TRUE
    /\ UNCHANGED <<status, await, progress, config, bundles, call, observed>>

----------------------------------------------------------------------------
(* Rows *)

\* (fault) every row that finds the configuration unfinished computes its own
NeedsConfigUntilReady(c) == c # "ready"

\* The first row to find the promise slot empty installs the promise.
NeedsConfig(c) == c = "none"

\* The mapper's cancellation check, made once, before the row is begun.
MayBegin == ~progress.cancelled

\* p-map pulls the next row: an invalid one, or any after cancel(), is skipped
\* on the spot; a valid one is validated against the schema and suspended.
MapRow(r) ==
    /\ call = "running"
    /\ Cardinality(InFlight) < Workers
    /\ r = progress.total + 1
    /\ \/ /\ status' = [status EXCEPT ![r] = "skipped"]
          /\ progress' = [progress EXCEPT !.total = @ + 1, !.skippedCount = @ + 1,
                                          !.completed = @ + 1]
          /\ ScheduleEmit(progress')
          /\ UNCHANGED <<await, config, bundles>>
       \/ /\ MayBegin
          /\ status' = [status EXCEPT ![r] = "processing"]
          /\ progress' = [progress EXCEPT !.total = @ + 1]
          /\ IF config # "perRow"
             THEN /\ await' = [await EXCEPT ![r] = "config"]
                  /\ config' = IF NeedsConfig(config) THEN "computing" ELSE config
                  /\ bundles' = IF NeedsConfig(config) THEN bundles + 1 ELSE bundles
             ELSE /\ await' = [await EXCEPT ![r] = "signer"]
                  /\ UNCHANGED <<config, bundles>>
          /\ UNCHANGED emission
       \/ /\ MayBegin
          /\ status' = [status EXCEPT ![r] = "error"]
          /\ await' = [await EXCEPT ![r] = "return"]
          /\ progress' = [progress EXCEPT !.total = @ + 1, !.errorCount = @ + 1]
          /\ UNCHANGED <<config, bundles, emission>>
    /\ UNCHANGED call

ConfigSettles ==
    /\ config = "computing"
    /\ config' \in {"ready", "failed"}
    /\ UNCHANGED <<status, await, progress, bundles, call, emission>>

\* (fault) a rejected configuration resumes nobody
RowGetsReadyConfig(r) ==
    /\ await[r] = "config"
    /\ config = "ready"
    /\ await' = [await EXCEPT ![r] = "signer"]
    /\ UNCHANGED <<status, progress, config, bundles, call, emission>>

\* The row resumes with the shared configuration, or with its rejection.
RowGetsConfig(r) ==
    /\ await[r] = "config"
    /\ \/ /\ config = "ready"
          /\ await' = [await EXCEPT ![r] = "signer"]
          /\ UNCHANGED <<status, progress>>
       \/ /\ config = "failed"
          /\ await' = [await EXCEPT ![r] = "return"]
          /\ status' = [status EXCEPT ![r] = "error"]
          /\ progress' = [progress EXCEPT !.errorCount = @ + 1]
    /\ UNCHANGED <<config, bundles, call, emission>>

\* The signer answers, or fails.
RowSigned(r) ==
    /\ await[r] = "signer"
    /\ await' = [await EXCEPT ![r] = "return"]
    /\ \/ /\ status' = [status EXCEPT ![r] = "success"]
          /\ progress' = [progress EXCEPT !.successCount = @ + 1]
       \/ /\ status' = [status EXCEPT ![r] = "error"]
          /\ progress' = [progress EXCEPT !.errorCount = @ + 1]
    /\ UNCHANGED <<config, bundles, call, emission>>

\* (fault) an errored row is not counted as completed
RowReturnsOnSuccess(r) ==
    /\ await[r] = "return"
    /\ await' = [await EXCEPT ![r] = "nothing"]
    /\ progress' = IF status[r] = "success"
                   THEN [progress EXCEPT !.completed = @ + 1] ELSE progress
    /\ ScheduleEmit(progress')
    /\ UNCHANGED <<status, config, bundles, call>>

\* runInSpan returns: the row is completed, and a frame is due.
RowReturns(r) ==
    /\ await[r] = "return"
    /\ await' = [await EXCEPT ![r] = "nothing"]
    /\ progress' = [progress EXCEPT !.completed = @ + 1]
    /\ ScheduleEmit(progress')
    /\ UNCHANGED <<status, config, bundles, call>>

----------------------------------------------------------------------------
(* start() and cancel() *)

Start ==
    /\ call = "idle"
    /\ call' = "running"
    /\ progress' = [progress EXCEPT !.running = TRUE, !.cancelled = FALSE]
    /\ UNCHANGED <<status, await, config, bundles, emission>>

\* (fault) start() returns once the source is drained, mappers still running
FinishEarly ==
    /\ call = "running"
    /\ progress.total = Rows
    /\ progress' = [progress EXCEPT !.running = FALSE]
    /\ call' = IF observed THEN "flushing" ELSE "resolved"
    /\ pending' = NoFrame
    /\ delivered' = IF observed THEN progress' ELSE delivered
    /\ UNCHANGED <<status, await, config, bundles, observed, timer, recent>>

\* (fault) the frame that waits for the timer is not dropped
FinishKeepsPending ==
    /\ call = "running"
    /\ progress.total = Rows /\ InFlight = {}
    /\ progress' = [progress EXCEPT !.running = FALSE]
    /\ call' = IF observed THEN "flushing" ELSE "resolved"
    /\ delivered' = IF observed THEN progress' ELSE delivered
    /\ UNCHANGED <<status, await, config, bundles, observed, timer, recent, pending>>

\* The source is exhausted and the last mapper has returned: emit the final
\* frame and wait for the observers.
Finish ==
    /\ call = "running"
    /\ progress.total = Rows /\ InFlight = {}
    /\ progress' = [progress EXCEPT !.running = FALSE]
    /\ call' = IF observed THEN "flushing" ELSE "resolved"
    /\ pending' = NoFrame
    /\ delivered' = IF observed THEN progress' ELSE delivered
    /\ UNCHANGED <<status, await, config, bundles, observed, timer, recent>>

Flushed ==
    /\ call = "flushing"
    /\ call' = "resolved"
    /\ UNCHANGED <<status, await, progress, config, bundles, emission>>

\* The source throws.  p-map rejects with mappers still suspended; their rows
\* are finished all the same.
Fail ==
    /\ SourceFails
    /\ call = "running"
    /\ progress' = [progress EXCEPT !.running = FALSE]
    /\ call' = "rejected"
    /\ delivered' = IF observed THEN progress' ELSE delivered
    /\ UNCHANGED <<status, await, config, bundles, observed, pending, timer, recent>>

\* The callers hold the engine from the turn in which they start it.
Cancel ==
    /\ call # "idle"
    /\ ~progress.cancelled
    /\ progress' = [progress EXCEPT !.cancelled = TRUE]
    /\ UNCHANGED <<status, await, config, bundles, call, emission>>

Next ==
    \/ Start \/ Finish \/ Flushed \/ Fail \/ Cancel
    \/ \E r \in Row : MapRow(r) \/ RowGetsConfig(r) \/ RowSigned(r) \/ RowReturns(r)
    \/ ConfigSettles \/ WindowPasses \/ TimerFires

(***************************************************************************)
(* The event loop runs what is ready; the signer and the observer answer.  *)
(* Nobody has to cancel, and the source does not have to fail.             *)
(***************************************************************************)
Fairness ==
    /\ WF_vars(Start) /\ WF_vars(Finish) /\ WF_vars(Flushed)
    /\ WF_vars(\E r \in Row : MapRow(r))
    /\ \A r \in Row : WF_vars(RowGetsConfig(r) \/ RowSigned(r) \/ RowReturns(r))
    /\ WF_vars(ConfigSettles)

Spec == Init /\ [][Next]_vars /\ Fairness

----------------------------------------------------------------------------
With(s) == {r \in Row : status[r] = s}

(* Whatever order concurrent rows finish in, and wherever they are          *)
(* suspended, the counters are those of the rows: no row is counted twice  *)
(* or forgotten, completed lags the outcomes by the rows about to return.  *)
CountsMatchRows ==
    /\ progress.total = Cardinality({r \in Row : status[r] # "unread"})
    /\ progress.successCount = Cardinality(With("success"))
    /\ progress.errorCount = Cardinality(With("error"))
    /\ progress.skippedCount = Cardinality(With("skipped"))
    /\ progress.completed + Cardinality(InFlight) = progress.total

(* One batch, one proof configuration, hence one `created` timestamp, on   *)
(* however many workers (batch-engine.ts:711).                             *)
OneBundle == bundles <= 1

(* start() resolves only with every row in a final state and counted,      *)
(* wherever the mappers were suspended when the source ran out.            *)
ResolvedIsFinal ==
    call \in {"flushing", "resolved"} =>
        /\ \A r \in Row : status[r] \in {"success", "error", "skipped"}
        /\ progress.completed = Rows

(* From the frame start() ends with no other reaches the observers: one    *)
(* that waited for the flush timer does not come late and tell them that   *)
(* the batch is still running (batch-engine.ts:855-862).                   *)
SilentAfter == [][(call \in {"flushing", "resolved"}) => delivered' = delivered]_vars

(* Frames reach the observers in order: the completed count of the frames  *)
(* never goes back, although some wait for the timer and others do not.    *)
FramesInOrder ==
    [][delivered # NoFrame => delivered'.completed >= delivered.completed]_delivered

(* Every batch that is started comes to its end, cancelled or not.         *)
Ends == (call = "running") ~> (call \in {"resolved", "rejected"})

\* The engine as its drivers see it.  A row counts once its outcome is known.
Contract == INSTANCE EngineContract WITH
    engine <- [state |-> IF call = "flushing" THEN "settled"
                         ELSE IF call = "resolved" THEN "settled" ELSE call,
               done |-> progress.successCount + progress.errorCount + progress.skippedCount,
               ok |-> progress.successCount, bad |-> progress.errorCount,
               cancelled |-> progress.cancelled]

ContractSpec == Contract!Spec
=============================================================================
