-------------------------- MODULE QueueBatchProofs --------------------------
(***************************************************************************)
(* For any number of workers, rows, stalls, crashes and failed commands: a *)
(* record that says the batch is over, and every webhook, carries a frame  *)
(* some run ended with.  And, as long as the failures the code accepts do  *)
(* not happen: who is told by a webhook reads the same counts, a job       *)
(* BullMQ counts as completed has its outcome in the record, and what is   *)
(* polled follows JobLifecycle.  Each run announces its end once.          *)
(***************************************************************************)
EXTENDS QueueBatch, SequenceTheorems, TLAPS

\* A frame that may be on its way: it says the engine runs, or a run ended so.
Told(f, ended) == f = NoFrame \/ f.running \/ f \in ended

Sound(o, ended) == /\ Told(o.frame, ended)
                   /\ o.next # NoRecord => Told(o.next.progress, ended)

OpsSound == \A w \in Workers : \A k \in Kinds : Sound(op[w][k], verdicts)

\* The processor past start() holds the frame start() ended with.
Holding ==
    \A w \in Workers :
        at[w] \in {"flushing", "writing"} => op[w]["awaited"].frame \in verdicts

\* The engine's flag, and its counts: a row is counted once.
Engine ==
    \A w \in Workers :
        /\ at[w] \in {"off", "idle", "running"} => engine[w].running
        /\ engine[w].ok + engine[w].bad <= engine[w].done

Published ==
    /\ rec # NoRecord => Told(rec.progress, verdicts)
    /\ \A r \in Runs : hook[r].state # "none" => hook[r].frame \in verdicts

IInv == TypeOK /\ OpsSound /\ Holding /\ Engine /\ Published

USE RowsAssumption, NoFrameAssumption, NoRecordAssumption, BoundAssumption

-----------------------------------------------------------------------------
LEMMA OpTypes ==
    /\ NoOp \in Ops /\ NoOp.frame = NoFrame /\ NoOp.next = NoRecord
    /\ \A k \in Kinds, f \in Frames \cup {NoFrame} :
         /\ Over(k, f) \in Ops /\ Over(k, f).next = NoRecord
         /\ IF k = "frame" THEN Over(k, f).frame = NoFrame ELSE Over(k, f).frame = f
  <1>1. NoOp \in Ops
    BY DEF NoOp, Ops
  <1>2. ASSUME NEW k \in Kinds, NEW f \in Frames \cup {NoFrame}
        PROVE  /\ Over(k, f) \in Ops /\ Over(k, f).next = NoRecord
               /\ IF k = "frame" THEN Over(k, f).frame = NoFrame ELSE Over(k, f).frame = f
    <2> DEFINE o == [state |-> "resolved", frame |-> f, next |-> NoRecord, tries |-> 0]
    <2>1. k # "frame" => Over(k, f) = o
      BY DEF NoOp, Over
    <2>2. 0 \in 0..(MaxAttempts - 1)
      OBVIOUS
    <2>3. o \in Ops /\ o.next = NoRecord /\ o.frame = f
      BY <2>2 DEF Ops
    <2>4. k = "frame" => Over(k, f) = NoOp
      BY DEF Over
    <2> QED BY <2>1, <2>3, <2>4, <1>1 DEF NoOp
  <1> QED BY <1>1, <1>2 DEF NoOp

LEMMA FrameTypes ==
    ASSUME NEW cur \in Records, NEW f \in Frames \cup {NoFrame}
    PROVE  /\ WithFrame(cur, f) \in Records /\ WithFrame(cur, f).progress = f
           /\ WithResult(cur, f) \in Records /\ WithResult(cur, f).progress = f
           /\ WithFailure(cur) \in Records /\ WithFailure(cur).progress = cur.progress
  <1>1. DeriveStatus(f) \in Statuses
    BY DEF DeriveStatus, Statuses
  <1>2. WithFrame(cur, f) \in Records /\ WithFrame(cur, f).progress = f
    BY <1>1 DEF WithFrame, Records
  <1>3. WithResult(cur, f) \in Records /\ WithResult(cur, f).progress = f
    BY <1>2 DEF WithResult, Records
  <1>4. WithFailure(cur) \in Records /\ WithFailure(cur).progress = cur.progress
    BY DEF WithFailure, Records, Statuses
  <1> QED BY <1>2, <1>3, <1>4

LEMMA SnapshotTypes ==
    ASSUME NEW e \in Engines
    PROVE  Snapshot(e) \in Frames /\ Snapshot(e).running = e.running
  BY DEF Snapshot, Engines, Frames

LEMMA HookTypes ==
    ASSUME NEW state \in {"none", "waiting", "delivered", "dead"}, NEW f \in Frames \cup {NoFrame}
    PROVE  Hook(state, f) \in Hooks /\ Hook(state, f).frame = f
  <1>1. 0 \in 0..(HookAttempts - 1) /\ 0 \in 0..MaxStalls
    OBVIOUS
  <1> QED BY <1>1 DEF Hook, Hooks

\* An update() call of one worker changes, and no other.
LEMMA OpChange ==
    ASSUME op \in [Workers -> [Kinds -> Ops]], NEW w \in Workers, NEW k \in Kinds,
           NEW o \in Ops, op' = [op EXCEPT ![w][k] = o]
    PROVE  /\ op' \in [Workers -> [Kinds -> Ops]]
           /\ op'[w][k] = o
           /\ \A v \in Workers, j \in Kinds : v # w \/ j # k => op'[v][j] = op[v][j]
  OBVIOUS

\* What an update() call does, first or again.
LEMMA TurnEffect ==
    ASSUME TypeOK, NEW w \in Workers, NEW k \in Kinds, NEW f \in Frames \cup {NoFrame},
           NEW tries \in 0..(MaxAttempts - 1), NEW settles \in BOOLEAN,
           Turn(w, k, f, tries, settles), restarts' = restarts
    PROVE  /\ wire' \in [Workers -> Seq(Kinds)]
           /\ blips' \in 0..MaxFaults
           /\ \E o \in Ops : /\ op' = [op EXCEPT ![w][k] = o]
                             /\ o.frame \in {f, NoFrame}
                             /\ k = "awaited" => o.frame = f
                             /\ o.next # NoRecord => o.next.progress = f
  <1>1. CASE op' = [op EXCEPT ![w][k] = Over(k, f)] /\ UNCHANGED wire
             /\ (UNCHANGED blips \/ (FaultLeft /\ blips' = blips + 1))
    <2>1. blips' \in 0..MaxFaults
      BY <1>1 DEF TypeOK, FaultLeft
    <2> QED BY <1>1, <2>1, OpTypes DEF TypeOK, Kinds
  <1>2. CASE rec # NoRecord /\ ~(op' = [op EXCEPT ![w][k] = Over(k, f)] /\ UNCHANGED wire)
    <2> DEFINE o == [state |-> "sent", frame |-> f, tries |-> tries,
                     next |-> IF settles THEN WithResult(rec, f) ELSE WithFrame(rec, f)]
    <2>1. /\ op' = [op EXCEPT ![w][k] = o]
          /\ wire' = [wire EXCEPT ![w] = Append(@, k)] /\ UNCHANGED blips
      BY <1>2 DEF Turn
    <2>2. o.next \in Records /\ o.next.progress = f
      BY <1>2, FrameTypes DEF TypeOK
    <2>3. o \in Ops /\ o.frame = f
      BY <2>2 DEF Ops
    <2>4. wire' \in [Workers -> Seq(Kinds)]
      BY <2>1 DEF TypeOK
    <2>5. blips' \in 0..MaxFaults
      BY <2>1 DEF TypeOK
    <2> QED BY <2>1, <2>2, <2>3, <2>4, <2>5
  <1> QED BY <1>1, <1>2 DEF Turn

\* What was told stays told when more runs end.
LEMMA ToldStays ==
    ASSUME NEW f, NEW ended, NEW more, ended \subseteq more, Told(f, ended)
    PROVE  Told(f, more)
  BY DEF Told

\* A step of a worker that leaves everything alone but one update() call.
LEMMA OneOpKeeps ==
    ASSUME IInv, NEW w \in Workers, NEW k \in Kinds, NEW o \in Ops,
           op' = [op EXCEPT ![w][k] = o], verdicts \subseteq verdicts',
           Sound(o, verdicts')
    PROVE  op' \in [Workers -> [Kinds -> Ops]] /\ OpsSound'
  <1>1. op' \in [Workers -> [Kinds -> Ops]]
    BY OpChange DEF IInv, TypeOK
  <1>2. ASSUME NEW v \in Workers, NEW j \in Kinds
        PROVE  Sound(op'[v][j], verdicts')
    <2>1. CASE v = w /\ j = k
      BY <2>1, OpChange DEF IInv, TypeOK
    <2>2. CASE v # w \/ j # k
      BY <2>2, OpChange, ToldStays DEF IInv, TypeOK, OpsSound, Sound
    <2> QED BY <2>1, <2>2
  <1> QED BY <1>1, <1>2 DEF OpsSound

-----------------------------------------------------------------------------
LEMMA InitInvariant == Init => IInv
  <1> SUFFICES ASSUME Init PROVE IInv
    OBVIOUS
  <1>1. Fresh \in Engines /\ Fresh.running /\ Fresh.ok + Fresh.bad <= Fresh.done
    BY DEF Fresh, Engines
  <1>2. NoHook \in Hooks /\ NoHook.state = "none"
    BY HookTypes DEF NoHook, Hook
  <1>3. wire \in [Workers -> Seq(Kinds)]
    BY DEF Init
  <1>4. TypeOK
    BY <1>1, <1>2, <1>3, OpTypes DEF Init, TypeOK, Places, Statuses
  <1>5. OpsSound
    BY OpTypes DEF Init, OpsSound, Sound, Told
  <1>6. Holding /\ Engine /\ Published
    BY <1>1, <1>2 DEF Init, Holding, Engine, Published
  <1> QED BY <1>4, <1>5, <1>6 DEF IInv

\* The POST handler.
LEMMA PostKeeps ==
    ASSUME IInv, PostStores \/ PostEnqueues \/ PostRefused \/ PostLost
    PROVE  IInv'
  <1>1. UNCHANGED <<holder, stalls, at, stopping, run, engine, op, wire, hook, restarts, verdicts>>
    BY DEF PostStores, PostEnqueues, PostRefused, PostLost, queue
  <1>2. rec' \in Records \cup {NoRecord} /\ (rec' # NoRecord => Told(rec'.progress, verdicts))
    <2>1. CASE rec' = InitialRecord
      BY <2>1 DEF InitialRecord, Records, Statuses, Told
    <2>2. CASE rec # NoRecord /\ rec' = WithFailure(rec)
      BY <2>2, FrameTypes DEF IInv, TypeOK, Published
    <2>3. CASE rec' = rec
      BY <2>3 DEF IInv, TypeOK, Published
    <2> QED BY <2>1, <2>2, <2>3 DEF PostStores, PostEnqueues, PostRefused, PostLost
  <1>3. /\ post' \in {"none", "stored", "queued", "refused", "lost"}
        /\ job' \in {"none", "waiting", "active", "completed", "failed"}
        /\ blips' \in 0..MaxFaults
    BY DEF PostStores, PostEnqueues, PostRefused, PostLost, queue, IInv, TypeOK, FaultLeft
  <1> QED BY <1>1, <1>2, <1>3 DEF IInv, TypeOK, OpsSound, Holding, Engine, Published

\* The record takes what a SET carries.
LEMMA WrittenKeeps ==
    ASSUME IInv, NEW w \in Workers, NEW k \in Kinds, rec' \in {rec, op[w][k].next},
           UNCHANGED <<hook, verdicts>>
    PROVE  rec' \in Records \cup {NoRecord} /\ Published'
  BY DEF IInv, TypeOK, OpsSound, Sound, Published, Ops

\* A SET that is executed, or fails.
LEMMA SetKeeps ==
    ASSUME IInv, NEW w \in Workers, SetApplied(w) \/ SetFails(w)
    PROVE  IInv'
  <1> DEFINE k == Head(wire[w])
  <1>1. /\ k \in Kinds /\ rec' \in {rec, op[w][k].next}
        /\ wire' \in [Workers -> Seq(Kinds)]
        /\ blips' \in 0..MaxFaults
        /\ UNCHANGED <<post, queue, at, stopping, run, engine, hook, restarts, verdicts>>
    <2>1. wire \in [Workers -> Seq(Kinds)] /\ wire[w] # <<>>
      BY DEF SetApplied, SetFails, IInv, TypeOK
    <2>2. k \in Kinds /\ Tail(wire[w]) \in Seq(Kinds) /\ wire' = [wire EXCEPT ![w] = Tail(@)]
      BY <2>1 DEF SetApplied, SetFails
    <2>3. wire' \in [Workers -> Seq(Kinds)]
      BY <2>1, <2>2
    <2>4. blips' \in 0..MaxFaults
      BY DEF SetApplied, SetFails, IInv, TypeOK, FaultLeft
    <2>5. rec' \in {rec, op[w][k].next}
      BY DEF SetApplied, SetFails
    <2>6. UNCHANGED <<post, queue, at, stopping, run, engine, hook, restarts, verdicts>>
      BY DEF SetApplied, SetFails
    <2> QED BY <2>2, <2>3, <2>4, <2>5, <2>6
  <1>2. op[w][k] \in Ops /\ Sound(op[w][k], verdicts)
    BY <1>1 DEF IInv, TypeOK, OpsSound
  <1>3. PICK o \in Ops : /\ op' = [op EXCEPT ![w][k] = o]
                         /\ o.next = NoRecord
                         /\ o.frame \in {op[w][k].frame, NoFrame}
                         /\ k = "awaited" => o.frame = op[w][k].frame
    <2>1. op[w][k].frame \in Frames \cup {NoFrame} /\ op[w][k].tries \in 0..(MaxAttempts - 1)
      BY <1>2 DEF Ops
    <2>2. CASE op' = [op EXCEPT ![w][k] = Over(k, op[w][k].frame)]
      BY <1>1, <2>1, <2>2, OpTypes DEF Kinds
    <2> DEFINE again == [state |-> "backoff", frame |-> op[w][k].frame, next |-> NoRecord,
                         tries |-> op[w][k].tries + 1]
    <2>3. op[w][k].tries + 1 # MaxAttempts => again \in Ops
      <3>1. op[w][k].tries + 1 # MaxAttempts => op[w][k].tries + 1 \in 0..(MaxAttempts - 1)
        BY <2>1
      <3> QED BY <2>1, <3>1 DEF Ops
    <2>4. CASE SetApplied(w)
      BY <2>2, <2>4, <1>1 DEF SetApplied, IInv, TypeOK
    <2>5. CASE SetFails(w)
      <3>1. CASE op[w][k].tries + 1 = MaxAttempts
        BY <2>2, <2>5, <3>1, <1>1 DEF SetFails, IInv, TypeOK
      <3>2. CASE op[w][k].tries + 1 # MaxAttempts
        <4>1. op' = [op EXCEPT ![w][k] = again]
          BY <2>5, <3>2, <1>1 DEF SetFails, IInv, TypeOK
        <4> QED BY <2>3, <3>2, <4>1
      <3> QED BY <3>1, <3>2
    <2> QED BY <2>4, <2>5
  <1>4. op' \in [Workers -> [Kinds -> Ops]] /\ OpsSound'
    <2>1. Sound(o, verdicts')
      BY <1>1, <1>2, <1>3 DEF Sound, Told
    <2> QED BY <1>1, <1>3, <2>1, OneOpKeeps
  <1>5. Holding'
    BY <1>1, <1>3, OpChange DEF IInv, TypeOK, Holding, Kinds
  <1>6. rec' \in Records \cup {NoRecord} /\ Published'
    BY <1>1, WrittenKeeps
  <1> QED BY <1>1, <1>4, <1>5, <1>6 DEF IInv, TypeOK, Engine, queue

\* A processor that calls update(), first or again: at stays, or moves on with
\* a frame a run ended with.
LEMMA TurnKeeps ==
    ASSUME IInv, NEW w \in Workers, NEW k \in Kinds, NEW f \in Frames \cup {NoFrame},
           NEW tries \in 0..(MaxAttempts - 1), NEW settles \in BOOLEAN,
           Turn(w, k, f, tries, settles),
           UNCHANGED <<rec, post, queue, stopping, run, hook, restarts>>,
           engine' \in [Workers -> Engines], Engine',
           verdicts \subseteq verdicts', verdicts' \subseteq Frames,
           Told(f, verdicts'),
           at' \in [Workers -> Places],
           \A v \in Workers : at'[v] \in {"flushing", "writing"} =>
              \/ v = w /\ k = "awaited" /\ f \in verdicts'
              \/ at[v] \in {"flushing", "writing"} /\ (v # w \/ k # "awaited")
    PROVE  IInv'
  <1>1. wire' \in [Workers -> Seq(Kinds)] /\ blips' \in 0..MaxFaults
    BY TurnEffect DEF IInv
  <1>2. PICK o \in Ops : /\ op' = [op EXCEPT ![w][k] = o]
                         /\ o.frame \in {f, NoFrame}
                         /\ k = "awaited" => o.frame = f
                         /\ o.next # NoRecord => o.next.progress = f
    BY TurnEffect DEF IInv
  <1>3. op' \in [Workers -> [Kinds -> Ops]] /\ OpsSound'
    <2>1. Sound(o, verdicts')
      BY <1>2 DEF Sound, Told
    <2> QED BY <1>2, <2>1, OneOpKeeps
  <1>4. Holding'
    BY <1>2, OpChange DEF IInv, TypeOK, Holding, Kinds
  <1>5. Published'
    BY ToldStays DEF IInv, Published
  <1> QED BY <1>1, <1>3, <1>4, <1>5 DEF IInv, TypeOK, queue

LEMMA RetryKeeps ==
    ASSUME IInv, NEW w \in Workers, NEW k \in Kinds, Retry(w, k)
    PROVE  IInv'
  <1> DEFINE f == op[w][k].frame
  <1>1. op[w][k] \in Ops /\ Told(f, verdicts)
    BY DEF IInv, TypeOK, OpsSound, Sound
  <1>2. f \in Frames \cup {NoFrame} /\ op[w][k].tries \in 0..(MaxAttempts - 1)
    BY <1>1 DEF Ops
  <1>3. /\ Turn(w, k, f, op[w][k].tries, k = "awaited" /\ at[w] = "writing")
        /\ (k = "awaited" /\ at[w] = "writing") \in BOOLEAN
        /\ UNCHANGED <<rec, post, queue, at, stopping, run, engine, hook, restarts, verdicts>>
    BY DEF Retry
  <1>4. Engine' /\ engine' \in [Workers -> Engines] /\ verdicts' \subseteq Frames /\ at' \in [Workers -> Places]
    BY <1>3 DEF IInv, Engine, TypeOK
  <1>5. \A v \in Workers : at'[v] \in {"flushing", "writing"} =>
           \/ v = w /\ k = "awaited" /\ f \in verdicts'
           \/ at[v] \in {"flushing", "writing"} /\ (v # w \/ k # "awaited")
    BY <1>3 DEF IInv, Holding
  <1> QED BY <1>1, <1>2, <1>3, <1>4, <1>5, TurnKeeps

LEMMA EmitKeeps ==
    ASSUME IInv, NEW w \in Workers, Emit(w)
    PROVE  IInv'
  <1> DEFINE f == Snapshot(engine[w])
  <1>1. f \in Frames /\ f.running
    BY ZenonT(60), SnapshotTypes DEF IInv, TypeOK, Engine, Emit
  <1>2. /\ Turn(w, "frame", f, 0, FALSE) /\ 0 \in 0..(MaxAttempts - 1) /\ "frame" \in Kinds
        /\ UNCHANGED <<rec, post, queue, at, stopping, run, engine, hook, restarts, verdicts>>
    <2>1. Turn(w, "frame", f, 0, FALSE)
      BY DEF Emit
    <2>2. 0 \in 0..(MaxAttempts - 1) /\ "frame" \in Kinds
      BY DEF Kinds
    <2>3. UNCHANGED <<rec, post, queue, at, stopping, run, engine, hook, restarts, verdicts>>
      BY DEF Emit
    <2> QED BY <2>1, <2>2, <2>3
  <1>3. Told(f, verdicts')
    BY <1>1 DEF Told
  <1>4. Engine' /\ engine' \in [Workers -> Engines] /\ verdicts' \subseteq Frames /\ at' \in [Workers -> Places]
    BY <1>2 DEF IInv, Engine, TypeOK
  <1> HIDE DEF f
  <1> QED BY <1>1, <1>2, <1>3, <1>4, TurnKeeps

LEMMA SettleKeeps ==
    ASSUME IInv, NEW w \in Workers, Settle(w)
    PROVE  IInv'
  <1>1. engine' \in [Workers -> Engines] /\ Engine'
    <2>1. engine' = [engine EXCEPT ![w].running = FALSE] /\ at' = [at EXCEPT ![w] = "flushing"]
      BY DEF Settle
    <2>2. engine' \in [Workers -> Engines]
      BY <2>1 DEF IInv, TypeOK, Engines
    <2> QED BY <2>1, <2>2 DEF IInv, TypeOK, Engine, Engines
  <1>2. PICK f \in Frames : f = Snapshot(engine'[w])
    BY <1>1, SnapshotTypes
  <1>3. /\ Turn(w, "awaited", f, 0, FALSE) /\ 0 \in 0..(MaxAttempts - 1) /\ "awaited" \in Kinds
        /\ UNCHANGED <<rec, post, queue, stopping, run, hook, restarts>>
        /\ verdicts' = verdicts \cup {f}
        /\ at' = [at EXCEPT ![w] = "flushing"]
    <2>1. Turn(w, "awaited", f, 0, FALSE)
      BY <1>2 DEF Settle
    <2>2. 0 \in 0..(MaxAttempts - 1) /\ "awaited" \in Kinds
      BY DEF Kinds
    <2>3. /\ UNCHANGED <<rec, post, queue, stopping, run, hook, restarts>>
          /\ verdicts' = verdicts \cup {f}
          /\ at' = [at EXCEPT ![w] = "flushing"]
      BY <1>2 DEF Settle
    <2> QED BY <2>1, <2>2, <2>3
  <1>4. Told(f, verdicts') /\ f \in verdicts'
    BY <1>3 DEF Told
  <1>5. verdicts' \subseteq Frames /\ at' \in [Workers -> Places]
    BY <1>2, <1>3 DEF IInv, TypeOK, Places
  <1>6. \A v \in Workers : at'[v] \in {"flushing", "writing"} =>
           \/ v = w /\ "awaited" = "awaited" /\ f \in verdicts'
           \/ at[v] \in {"flushing", "writing"} /\ (v # w \/ "awaited" # "awaited")
    BY <1>3, <1>4 DEF IInv, TypeOK
  <1> QED BY <1>1, <1>2, <1>3, <1>4, <1>5, <1>6, TurnKeeps

LEMMA WriteKeeps ==
    ASSUME IInv, NEW w \in Workers, Write(w)
    PROVE  IInv'
  <1> DEFINE f == op[w]["awaited"].frame
  <1>1. f \in verdicts /\ verdicts \subseteq Frames
    BY DEF IInv, Holding, TypeOK, Write
  <1>2. /\ Turn(w, "awaited", f, 0, TRUE) /\ 0 \in 0..(MaxAttempts - 1) /\ "awaited" \in Kinds
        /\ UNCHANGED <<rec, post, queue, stopping, run, engine, hook, restarts, verdicts>>
        /\ at' = [at EXCEPT ![w] = "writing"]
    <2>1. Turn(w, "awaited", f, 0, TRUE)
      BY DEF Write
    <2>2. 0 \in 0..(MaxAttempts - 1) /\ "awaited" \in Kinds
      BY DEF Kinds
    <2>3. /\ UNCHANGED <<rec, post, queue, stopping, run, engine, hook, restarts, verdicts>>
          /\ at' = [at EXCEPT ![w] = "writing"]
      BY DEF Write
    <2> QED BY <2>1, <2>2, <2>3
  <1>3. Told(f, verdicts')
    BY <1>1, <1>2 DEF Told
  <1>4. Engine' /\ engine' \in [Workers -> Engines] /\ at' \in [Workers -> Places]
    BY <1>2 DEF IInv, Engine, TypeOK, Places
  <1>5. \A v \in Workers : at'[v] \in {"flushing", "writing"} =>
           \/ v = w /\ "awaited" = "awaited" /\ f \in verdicts'
           \/ at[v] \in {"flushing", "writing"} /\ (v # w \/ "awaited" # "awaited")
    BY <1>1, <1>2 DEF IInv, TypeOK
  <1> HIDE DEF f
  <1> QED BY <1>1, <1>2, <1>3, <1>4, <1>5, TurnKeeps

LEMMA RowKeeps ==
    ASSUME IInv, NEW w \in Workers, Row(w)
    PROVE  IInv'
  <1> DEFINE e == engine[w]
             counted(o) == [done |-> e.done + 1, running |-> e.running,
                            ok  |-> IF o = "signed" THEN e.ok + 1 ELSE e.ok,
                            bad |-> IF o = "error" THEN e.bad + 1 ELSE e.bad]
  <1>1. PICK o \in Outcomes : engine' = [engine EXCEPT ![w] = counted(o)]
    BY DEF Row, IInv, TypeOK
  <1> DEFINE next == counted(o)
  <1>2. e \in Engines /\ e.done < Rows /\ e.ok + e.bad <= e.done
    BY DEF Row, IInv, TypeOK, Engine
  <1>3. next \in Engines /\ next.ok + next.bad <= next.done /\ next.running = e.running
    <2>1. e.done \in 0..Rows /\ e.ok \in 0..Rows /\ e.bad \in 0..Rows /\ e.running \in BOOLEAN
      BY <1>2 DEF Engines
    <2>2. next.done \in 0..Rows /\ next.ok \in 0..Rows /\ next.bad \in 0..Rows
      BY <1>2, <2>1
    <2>3. next.ok + next.bad <= next.done
      BY <1>2, <2>1
    <2> QED BY <2>1, <2>2, <2>3 DEF Engines
  <1>4. engine' \in [Workers -> Engines] /\ engine'[w] = next
        /\ \A v \in Workers \ {w} : engine'[v] = engine[v]
    BY <1>1, <1>3 DEF IInv, TypeOK
  <1> HIDE DEF e, next
  <1>5. UNCHANGED <<rec, post, queue, at, stopping, run, op, wire, hook, blips, restarts, verdicts>>
    BY DEF Row
  <1>6. Engine'
    BY <1>3, <1>4, <1>5 DEF IInv, Engine, e
  <1> QED BY <1>4, <1>5, <1>6 DEF IInv, TypeOK, OpsSound, Holding, Published, queue

LEMMA TakeNotifyAckKeeps ==
    ASSUME IInv, NEW w \in Workers, Take(w) \/ Notify(w) \/ Ack(w)
    PROVE  IInv'
  <1>1. CASE Take(w)
    <2>1. stalls + 1 \in 0..(MaxStalls + 1)
      BY DEF IInv, TypeOK
    <2> QED BY <1>1, <2>1 DEF Take, IInv, TypeOK, Places, OpsSound, Holding, Engine, Published
  <1>2. CASE Notify(w)
    <2> DEFINE f == op[w]["awaited"].frame
    <2>1. f \in verdicts /\ f \in Frames
      BY <1>2 DEF Notify, IInv, TypeOK, Holding
    <2>2. /\ op' = [op EXCEPT ![w]["awaited"] = NoOp]
          /\ at' = [at EXCEPT ![w] = "acking"]
          /\ UNCHANGED <<rec, post, queue, stopping, run, engine, wire, restarts, verdicts>>
      BY <1>2 DEF Notify
    <2>3. hook' \in [Runs -> Hooks] /\ (\A r \in Runs : hook'[r].state # "none" => hook'[r].frame \in verdicts)
          /\ blips' \in 0..MaxFaults
      <3> DEFINE h == Hook("waiting", f)
      <3>1. h \in Hooks /\ h.frame = f
        BY <2>1, HookTypes
      <3>2. run[w] \in 0..(MaxStalls + 1)
        BY DEF IInv, TypeOK
      <3> HIDE DEF h
      <3>3. CASE hook' = [hook EXCEPT ![run[w]] = h] /\ UNCHANGED blips
        BY <2>1, <3>1, <3>3 DEF IInv, TypeOK, Published
      <3>4. CASE UNCHANGED hook /\ FaultLeft /\ blips' = blips + 1
        BY <3>4 DEF IInv, TypeOK, Published, FaultLeft
      <3> QED BY <1>2, <3>3, <3>4 DEF Notify, h
    <2>4. op' \in [Workers -> [Kinds -> Ops]] /\ OpsSound'
      <3>1. Sound(NoOp, verdicts') /\ NoOp \in Ops /\ "awaited" \in Kinds
        BY OpTypes DEF Sound, Told, Kinds
      <3> QED BY <2>2, <3>1, OneOpKeeps
    <2>5. Holding'
      BY <2>2, OpChange, OpTypes DEF IInv, TypeOK, Holding, Kinds
    <2>6. Engine' /\ at' \in [Workers -> Places]
      BY <2>2 DEF IInv, TypeOK, Engine, Places
    <2> QED BY <2>2, <2>3, <2>4, <2>5, <2>6 DEF IInv, TypeOK, Published, queue
  <1>3. CASE Ack(w)
    <2>1. Fresh \in Engines /\ Fresh.running /\ Fresh.ok + Fresh.bad <= Fresh.done
      BY DEF Fresh, Engines
    <2>2. /\ job' \in {"none", "waiting", "active", "completed", "failed"}
          /\ holder' \in Workers \cup {NoWorker}
          /\ at' = [at EXCEPT ![w] = "idle"] /\ engine' = [engine EXCEPT ![w] = Fresh]
          /\ run' \in [Workers -> 0..(MaxStalls + 1)]
          /\ UNCHANGED <<rec, post, stalls, stopping, op, wire, hook, blips, restarts, verdicts>>
      BY <1>3 DEF Ack, IInv, TypeOK
    <2>3. Engine'
      BY <2>1, <2>2 DEF IInv, TypeOK, Engine
    <2> QED BY <2>1, <2>2, <2>3 DEF IInv, TypeOK, Places, OpsSound, Holding, Published
  <1> QED BY <1>1, <1>2, <1>3

\* A worker process that goes down.
LEMMA KilledKeeps ==
    ASSUME IInv, NEW w \in Workers, Killed(w),
           wire' \in [Workers -> Seq(Kinds)], restarts' \in 0..MaxFaults
    PROVE  IInv'
  <1>1. Fresh \in Engines /\ Fresh.running /\ Fresh.ok + Fresh.bad <= Fresh.done
    BY DEF Fresh, Engines
  <1>2. /\ at' = [at EXCEPT ![w] = "off"] /\ engine' = [engine EXCEPT ![w] = Fresh]
        /\ op' = [op EXCEPT ![w] = [k \in Kinds |-> NoOp]]
        /\ UNCHANGED <<rec, post, queue, hook, blips, verdicts>>
        /\ stopping' \subseteq Workers /\ run' \in [Workers -> 0..(MaxStalls + 1)]
    BY DEF Killed, IInv, TypeOK
  <1>3. op' \in [Workers -> [Kinds -> Ops]] /\ OpsSound'
    <2>1. Sound(NoOp, verdicts')
      BY OpTypes DEF Sound, Told
    <2> QED BY <1>2, <2>1, OpTypes DEF IInv, TypeOK, OpsSound
  <1>4. Holding'
    BY <1>2 DEF IInv, TypeOK, Holding
  <1>5. Engine' /\ engine' \in [Workers -> Engines] /\ at' \in [Workers -> Places]
    BY <1>1, <1>2 DEF IInv, TypeOK, Engine, Places
  <1> QED BY <1>2, <1>3, <1>4, <1>5 DEF IInv, TypeOK, Published, queue

LEMMA LifeKeeps ==
    ASSUME IInv, NEW w \in Workers, Crash(w) \/ Stop(w) \/ Exit(w) \/ Restart(w)
    PROVE  IInv'
  <1>1. CASE Crash(w)
    <2>1. wire' \in [Workers -> Seq(Kinds)] /\ restarts' \in 0..MaxFaults
      BY <1>1 DEF Crash, IInv, TypeOK, FaultLeft
    <2> QED BY <1>1, <2>1, KilledKeeps DEF Crash
  <1>2. CASE Exit(w)
    <2>1. wire' \in [Workers -> Seq(Kinds)] /\ restarts' \in 0..MaxFaults
      BY <1>2 DEF Exit, IInv, TypeOK
    <2> QED BY <1>2, <2>1, KilledKeeps DEF Exit
  <1>3. CASE Stop(w)
    BY SMTT(60), <1>3 DEF Stop, FaultLeft, IInv, TypeOK, OpsSound, Holding, Engine, Published, queue
  <1>4. CASE Restart(w)
    BY <1>4 DEF Restart, IInv, TypeOK, Places, OpsSound, Holding, Engine, Published, queue
  <1> QED BY <1>1, <1>2, <1>3, <1>4

LEMMA HookKeeps ==
    ASSUME IInv, NEW r \in Runs, HookRun(r)
    PROVE  IInv'
  <1> DEFINE h == hook[r]
  <1>1. h \in Hooks /\ h.state = "waiting" /\ h.frame \in verdicts
    BY DEF HookRun, IInv, TypeOK, Published
  <1>2. h.frame \in Frames \cup {NoFrame} /\ h.attempt \in 0..(HookAttempts - 1) /\ h.stalls \in 0..MaxStalls
    BY <1>1 DEF Hooks
  <1>3. PICK next \in Hooks : hook' = [hook EXCEPT ![r] = next] /\ next.frame = h.frame
    <2>1. \A state \in {"delivered", "dead"} :
             Hook(state, h.frame) \in Hooks /\ Hook(state, h.frame).frame = h.frame
      BY <1>2, HookTypes
    <2>2. CASE \E state \in {"delivered", "dead"} : hook' = [hook EXCEPT ![r] = Hook(state, h.frame)]
      BY <2>1, <2>2
    <2>3. CASE h.attempt + 1 < HookAttempts /\ hook' = [hook EXCEPT ![r].attempt = @ + 1]
      <3>1. hook' = [hook EXCEPT ![r] = [h EXCEPT !.attempt = h.attempt + 1]]
        BY <2>3 DEF IInv, TypeOK
      <3>2. [h EXCEPT !.attempt = h.attempt + 1] \in Hooks
        BY <1>1, <1>2, <2>3 DEF Hooks
      <3>3. [h EXCEPT !.attempt = h.attempt + 1].frame = h.frame
        BY <1>1 DEF Hooks
      <3> QED BY <3>1, <3>2, <3>3
    <2>4. CASE h.stalls < MaxStalls /\ hook' = [hook EXCEPT ![r].stalls = @ + 1]
      <3>1. hook' = [hook EXCEPT ![r] = [h EXCEPT !.stalls = h.stalls + 1]]
        BY <2>4 DEF IInv, TypeOK
      <3>2. [h EXCEPT !.stalls = h.stalls + 1] \in Hooks
        BY <1>1, <1>2, <2>4 DEF Hooks
      <3>3. [h EXCEPT !.stalls = h.stalls + 1].frame = h.frame
        BY <1>1 DEF Hooks
      <3> QED BY <3>1, <3>2, <3>3
    <2>5. CASE \E state \in {"delivered", "dead"} : hook' = [hook EXCEPT ![r] = Hook(state, @.frame)]
      BY <2>2, <2>5 DEF IInv, TypeOK
    <2> QED BY <2>3, <2>4, <2>5 DEF HookRun
  <1>4. UNCHANGED <<rec, post, queue, at, stopping, run, engine, op, wire, blips, restarts, verdicts>>
    BY DEF HookRun
  <1>5. hook' \in [Runs -> Hooks] /\ Published'
    BY <1>1, <1>3, <1>4 DEF IInv, TypeOK, Published
  <1> QED BY <1>4, <1>5 DEF IInv, TypeOK, OpsSound, Holding, Engine, queue

LEMMA QueueKeeps ==
    ASSUME IInv, Stall \/ Expire
    PROVE  IInv'
  <1>1. CASE Stall
    BY <1>1 DEF Stall, IInv, TypeOK, OpsSound, Holding, Engine, Published
  <1>2. CASE Expire
    BY <1>2 DEF Expire, IInv, TypeOK, OpsSound, Holding, Engine, Published, queue
  <1> QED BY <1>1, <1>2

LEMMA NextInvariant == IInv /\ [Next]_vars => IInv'
  <1> SUFFICES ASSUME IInv, [Next]_vars PROVE IInv'
    OBVIOUS
  <1>1. CASE UNCHANGED vars
    BY <1>1 DEF vars, queue, IInv, TypeOK, OpsSound, Holding, Engine, Published
  <1>2. CASE PostStores \/ PostEnqueues \/ PostRefused \/ PostLost
    BY <1>2, PostKeeps
  <1>3. ASSUME NEW w \in Workers, Worker(w)
        PROVE  IInv'
    BY <1>3, TakeNotifyAckKeeps, RowKeeps, EmitKeeps, SettleKeeps, WriteKeeps, SetKeeps,
       RetryKeeps, LifeKeeps DEF Worker
  <1> QED BY <1>1, <1>2, <1>3, HookKeeps, QueueKeeps DEF Next

-----------------------------------------------------------------------------
\* Type correctness.
THEOREM QueueBatchTypeCorrect == Spec => []TypeOK
  <1>1. IInv => TypeOK
    BY DEF IInv
  <1> QED BY <1>1, InitInvariant, NextInvariant, PTL DEF Spec

\* A final frame in the record, and every frame a webhook carries, is one some
\* run of the job ended with (worker.ts: onProgress, the final write and the
\* webhook job, in whatever order overlapping runs get to them).
THEOREM VerdictsHold == Spec => []VerdictsTrue
  <1>1. IInv => VerdictsTrue
    BY DEF IInv, Published, VerdictsTrue, Told
  <1> QED BY <1>1, InitInvariant, NextInvariant, PTL DEF Spec

-----------------------------------------------------------------------------
(* Without a failed command *)

Sent(w, k) == op[w][k].state = "sent"

\* A connection with a progress frame on it, or an awaited call, or both.
Line(frame, awaited) ==
    LET frames == IF frame THEN <<"frame">> ELSE <<>>
    IN  IF awaited THEN Append(frames, "awaited") ELSE frames

\* The calls of one processor: a progress frame is sent while rows are signed
\* and lands before the frame start() ends with; the processor is past start()
\* exactly as long as it has an awaited call, and what that call writes ends
\* the record.  A record that calls are on their way to does not go away.
Calls(w) ==
    /\ wire[w] = Line(Sent(w, "frame"), Sent(w, "awaited"))
    /\ op[w]["frame"].state \in {"idle", "sent"}
    /\ op[w]["awaited"].state \in {"idle", "sent", "resolved"}
    /\ Sent(w, "frame") => at[w] = "running" \/ (at[w] = "flushing" /\ Sent(w, "awaited"))
    /\ op[w]["awaited"].state # "idle" <=> at[w] \in {"flushing", "writing"}
    /\ \A k \in Kinds : Sent(w, k) => op[w][k].next \in Records /\ rec # NoRecord
    /\ Sent(w, "awaited") =>
         /\ op[w]["awaited"].next.status \in Terminal
         /\ op[w]["awaited"].next.progress = op[w]["awaited"].frame
         /\ at[w] = "writing" => op[w]["awaited"].next.settled

Orderly == blips = 0 => \A w \in Workers : Calls(w)

\* The frame a run ended with says so.
Final == \A f \in verdicts : ~f.running

\* Nothing runs before the job is queued, and only a job that runs is locked.
Started ==
    /\ post \in {"none", "stored"} => job = "none"
    /\ job = "none" => \A w \in Workers : at[w] \notin Processing
    /\ holder # NoWorker => job = "active"

\* A poll finds the batch over.
Concluded == rec = NoRecord \/ rec.status \in Terminal

\* If no worker went down either: once the job has been taken, the record says
\* the batch is over, or some run will still write that it is.
WillReport(w) == at[w] = "running" \/ Sent(w, "awaited")

Due ==
    blips = 0 /\ restarts = 0 /\ job \in {"active", "completed", "failed"} =>
        Concluded \/ \E w \in Workers : WillReport(w)

\* The record shows what a webhook with this frame says.
Readable(f) == rec = NoRecord \/ (rec.settled /\ rec.progress = f /\ rec.status \in Terminal)

NoHooks == \A r \in Runs : hook[r].state = "none"

\* If the job was not run again either, one worker alone is or was at it: the
\* record it wrote stays as it is, from its final write to the webhook.
OneAtWork == \A v, w \in Workers : at[v] \in Processing /\ at[w] \in Processing => v = w

NobodyAtWork == \A w \in Workers : at[w] \notin Processing

Telling(w) ==
    /\ at[w] \in {"running", "flushing", "writing"} => NoHooks
    /\ at[w] = "writing" /\ op[w]["awaited"].state = "resolved" =>
           Readable(op[w]["awaited"].frame)
    /\ at[w] = "acking" => Concluded

Lone ==
    /\ OneAtWork
    /\ job \in {"none", "waiting"} => NoHooks
    /\ job \in {"none", "waiting", "completed"} => NobodyAtWork
    /\ \A w \in Workers : Telling(w)
    /\ \A r \in Runs : hook[r].state # "none" => Readable(hook[r].frame)
    /\ job = "completed" => Concluded

Alone == blips = 0 /\ stalls = 0 => Lone

\* The queue of a connection: what is first, and what is left or added.
LEMMA LineFacts ==
    /\ Line(FALSE, FALSE) = <<>>
    /\ \A b \in BOOLEAN : /\ Line(TRUE, b) # <<>> /\ Head(Line(TRUE, b)) = "frame"
                          /\ Tail(Line(TRUE, b)) = Line(FALSE, b)
    /\ Line(FALSE, TRUE) # <<>> /\ Head(Line(FALSE, TRUE)) = "awaited"
    /\ Tail(Line(FALSE, TRUE)) = <<>>
    /\ Append(Line(FALSE, FALSE), "frame") = Line(TRUE, FALSE)
    /\ \A b \in BOOLEAN : Append(Line(b, FALSE), "awaited") = Line(b, TRUE)
  <1>1. \A k \in Kinds : <<k>> # <<>> /\ Head(<<k>>) = k /\ Tail(<<k>>) = <<>> /\ Append(<<>>, k) = <<k>>
    OBVIOUS
  <1> DEFINE both == Append(<<"frame">>, "awaited")
  <1>2. both # <<>> /\ Head(both) = "frame" /\ Tail(both) = <<"awaited">>
    <2>1. <<"frame">> \in Seq(Kinds) /\ "awaited" \in Kinds
      BY DEF Kinds
    <2> QED BY ZenonT(60), <2>1, <1>1, AppendProperties, HeadTailAppend DEF Kinds
  <1> QED BY <1>1, <1>2 DEF Line, Kinds

\* A frame of an engine that has stopped stands for a terminal status.
LEMMA StoppedIsTerminal ==
    ASSUME NEW f \in Frames, ~f.running
    PROVE  DeriveStatus(f) \in Terminal
  BY DEF DeriveStatus, Terminal, Frames

\* A command that failed is not forgotten.
LEMMA BlipsGrow ==
    ASSUME TypeOK, [Next]_vars, blips' = 0
    PROVE  blips = 0
  <1>1. blips \in Nat
    BY DEF TypeOK
  <1>2. blips' = blips \/ blips' = blips + 1
    BY ZenonT(60) DEF Next, Worker, PostStores, PostEnqueues, PostRefused, PostLost, Take, Row, Emit, Settle,
           Write, Notify, Ack, SetApplied, SetFails, Retry, Turn, Crash, Stop, Exit, Restart, Killed,
           HookRun, Stall, Expire, vars
  <1> QED BY <1>1, <1>2

\* Nor is a stall.
LEMMA StallsGrow ==
    ASSUME TypeOK, [Next]_vars, stalls' = 0
    PROVE  stalls = 0
  <1>1. stalls' # stalls + 1
    BY DEF TypeOK
  <1> QED BY <1>1 DEF Next, Worker, PostStores, PostEnqueues, PostRefused, PostLost, Take, Row,
                      Emit, Settle, Write, Notify, Ack, SetApplied, SetFails, Retry, Crash, Stop,
                      Exit, Restart, Killed, HookRun, Stall, Expire, vars, queue

\* What an update() call does when no command fails.
LEMMA CleanTurn ==
    ASSUME TypeOK, NEW w \in Workers, NEW k \in Kinds, NEW f \in Frames \cup {NoFrame},
           NEW tries \in 0..(MaxAttempts - 1), NEW settles \in BOOLEAN,
           Turn(w, k, f, tries, settles), blips' = 0
    PROVE  /\ \A v \in Workers, j \in Kinds : v # w \/ j # k => op'[v][j] = op[v][j]
           /\ rec = NoRecord => op'[w][k] = Over(k, f) /\ wire' = wire
           /\ rec # NoRecord =>
                /\ op'[w][k].state = "sent" /\ op'[w][k].frame = f
                /\ op'[w][k].next \in Records /\ op'[w][k].next.progress = f
                /\ op'[w][k].next.status = DeriveStatus(f)
                /\ settles => op'[w][k].next.settled
                /\ wire' = [wire EXCEPT ![w] = Append(@, k)]
  <1>1. blips' # blips + 1
    BY DEF TypeOK
  <1>2. CASE rec = NoRecord
    <2>1. op' = [op EXCEPT ![w][k] = Over(k, f)] /\ wire' = wire
      BY <1>1, <1>2 DEF Turn
    <2> QED BY <1>2, <2>1 DEF TypeOK
  <1>3. CASE rec # NoRecord
    <2> DEFINE next == IF settles THEN WithResult(rec, f) ELSE WithFrame(rec, f)
               o == [state |-> "sent", frame |-> f, tries |-> tries, next |-> next]
    <2>1. op' = [op EXCEPT ![w][k] = o] /\ wire' = [wire EXCEPT ![w] = Append(@, k)]
      BY <1>1, <1>3 DEF Turn
    <2>2. rec \in Records
      BY <1>3 DEF TypeOK
    <2>3. next \in Records /\ next.progress = f
      BY <2>2, FrameTypes
    <2>4. next.status = DeriveStatus(f) /\ (settles => next.settled)
      BY <2>2, <2>3 DEF WithResult, WithFrame, Records
    <2>5. o.state = "sent" /\ o.frame = f /\ o.next = next
      OBVIOUS
    <2> HIDE DEF o, next
    <2>6. /\ op'[w][k] = o
          /\ \A v \in Workers, j \in Kinds : v # w \/ j # k => op'[v][j] = op[v][j]
      BY <2>1 DEF TypeOK
    <2> QED BY <1>3, <2>1, <2>3, <2>4, <2>5, <2>6
  <1> QED BY <1>2, <1>3

\* A step of another worker, or one that leaves the calls alone.
LEMMA CallsStay ==
    ASSUME NEW w \in Workers, Calls(w), op'[w] = op[w], wire'[w] = wire[w],
           \/ at'[w] = at[w]
           \/ at[w] \notin {"running", "flushing", "writing"} /\ at'[w] \notin {"flushing", "writing"},
           rec # NoRecord => rec' # NoRecord
    PROVE  Calls(w)'
  <1>1. \A k \in Kinds : Sent(w, k)' = Sent(w, k)
    BY DEF Sent
  <1>2. CASE at'[w] = at[w]
    BY <1>1, <1>2 DEF Calls, Kinds
  <1>3. CASE at[w] \notin {"running", "flushing", "writing"} /\ at'[w] \notin {"flushing", "writing"}
    <2>1. op[w]["awaited"].state = "idle" /\ op[w]["frame"].state = "idle"
      BY <1>3 DEF Calls, Sent
    <2> QED BY <1>1, <1>3, <2>1 DEF Calls, Kinds, Sent
  <1> QED BY <1>2, <1>3

\* A process without calls.
LEMMA NoCalls ==
    ASSUME NEW w \in Workers, op'[w] = [k \in Kinds |-> NoOp], wire'[w] = <<>>,
           at'[w] \notin {"flushing", "writing"}
    PROVE  Calls(w)'
  <1>1. \A k \in Kinds : op'[w][k].state = "idle" /\ Sent(w, k)' = FALSE
    BY DEF NoOp, Sent
  <1>2. wire'[w] = Line(Sent(w, "frame")', Sent(w, "awaited")')
    BY <1>1, LineFacts DEF Kinds
  <1> QED BY <1>1, <1>2 DEF Calls, Kinds

\* A frame of the running engine is sent, or finds no record.
LEMMA EmitKeepsCalls ==
    ASSUME IInv, NEW w \in Workers, Calls(w), Emit(w), blips' = 0
    PROVE  Calls(w)'
  <1> DEFINE f == Snapshot(engine[w])
  <1>1. TypeOK /\ f \in Frames \cup {NoFrame} /\ 0 \in 0..(MaxAttempts - 1)
    BY SnapshotTypes DEF IInv, TypeOK
  <1>2. /\ Turn(w, "frame", f, 0, FALSE) /\ at[w] = "running" /\ UNCHANGED <<rec, at>>
        /\ op[w]["frame"].state = "idle"
    BY DEF Emit
  <1> HIDE DEF f
  <1>3. /\ op'[w]["awaited"] = op[w]["awaited"]
        /\ rec = NoRecord => op'[w]["frame"] = Over("frame", f) /\ wire' = wire
        /\ rec # NoRecord => /\ op'[w]["frame"].state = "sent" /\ op'[w]["frame"].next \in Records
                             /\ wire' = [wire EXCEPT ![w] = Append(@, "frame")]
    BY <1>1, <1>2, CleanTurn DEF Kinds
  <1>4. op[w]["awaited"].state = "idle" /\ wire[w] = Line(FALSE, FALSE)
    BY <1>2 DEF Calls, Sent
  <1>5. CASE rec = NoRecord
    <2>1. op'[w]["frame"].state = "idle" /\ wire'[w] = Line(FALSE, FALSE)
      <3>1. Over("frame", f).state = "idle"
        BY DEF Over, NoOp
      <3> QED BY <1>3, <1>4, <1>5, <3>1
    <2> QED BY <1>2, <1>3, <1>4, <2>1 DEF Calls, Sent, Kinds
  <1>6. CASE rec # NoRecord
    <2>1. wire'[w] = Line(TRUE, FALSE)
      BY <1>1, <1>3, <1>4, <1>6, LineFacts DEF TypeOK
    <2> QED BY <1>2, <1>3, <1>4, <1>6, <2>1 DEF Calls, Sent, Kinds
  <1> QED BY <1>5, <1>6

\* The processor makes its awaited call, the first or the final one.
LEMMA AwaitKeepsCalls ==
    ASSUME IInv, NEW w \in Workers, Calls(w), NEW f \in Frames, ~f.running,
           NEW settles \in BOOLEAN, Turn(w, "awaited", f, 0, settles), blips' = 0, rec' = rec,
           \/ at[w] = "running" /\ at'[w] = "flushing"
           \/ /\ at[w] = "flushing" /\ op[w]["awaited"].state = "resolved"
              /\ at'[w] = "writing" /\ settles
    PROVE  Calls(w)'
  <1>1. TypeOK /\ f \in Frames \cup {NoFrame} /\ 0 \in 0..(MaxAttempts - 1)
    BY DEF IInv
  <1>2. /\ op'[w]["frame"] = op[w]["frame"]
        /\ rec = NoRecord => op'[w]["awaited"] = Over("awaited", f) /\ wire' = wire
        /\ rec # NoRecord =>
             /\ op'[w]["awaited"].state = "sent" /\ op'[w]["awaited"].frame = f
             /\ op'[w]["awaited"].next \in Records /\ op'[w]["awaited"].next.progress = f
             /\ op'[w]["awaited"].next.status = DeriveStatus(f)
             /\ settles => op'[w]["awaited"].next.settled
             /\ wire' = [wire EXCEPT ![w] = Append(@, "awaited")]
    BY <1>1, CleanTurn DEF Kinds
  <1>3. /\ ~Sent(w, "awaited") /\ (at[w] = "flushing" => ~Sent(w, "frame"))
        /\ wire[w] = Line(Sent(w, "frame"), FALSE)
    BY DEF Calls, Sent
  <1>4. CASE rec = NoRecord
    <2>1. op'[w]["awaited"].state = "resolved" /\ wire'[w] = wire[w]
      BY <1>2, <1>4 DEF Over, NoOp
    <2>2. ~Sent(w, "frame") /\ ~Sent(w, "awaited")
      BY <1>4 DEF Calls, Kinds
    <2> QED BY <1>2, <1>3, <2>1, <2>2 DEF Calls, Sent, Kinds
  <1>5. CASE rec # NoRecord
    <2>1. Sent(w, "frame") \in BOOLEAN
      BY DEF Sent
    <2>2. wire'[w] = Line(Sent(w, "frame"), TRUE)
      BY ZenonT(60), <1>1, <1>2, <1>3, <1>5, <2>1, LineFacts DEF TypeOK
    <2>3. Sent(w, "frame")' = Sent(w, "frame") /\ Sent(w, "awaited")' = TRUE
      BY <1>2, <1>5 DEF Sent
    <2>4. op'[w]["awaited"].next.status \in Terminal
      BY <1>2, <1>5, StoppedIsTerminal
    <2> QED BY <1>2, <1>3, <1>5, <2>2, <2>3, <2>4 DEF Calls, Kinds
  <1> QED BY <1>4, <1>5

\* The SET that is executed is the frame's, or the awaited call's if no frame
\* is on the way.
LEMMA Applied ==
    ASSUME IInv, NEW w \in Workers, Calls(w), SetApplied(w)
    PROVE  /\ \A v \in Workers \ {w} : op'[v] = op[v] /\ wire'[v] = wire[v]
           /\ rec' \in Records
           /\ \/ /\ Sent(w, "frame") /\ rec' = op[w]["frame"].next
                 /\ op'[w]["frame"] = NoOp /\ op'[w]["awaited"] = op[w]["awaited"]
                 /\ wire'[w] = Line(FALSE, Sent(w, "awaited"))
              \/ /\ ~Sent(w, "frame") /\ Sent(w, "awaited") /\ rec' = op[w]["awaited"].next
                 /\ op'[w]["frame"] = op[w]["frame"]
                 /\ op'[w]["awaited"] = Over("awaited", op[w]["awaited"].frame)
                 /\ wire'[w] = Line(FALSE, FALSE)
  <1> DEFINE k == Head(wire[w])
  <1>1. /\ op \in [Workers -> [Kinds -> Ops]] /\ wire \in [Workers -> Seq(Kinds)]
        /\ wire[w] # <<>>
    BY DEF IInv, TypeOK, SetApplied
  <1>2. /\ rec' = op[w][k].next /\ op' = [op EXCEPT ![w][k] = Over(k, op[w][k].frame)]
        /\ wire' = [wire EXCEPT ![w] = Tail(@)] /\ k \in Kinds
    BY <1>1 DEF SetApplied
  <1>3. Sent(w, "frame") \in BOOLEAN /\ Sent(w, "awaited") \in BOOLEAN
        /\ wire[w] = Line(Sent(w, "frame"), Sent(w, "awaited"))
    BY DEF Calls, Sent
  <1>4. /\ \A v \in Workers \ {w} : op'[v] = op[v] /\ wire'[v] = wire[v]
        /\ wire'[w] = Tail(wire[w]) /\ op'[w][k] = Over(k, op[w][k].frame)
        /\ \A j \in Kinds \ {k} : op'[w][j] = op[w][j]
    BY <1>1, <1>2
  <1>5. CASE Sent(w, "frame")
    <2>1. k = "frame" /\ Tail(wire[w]) = Line(FALSE, Sent(w, "awaited"))
      BY <1>3, <1>5, LineFacts
    <2>2. op[w]["frame"].next \in Records
      BY <1>5 DEF Calls, Kinds
    <2>3. Over(k, op[w][k].frame) = NoOp
      BY <2>1 DEF Over
    <2> HIDE DEF k
    <2> QED BY <1>2, <1>4, <1>5, <2>1, <2>2, <2>3 DEF Kinds
  <1>6. CASE ~Sent(w, "frame")
    <2>1. Sent(w, "awaited") /\ wire[w] = Line(FALSE, TRUE)
      BY <1>1, <1>3, <1>6, LineFacts
    <2>2. k = "awaited" /\ Tail(wire[w]) = Line(FALSE, FALSE)
      BY <2>1, LineFacts
    <2>3. op[w]["awaited"].next \in Records
      BY <2>1 DEF Calls, Kinds
    <2> HIDE DEF k
    <2> QED BY <1>2, <1>4, <1>6, <2>1, <2>2, <2>3 DEF Kinds
  <1> QED BY <1>5, <1>6

LEMMA AppliedKeepsCalls ==
    ASSUME IInv, NEW w \in Workers, Calls(w), SetApplied(w)
    PROVE  Calls(w)'
  <1>1. at' = at /\ rec' \in Records /\ rec' # NoRecord
    BY Applied DEF SetApplied
  <1>2. NoOp.state = "idle" /\ Over("awaited", op[w]["awaited"].frame).state = "resolved"
    BY DEF NoOp, Over
  <1>3. CASE Sent(w, "frame")
    <2>1. /\ op'[w]["frame"].state = "idle" /\ op'[w]["awaited"] = op[w]["awaited"]
          /\ wire'[w] = Line(FALSE, Sent(w, "awaited"))
      BY <1>2, <1>3, Applied
    <2> QED BY <1>1, <2>1 DEF Calls, Sent, Kinds
  <1>4. CASE ~Sent(w, "frame")
    <2>1. /\ op'[w]["frame"] = op[w]["frame"] /\ op'[w]["awaited"].state = "resolved"
          /\ Sent(w, "awaited") /\ wire'[w] = Line(FALSE, FALSE)
      <3>1. /\ op'[w]["frame"] = op[w]["frame"] /\ Sent(w, "awaited")
            /\ op'[w]["awaited"] = Over("awaited", op[w]["awaited"].frame)
            /\ wire'[w] = Line(FALSE, FALSE)
        BY <1>4, Applied
      <3> QED BY <1>2, <3>1
    <2>2. Sent(w, "frame")' = FALSE /\ Sent(w, "awaited")' = FALSE
      BY <1>4, <2>1 DEF Sent
    <2>3. wire'[w] = Line(Sent(w, "frame")', Sent(w, "awaited")')
      BY <2>1, <2>2
    <2>4. op[w]["awaited"].state # "idle" /\ op[w]["frame"].state \in {"idle", "sent"}
      BY <2>1 DEF Sent, Calls
    <2> QED BY <1>1, <2>1, <2>2, <2>3, <2>4 DEF Calls, Kinds
  <1> QED BY <1>3, <1>4

\* The webhook job is queued with no call left.
LEMMA NotifyKeepsCalls ==
    ASSUME IInv, NEW w \in Workers, Calls(w), Notify(w)
    PROVE  Calls(w)'
  <1>1. /\ at[w] = "writing" /\ op[w]["awaited"].state = "resolved"
        /\ op' = [op EXCEPT ![w]["awaited"] = NoOp] /\ at' = [at EXCEPT ![w] = "acking"]
        /\ UNCHANGED <<rec, wire>>
    BY DEF Notify
  <1>2. /\ op'[w]["awaited"] = NoOp /\ op'[w]["frame"] = op[w]["frame"] /\ at'[w] = "acking"
    BY <1>1 DEF IInv, TypeOK, Kinds
  <1>3. NoOp.state = "idle" /\ ~Sent(w, "frame") /\ wire[w] = Line(FALSE, FALSE)
    BY <1>1 DEF NoOp, Calls, Sent
  <1> QED BY <1>1, <1>2, <1>3 DEF Calls, Sent, Kinds

\* A run ends with a frame that says so.
LEMMA FinalKeeps ==
    ASSUME IInv, Final, [Next]_vars
    PROVE  Final'
  <1>1. ASSUME NEW w \in Workers, Settle(w)
        PROVE  ~Snapshot(engine'[w]).running
    BY <1>1 DEF Settle, IInv, TypeOK, Engines, Snapshot
  <1>2. verdicts' = verdicts \/ \E w \in Workers : Settle(w)
    BY DEF Next, Worker, PostStores, PostEnqueues, PostRefused, PostLost, Take, Row, Emit, Settle,
           Write, Notify, Ack, SetApplied, SetFails, Retry, Crash, Stop, Exit, Restart, Killed,
           HookRun, Stall, Expire, vars
  <1>3. \A w \in Workers : Settle(w) => verdicts' = verdicts \cup {Snapshot(engine'[w])}
    BY DEF Settle
  <1> QED BY <1>1, <1>2, <1>3 DEF Final

\* A processor touches only its own process.
LEMMA OwnProcess ==
    ASSUME TypeOK, NEW w \in Workers, Worker(w), NEW v \in Workers \ {w}
    PROVE  at'[v] = at[v] /\ op'[v] = op[v] /\ wire'[v] = wire[v]
  <1> USE DEF TypeOK
  <1>1. CASE \/ Take(w) \/ Row(w) \/ Notify(w) \/ Ack(w) \/ Stop(w) \/ Restart(w)
    BY <1>1 DEF Take, Row, Notify, Ack, Stop, Restart
  <1>2. CASE Crash(w) \/ Exit(w)
    BY <1>2 DEF Crash, Exit, Killed
  <1>3. CASE SetApplied(w) \/ SetFails(w)
    BY <1>3 DEF SetApplied, SetFails
  <1>4. ASSUME NEW k \in Kinds, NEW f, NEW tries, NEW settles, Turn(w, k, f, tries, settles)
        PROVE  op'[v] = op[v] /\ wire'[v] = wire[v]
    BY <1>4 DEF Turn
  <1>5. CASE Emit(w) \/ Settle(w) \/ Write(w) \/ \E k \in Kinds : Retry(w, k)
    BY <1>4, <1>5 DEF Emit, Settle, Write, Retry, Kinds
  <1> QED BY <1>1, <1>2, <1>3, <1>5 DEF Worker

\* The call order holds on, as long as no command fails.
LEMMA OrderlyKeeps ==
    ASSUME IInv, Final, Orderly, [Next]_vars
    PROVE  Orderly'
  <1> SUFFICES ASSUME blips' = 0, NEW v \in Workers PROVE Calls(v)'
    BY DEF Orderly
  <1>1. /\ blips = 0 /\ TypeOK /\ \A w \in Workers : Calls(w)
    BY BlipsGrow DEF Orderly, IInv
  <1>2. CASE \/ PostStores \/ PostEnqueues \/ PostRefused \/ PostLost
             \/ (\E r \in Runs : HookRun(r)) \/ Stall \/ UNCHANGED vars
    <2>1. UNCHANGED <<at, op, wire>>
      BY <1>2 DEF PostStores, PostEnqueues, PostRefused, PostLost, HookRun, Stall, vars
    <2>2. rec # NoRecord => rec' # NoRecord
      <3>1. InitialRecord \in Records /\ (rec # NoRecord => WithFailure(rec) \in Records)
        BY <1>1, FrameTypes DEF TypeOK, InitialRecord, Records, Statuses
      <3> QED BY <1>2, <3>1 DEF PostStores, PostEnqueues, PostRefused, PostLost, HookRun, Stall,
                                vars
    <2> QED BY <1>1, <2>1, <2>2, CallsStay
  <1>3. CASE Expire
    <2>1. /\ UNCHANGED <<at, op, wire>> /\ at[v] \notin Processing
          /\ \A k \in Kinds : op[v][k].state = "idle"
      BY <1>3 DEF Expire
    <2>2. \A k \in Kinds : Sent(v, k)' = FALSE /\ Sent(v, k) = FALSE
      BY <2>1 DEF Sent
    <2> QED BY ZenonT(60), <1>1, <2>1, <2>2 DEF Calls, Kinds, Processing
  <1>4. ASSUME NEW w \in Workers, Worker(w)
        PROVE  Calls(v)'
    <2>1. CASE SetApplied(w)
      <3>1. v = w => Calls(v)'
        BY <1>1, <2>1, AppliedKeepsCalls
      <3>2. rec' # NoRecord
        BY <1>1, <2>1, Applied
      <3> QED BY <1>1, <1>4, <3>1, <3>2, OwnProcess, CallsStay
    <2>2. CASE ~SetApplied(w)
      <3>1. rec' = rec
        <4>1. ~SetFails(w)
          BY <1>1 DEF SetFails
        <4> QED BY <1>4, <2>2, <4>1 DEF Worker, Take, Row, Emit, Settle, Write, Notify, Ack, Retry,
                                        Turn, Crash, Stop, Exit, Restart, Killed
      <3>2. CASE v # w
        BY <1>1, <1>4, <3>1, <3>2, OwnProcess, CallsStay
      <3>3. CASE v = w
        <4>1. CASE Take(w) \/ Row(w) \/ Ack(w) \/ Stop(w) \/ Restart(w)
          <5>1. /\ op' = op /\ wire' = wire
                /\ \/ at'[w] = at[w]
                   \/ at[w] \in {"idle", "acking", "off"} /\ at'[w] \in {"running", "idle"}
            BY <1>1, <4>1 DEF Take, Row, Ack, Stop, Restart, TypeOK
          <5> QED BY <1>1, <3>1, <3>3, <5>1, CallsStay
        <4>2. CASE Crash(w) \/ Exit(w)
          <5>1. /\ op'[w] = [k \in Kinds |-> NoOp] /\ wire'[w] = <<>> /\ at'[w] = "off"
            BY <1>1, <4>2 DEF Crash, Exit, Killed, TypeOK
          <5> QED BY <3>3, <5>1, NoCalls
        <4>3. CASE Emit(w)
          BY <1>1, <3>3, <4>3, EmitKeepsCalls
        <4>4. CASE Settle(w)
          <5>0. engine'[w] \in Engines /\ ~engine'[w].running
            BY <1>1, <4>4 DEF Settle, TypeOK, Engines
          <5>1. PICK f \in Frames : f = Snapshot(engine'[w]) /\ ~f.running
            BY <5>0, SnapshotTypes
          <5>2. /\ Turn(w, "awaited", f, 0, FALSE) /\ at[w] = "running" /\ at'[w] = "flushing"
            BY <1>1, <4>4, <5>1 DEF Settle, TypeOK
          <5> QED BY <1>1, <3>1, <3>3, <5>1, <5>2, AwaitKeepsCalls
        <4>5. CASE Write(w)
          <5>1. PICK f \in Frames : f = op[w]["awaited"].frame /\ ~f.running
            BY <4>5 DEF Write, IInv, Holding, Final, TypeOK
          <5>2. /\ Turn(w, "awaited", f, 0, TRUE) /\ op[w]["awaited"].state = "resolved"
                /\ at[w] = "flushing" /\ at'[w] = "writing"
            BY <1>1, <4>5, <5>1 DEF Write, TypeOK
          <5> QED BY <1>1, <3>1, <3>3, <5>1, <5>2, AwaitKeepsCalls
        <4>6. CASE Notify(w)
          BY <1>1, <3>3, <4>6, NotifyKeepsCalls
        <4>7. ~SetFails(w) /\ \A k \in Kinds : ~Retry(w, k)
          BY <1>1 DEF SetFails, Retry, Calls, Kinds
        <4> QED BY <1>4, <2>2, <4>1, <4>2, <4>3, <4>4, <4>5, <4>6, <4>7 DEF Worker
      <3> QED BY <3>2, <3>3
    <2> QED BY <2>1, <2>2
  <1> QED BY <1>2, <1>3, <1>4 DEF Next

LEMMA StartedKeeps ==
    ASSUME TypeOK, Started, [Next]_vars
    PROVE  Started'
  <1> USE DEF TypeOK, Started
  <1>1. CASE PostStores \/ PostEnqueues \/ PostRefused \/ PostLost
    BY <1>1 DEF PostStores, PostEnqueues, PostRefused, PostLost, queue
  <1>2. CASE (\E r \in Runs : HookRun(r)) \/ Stall \/ Expire \/ UNCHANGED vars
    BY <1>2 DEF HookRun, Stall, Expire, vars, queue
  <1>3. ASSUME NEW w \in Workers, Worker(w)
        PROVE  Started'
    <2>1. CASE Take(w) \/ Ack(w)
      BY <2>1 DEF Take, Ack, Processing
    <2>2. CASE Row(w) \/ Emit(w) \/ Settle(w) \/ Write(w) \/ Notify(w) \/ \E k \in Kinds : Retry(w, k)
      BY <2>2 DEF Row, Emit, Settle, Write, Notify, Retry, Processing, queue
    <2>3. CASE SetApplied(w) \/ SetFails(w) \/ Stop(w)
      BY <2>3 DEF SetApplied, SetFails, Stop, queue
    <2>4. CASE Crash(w) \/ Exit(w) \/ Restart(w)
      BY <2>4 DEF Crash, Exit, Killed, Restart, Processing, queue
    <2> QED BY <1>3, <2>1, <2>2, <2>3, <2>4 DEF Worker
  <1> QED BY <1>1, <1>2, <1>3 DEF Next

\* Once the job has been taken, its outcome is in the record or still to come.
LEMMA DueKeeps ==
    ASSUME IInv, Final, Started, Orderly, Due, [Next]_vars
    PROVE  Due'
  <1> SUFFICES ASSUME blips' = 0, restarts' = 0, job' \in {"active", "completed", "failed"},
                      ~Concluded'
               PROVE  \E v \in Workers : WillReport(v)'
    BY DEF Due
  <1>1. /\ blips = 0 /\ TypeOK /\ \A w \in Workers : Calls(w)
    BY BlipsGrow DEF Orderly, IInv
  <1>2. CASE PostStores \/ PostEnqueues \/ PostRefused \/ PostLost
    <2>1. job' \in {"none", "waiting"}
      BY <1>2 DEF PostStores, PostEnqueues, PostRefused, PostLost, queue, Started
    <2> QED BY <2>1
  <1>3. CASE (\E r \in Runs : HookRun(r)) \/ Stall \/ UNCHANGED vars
    <2>1. /\ UNCHANGED <<rec, at, op, blips, restarts>>
          /\ job \in {"active", "completed", "failed"}
      BY <1>3 DEF HookRun, Stall, vars, queue, Started
    <2> QED BY <2>1 DEF Due, Concluded, WillReport, Sent
  <1>4. CASE Expire
    BY <1>4 DEF Expire, Concluded
  <1>5. ASSUME NEW w \in Workers, Worker(w)
        PROVE  \E v \in Workers : WillReport(v)'
    <2>1. CASE Take(w)
      BY <1>1, <2>1 DEF Take, TypeOK, WillReport
    <2>2. ASSUME job \in {"active", "completed", "failed"}, rec' = rec, restarts' = restarts,
                 WillReport(w) => WillReport(w)'
          PROVE  \E v \in Workers : WillReport(v)'
      <3>1. PICK v \in Workers : WillReport(v)
        BY <1>1, <2>2 DEF Due, Concluded
      <3>2. CASE v # w
        BY <1>1, <1>5, <3>1, <3>2, OwnProcess DEF WillReport, Sent
      <3> QED BY <2>2, <3>1, <3>2
    <2>3. CASE Row(w) \/ Emit(w) \/ Restart(w)
      <3>1. /\ job' = job /\ rec' = rec /\ restarts' = restarts
            /\ at[w] = "running" => at'[w] = "running"
            /\ at[w] \in {"running", "off"}
        BY <1>1, <2>3 DEF Row, Emit, Restart, queue, TypeOK
      <3>2. ~Sent(w, "awaited")
        BY <1>1, <3>1 DEF Calls, Sent
      <3> QED BY <2>2, <3>1, <3>2 DEF WillReport
    <2>4. CASE Settle(w)
      <3>0. engine'[w] \in Engines
        BY <1>1, <2>4 DEF Settle, TypeOK, Engines
      <3>1. PICK f \in Frames : f = Snapshot(engine'[w])
        BY <3>0, SnapshotTypes
      <3>2. Turn(w, "awaited", f, 0, FALSE) /\ rec' = rec
        BY <2>4, <3>1 DEF Settle
      <3>3. 0 \in 0..(MaxAttempts - 1) /\ rec # NoRecord
        BY <3>2 DEF Concluded
      <3>4. op'[w]["awaited"].state = "sent"
        BY <1>1, <3>2, <3>3, CleanTurn DEF Kinds
      <3> QED BY <3>4 DEF WillReport, Sent
    <2>5. CASE Write(w)
      <3>1. PICK f \in Frames : f = op[w]["awaited"].frame
        BY <2>5 DEF Write, IInv, Holding, TypeOK
      <3>2. Turn(w, "awaited", f, 0, TRUE) /\ rec' = rec
        BY <2>5, <3>1 DEF Write
      <3>3. 0 \in 0..(MaxAttempts - 1) /\ rec # NoRecord
        BY <3>2 DEF Concluded
      <3>4. op'[w]["awaited"].state = "sent"
        BY <1>1, <3>2, <3>3, CleanTurn DEF Kinds
      <3> QED BY <3>4 DEF WillReport, Sent
    <2>6. CASE Notify(w) \/ Ack(w) \/ Exit(w)
      <3>1. /\ rec' = rec /\ restarts' = restarts
            /\ \/ at[w] = "writing" /\ op[w]["awaited"].state = "resolved"
               \/ at[w] \in {"acking", "idle"}
            /\ job \in {"active", "completed", "failed"}
        BY <2>6, WorkerAssumption DEF Notify, Ack, Exit, Killed, queue, Started
      <3>2. ~Sent(w, "awaited") /\ at[w] # "running"
        BY <1>1, <3>1 DEF Calls, Sent
      <3> QED BY <2>2, <3>1, <3>2 DEF WillReport
    <2>7. CASE SetApplied(w)
      <3>1. UNCHANGED <<at, job, restarts>>
        BY <2>7 DEF SetApplied, queue
      <3>2. CASE Sent(w, "frame")
        <4>1. op'[w]["awaited"] = op[w]["awaited"]
          BY <1>1, <2>7, <3>2, Applied
        <4>2. WillReport(w)
          BY <1>1, <3>2 DEF Calls, WillReport
        <4> QED BY <3>1, <4>1, <4>2 DEF WillReport, Sent
      <3>3. CASE ~Sent(w, "frame")
        <4>1. rec' = op[w]["awaited"].next /\ Sent(w, "awaited")
          BY <1>1, <2>7, <3>3, Applied
        <4> QED BY <1>1, <4>1 DEF Calls, Concluded
      <3> QED BY <3>2, <3>3
    <2>8. ~SetFails(w) /\ ~Crash(w) /\ ~Stop(w)
      <3>1. restarts' # restarts + 1 /\ blips' # blips + 1
        BY <1>1 DEF TypeOK
      <3> QED BY <3>1 DEF SetFails, Crash, Stop
    <2>9. \A k \in Kinds : ~Retry(w, k)
      BY <1>1 DEF Retry, Calls, Kinds
    <2> QED BY <1>5, <2>1, <2>3, <2>4, <2>5, <2>6, <2>7, <2>8, <2>9 DEF Worker
  <1> QED BY <1>2, <1>3, <1>4, <1>5 DEF Next

\* A processor takes the job, which nobody has had.
LEMMA TakeStaysAlone ==
    ASSUME TypeOK, Lone, NEW w \in Workers, Take(w)
    PROVE  Lone'
  <1>1. /\ NobodyAtWork /\ NoHooks /\ job' = "active" /\ at' = [at EXCEPT ![w] = "running"]
        /\ UNCHANGED <<rec, op, hook>>
    BY DEF Take, Lone
  <1>2. \A v \in Workers : at'[v] \in Processing => v = w /\ at'[v] = "running"
    BY <1>1 DEF TypeOK, NobodyAtWork, Processing
  <1> QED BY <1>1, <1>2 DEF Lone, OneAtWork, NoHooks, Telling, Processing

\* A row, a frame or a call changes nothing a poll or a webhook tells.
LEMMA WorkStaysAlone ==
    ASSUME TypeOK, Lone, NEW w \in Workers, UNCHANGED <<rec, job, hook>>,
           at[w] \in {"running", "flushing"}, at'[w] \in {"running", "flushing", "writing"},
           \A v \in Workers \ {w} : at'[v] = at[v] /\ op'[v] = op[v],
           at'[w] = "writing" /\ op'[w]["awaited"].state = "resolved" => rec = NoRecord
    PROVE  Lone'
  <1>1. NoHooks /\ job \notin {"none", "waiting", "completed"}
    BY DEF Lone, Telling, NobodyAtWork, Processing
  <1>2. \A v \in Workers \ {w} : at'[v] \notin Processing
    BY DEF Lone, OneAtWork, Processing
  <1>3. OneAtWork'
    BY <1>2 DEF OneAtWork
  <1>4. ASSUME NEW v \in Workers PROVE Telling(v)'
    BY <1>1, <1>2 DEF Telling, NoHooks, Readable, Processing
  <1> QED BY <1>1, <1>3, <1>4 DEF Lone, NoHooks

\* A SET lands while one processor is at work: if it is the final write, the
\* record is what the webhook will say.
LEMMA AppliedStaysAlone ==
    ASSUME IInv, Lone, NEW w \in Workers, Calls(w), SetApplied(w)
    PROVE  Lone'
  <1>1. /\ UNCHANGED <<at, job, hook>> /\ at[w] \in {"running", "flushing", "writing"}
        /\ Sent(w, "frame") \/ Sent(w, "awaited")
    BY Applied DEF SetApplied, queue, Calls, Sent
  <1>2. /\ NoHooks /\ job \notin {"none", "waiting", "completed"}
    BY <1>1 DEF Lone, Telling, NobodyAtWork, Processing
  <1>3. \A v \in Workers \ {w} : at'[v] \notin Processing
    BY <1>1 DEF Lone, OneAtWork, Processing
  <1>4. at[w] = "writing" => Readable(op[w]["awaited"].frame)'
    <2> SUFFICES ASSUME at[w] = "writing" PROVE Readable(op[w]["awaited"].frame)'
      OBVIOUS
    <2>1. ~Sent(w, "frame")
      BY DEF Calls
    <2>2. /\ rec' = op[w]["awaited"].next
          /\ op'[w]["awaited"] = Over("awaited", op[w]["awaited"].frame) /\ Sent(w, "awaited")
      BY <2>1, Applied
    <2>3. Over("awaited", op[w]["awaited"].frame).frame = op[w]["awaited"].frame
      BY OpTypes DEF IInv, TypeOK, Ops, Kinds
    <2> QED BY <2>2, <2>3 DEF Calls, Readable
  <1>5. ASSUME NEW v \in Workers PROVE Telling(v)'
    BY <1>1, <1>2, <1>3, <1>4 DEF Telling, NoHooks, Processing
  <1> QED BY <1>1, <1>2, <1>5 DEF Lone, NoHooks, OneAtWork

\* The webhook says what the record shows.
LEMMA NotifyStaysAlone ==
    ASSUME TypeOK, Lone, NEW w \in Workers, Notify(w)
    PROVE  Lone'
  <1> PICK f : f = op[w]["awaited"].frame
    OBVIOUS
  <1>1. /\ at[w] = "writing" /\ op[w]["awaited"].state = "resolved"
        /\ at' = [at EXCEPT ![w] = "acking"] /\ UNCHANGED <<rec, job>>
        /\ op' = [op EXCEPT ![w]["awaited"] = NoOp]
        /\ hook' = hook \/ hook' = [hook EXCEPT ![run[w]] = Hook("waiting", f)]
    BY DEF Notify, queue
  <1>2. /\ NoHooks /\ job \notin {"none", "waiting", "completed"} /\ Readable(f) /\ Concluded
    BY <1>1 DEF Lone, Telling, NobodyAtWork, Processing, Readable, Concluded
  <1>3. at'[w] = "acking" /\ \A v \in Workers \ {w} : at'[v] \notin Processing
    BY <1>1 DEF TypeOK, Lone, OneAtWork, Processing
  <1>4. Readable(f)' /\ Concluded'
    BY <1>1, <1>2 DEF TypeOK, Readable, Concluded
  <1>5. ASSUME NEW r \in Runs, hook'[r].state # "none" PROVE Readable(hook[r].frame)'
    <2>1. hook'[r] = Hook("waiting", f)
      BY <1>1, <1>2, <1>5 DEF TypeOK, NoHooks
    <2>2. hook'[r].frame = f
      BY <2>1 DEF Hook
    <2> QED BY <1>1, <1>2, <2>2 DEF Readable
  <1>6. ASSUME NEW v \in Workers PROVE Telling(v)'
    BY <1>3, <1>4 DEF Telling, Processing
  <1>7. OneAtWork'
    BY <1>3 DEF OneAtWork
  <1> QED BY <1>1, <1>2, <1>5, <1>6, <1>7 DEF Lone

\* A processor that returns, a process that goes down, stops or comes back.
LEMMA LeavingStaysAlone ==
    ASSUME TypeOK, Lone, NEW w \in Workers,
           Ack(w) \/ Crash(w) \/ Exit(w) \/ Stop(w) \/ Restart(w)
    PROVE  Lone'
  <1>1. /\ UNCHANGED <<rec, hook>>
        /\ job' = job \/ (at[w] = "acking" /\ job' = "completed")
    BY DEF Ack, Crash, Exit, Stop, Restart, Killed, queue
  <1>2. \A v \in Workers : at'[v] \in Processing => at'[v] = at[v] /\ op'[v] = op[v]
    BY DEF Ack, Crash, Exit, Stop, Restart, Killed, TypeOK, Processing
  <1>3. at[w] = "acking" => Ack(w) \/ Crash(w) \/ Stop(w)
    BY DEF Exit, Restart
  <1>4. Ack(w) => at[w] = "acking" /\ at'[w] = "idle"
    BY DEF Ack, TypeOK
  <1>5. job' # job => Ack(w)
    BY DEF Crash, Exit, Stop, Restart, Killed, queue
  <1>6. OneAtWork' /\ \A v \in Workers : Telling(v)'
    BY <1>1, <1>2 DEF Lone, OneAtWork, Telling, NoHooks, Readable, Concluded, Processing
  <1>7. CASE job' = job
    BY <1>1, <1>2, <1>6, <1>7 DEF Lone, NobodyAtWork, NoHooks, Readable, Concluded
  <1>8. CASE job' # job
    <2>1. job' = "completed" /\ at[w] = "acking" /\ at'[w] = "idle" /\ Concluded
      BY <1>1, <1>4, <1>5, <1>8 DEF Lone, Telling
    <2>2. NobodyAtWork'
      <3>1. \A v \in Workers : at[v] \in Processing => v = w
        BY <2>1 DEF Lone, OneAtWork, Processing
      <3> QED BY <1>2, <2>1, <3>1 DEF NobodyAtWork, Processing
    <2> QED BY <1>1, <1>6, <2>1, <2>2 DEF Lone, NoHooks, Readable, Concluded
  <1> QED BY <1>7, <1>8

\* One worker at a time, as long as no command fails and no lock runs out.
LEMMA AloneKeeps ==
    ASSUME IInv, Started, Orderly, Alone, [Next]_vars
    PROVE  Alone'
  <1> SUFFICES ASSUME blips' = 0, stalls' = 0 PROVE Lone'
    BY DEF Alone
  <1>1. /\ blips = 0 /\ TypeOK /\ \A w \in Workers : Calls(w)
    BY BlipsGrow DEF Orderly, IInv
  <1>2. stalls' # stalls + 1
    BY <1>1 DEF TypeOK
  <1>3. stalls = 0
    BY <1>1, StallsGrow
  <1>4. Lone
    BY <1>1, <1>3 DEF Alone
  <1>5. CASE PostStores \/ PostEnqueues \/ PostRefused \/ PostLost
    <2>1. /\ UNCHANGED <<at, op, hook>> /\ job' \in {"none", "waiting"} /\ job = "none"
      BY <1>5 DEF PostStores, PostEnqueues, PostRefused, PostLost, queue, Started
    <2>2. NoHooks /\ NobodyAtWork
      BY <1>4, <2>1 DEF Lone
    <2> QED BY <2>1, <2>2 DEF Lone, OneAtWork, NobodyAtWork, Telling, NoHooks, Processing
  <1>6. CASE \E r \in Runs : HookRun(r)
    <2>1. PICK r \in Runs : HookRun(r)
      BY <1>6
    <2>2. /\ UNCHANGED <<rec, job, at, op>> /\ hook[r].state # "none"
          /\ \A q \in Runs \ {r} : hook'[q] = hook[q]
      BY <1>1, <2>1 DEF HookRun, queue, TypeOK
    <2>3. hook'[r].frame = hook[r].frame
      BY <1>1, <2>1 DEF HookRun, Hook, TypeOK, Hooks
    <2>4. job \notin {"none", "waiting"} /\ \A w \in Workers : at[w] \notin {"running", "flushing", "writing"}
      BY <1>4, <2>2 DEF Lone, Telling, NoHooks
    <2>5. \A q \in Runs : hook'[q].state # "none" => Readable(hook[q].frame)'
      BY <1>4, <2>2, <2>3 DEF Lone, Readable
    <2> QED BY <1>4, <2>2, <2>4, <2>5 DEF Lone, OneAtWork, NobodyAtWork, Telling, Concluded
  <1>7. CASE Stall
    <2>1. job' = "failed" /\ UNCHANGED <<rec, at, op, hook>> /\ job = "active"
      BY <1>2, <1>7 DEF Stall, Started
    <2> QED BY <1>4, <2>1 DEF Lone, OneAtWork, Telling, NoHooks, Readable, Concluded
  <1>8. CASE Expire
    BY <1>4, <1>8 DEF Expire, queue, Lone, OneAtWork, NobodyAtWork, Telling, NoHooks, Readable,
                      Concluded, Processing
  <1>9. CASE UNCHANGED vars
    BY <1>4, <1>9 DEF vars, queue, Lone, OneAtWork, NobodyAtWork, Telling, NoHooks, Readable,
                      Concluded
  <1>10. ASSUME NEW w \in Workers, Worker(w)
         PROVE  Lone'
    <2>1. CASE Take(w)
      BY <1>1, <1>4, <2>1, TakeStaysAlone
    <2>2. CASE Row(w) \/ Emit(w) \/ Settle(w)
      <3>1. /\ UNCHANGED <<rec, job, hook>> /\ at[w] = "running"
            /\ at'[w] \in {"running", "flushing"}
        BY <1>1, <2>2 DEF Row, Emit, Settle, queue, TypeOK
      <3> QED BY <1>1, <1>4, <1>10, <3>1, OwnProcess, WorkStaysAlone
    <2>3. CASE Write(w)
      <3>1. PICK f \in Frames : f = op[w]["awaited"].frame
        BY <2>3 DEF Write, IInv, Holding, TypeOK
      <3>2. /\ UNCHANGED <<rec, job, hook>> /\ at[w] = "flushing" /\ at'[w] = "writing"
            /\ Turn(w, "awaited", f, 0, TRUE)
        BY <1>1, <2>3, <3>1 DEF Write, queue, TypeOK
      <3>3. 0 \in 0..(MaxAttempts - 1)
        OBVIOUS
      <3>4. rec # NoRecord => op'[w]["awaited"].state = "sent"
        BY <1>1, <3>2, <3>3, CleanTurn DEF Kinds
      <3> QED BY <1>1, <1>4, <1>10, <3>2, <3>4, OwnProcess, WorkStaysAlone
    <2>4. CASE Notify(w)
      BY <1>1, <1>4, <2>4, NotifyStaysAlone
    <2>5. CASE Ack(w) \/ Crash(w) \/ Exit(w) \/ Stop(w) \/ Restart(w)
      BY <1>1, <1>4, <2>5, LeavingStaysAlone
    <2>6. CASE SetApplied(w)
      BY <1>1, <1>4, <2>6, AppliedStaysAlone
    <2>7. ~SetFails(w) /\ \A k \in Kinds : ~Retry(w, k)
      BY <1>1 DEF SetFails, Retry, Calls, Kinds
    <2> QED BY <1>10, <2>1, <2>2, <2>3, <2>4, <2>5, <2>6, <2>7 DEF Worker
  <1> QED BY <1>5, <1>6, <1>7, <1>8, <1>9, <1>10 DEF Next

\* The invariant of the two promises: who may still write, and what.
ReportInv == IInv /\ Final /\ Started /\ Orderly /\ Due /\ Alone

LEMMA InitReport == Init => ReportInv
  <1> SUFFICES ASSUME Init PROVE ReportInv
    OBVIOUS
  <1>1. IInv
    BY InitInvariant
  <1>2. Final /\ Started /\ Due
    BY DEF Init, Final, Started, Due, Processing
  <1>3. NoHook.state = "none" /\ NoOp.state = "idle"
    BY DEF NoHook, Hook, NoOp
  <1>4. Orderly
    <2> SUFFICES ASSUME NEW w \in Workers PROVE Calls(w)
      BY DEF Orderly
    <2>1. \A k \in Kinds : op[w][k].state = "idle" /\ Sent(w, k) = FALSE
      BY <1>3 DEF Init, Sent
    <2>2. wire[w] = Line(Sent(w, "frame"), Sent(w, "awaited"))
      BY <2>1, LineFacts DEF Init, Kinds
    <2>3. at[w] = "idle"
      BY DEF Init
    <2> QED BY <2>1, <2>2, <2>3 DEF Calls, Kinds
  <1>5. Alone
    BY <1>3 DEF Init, Alone, Lone, OneAtWork, NobodyAtWork, Telling, NoHooks, Processing
  <1> QED BY <1>1, <1>2, <1>4, <1>5 DEF ReportInv

LEMMA NextReport == ReportInv /\ [Next]_vars => ReportInv'
  <1> SUFFICES ASSUME ReportInv, [Next]_vars PROVE ReportInv'
    OBVIOUS
  <1>1. IInv /\ TypeOK /\ Final /\ Started /\ Orderly /\ Due /\ Alone
    BY DEF ReportInv, IInv
  <1> QED BY <1>1, NextInvariant, FinalKeeps, StartedKeeps, OrderlyKeeps, DueKeeps, AloneKeeps
          DEF ReportInv

\* Whoever is told by the webhook that the batch is over, and polls, reads the
\* same counts (worker.ts: the final write comes before the webhook job), for
\* any number of workers, rows and crashes.
THEOREM NotifiedIsReadableHolds == Spec => []NotifiedIsReadable
  <1>1. ReportInv => NotifiedIsReadable
    BY DEF ReportInv, Alone, Lone, Readable, NotifiedIsReadable
  <1> QED BY <1>1, InitReport, NextReport, PTL DEF Spec

\* A job BullMQ counts as completed is one whose record says how it ended, also
\* when the job ran more than once at a time, or workers went down.
THEOREM AckedIsSettledHolds == Spec => []AckedIsSettled
  <1>1. ReportInv => AckedIsSettled
    <2> SUFFICES ASSUME ReportInv, job = "completed", blips = 0, stalls = 0 \/ restarts = 0,
                        \A w \in Workers : at[w] \notin Processing
                 PROVE  Concluded
      BY DEF AckedIsSettled, Concluded
    <2>1. CASE stalls = 0
      BY <2>1 DEF ReportInv, Alone, Lone
    <2>2. CASE restarts = 0
      <3>1. \A w \in Workers : ~WillReport(w)
        BY DEF ReportInv, Orderly, Calls, WillReport, Sent, Processing
      <3> QED BY <2>2, <3>1 DEF ReportInv, Due
    <2> QED BY <2>1, <2>2
  <1> QED BY <1>1, InitReport, NextReport, PTL DEF Spec

-----------------------------------------------------------------------------
(* The record of a job that never stalls *)

\* What a client that polls sees (as in InlineBatch): no job yet, its status, or
\* that it is not known any more.
PolledStatus == IF rec # NoRecord THEN rec.status
                ELSE IF post = "none" THEN "none" ELSE "gone"

Lifecycle == INSTANCE JobLifecycle WITH status <- PolledStatus

\* As long as no command fails and no lock runs out.
FollowsLifecycle ==
    Lifecycle!Init /\ [][blips' = 0 /\ stalls' = 0 => Lifecycle!Next]_PolledStatus

\* A poll finds this status, or no record.
Polls(statuses) == rec = NoRecord \/ rec.status \in statuses

Ended(w) == {DeriveStatus(op[w]["awaited"].frame)}

\* How far the record is, by the place of the processor: open until the awaited
\* frame lands, and from then on what that frame says.
Course(w) ==
    /\ at[w] = "running" => Polls(Lifecycle!Open)
    /\ Sent(w, "frame") => op[w]["frame"].next.status = "running"
    /\ Sent(w, "awaited") => op[w]["awaited"].next.status \in Ended(w)
    /\ at[w] = "flushing" /\ Sent(w, "awaited") => Polls(Lifecycle!Open)
    /\ at[w] = "flushing" /\ ~Sent(w, "awaited") => Polls(Ended(w))
    /\ at[w] = "writing" => Polls(Ended(w))

Chronicle ==
    /\ post = "none" => rec = NoRecord
    /\ post = "stored" \/ job = "waiting" => Polls({"queued"})
    /\ \A w \in Workers : Course(w)

Dated == blips = 0 /\ stalls = 0 => Chronicle

\* A step that leaves the record and the calls of a processor alone.
LEMMA CourseStays ==
    ASSUME NEW w \in Workers, Course(w), op'[w] = op[w], at'[w] = at[w],
           rec' = rec \/ rec' = NoRecord
    PROVE  Course(w)'
  BY DEF Course, Polls, Ended, Sent

\* The processor is off, between jobs or done with this one.
LEMMA CourseAside ==
    ASSUME NEW w \in Workers, \A k \in Kinds : op'[w][k].state # "sent",
           at'[w] \notin {"running", "flushing", "writing"}
    PROVE  Course(w)'
  BY DEF Course, Sent, Kinds

\* The processor makes its awaited call, the first or the final one.
LEMMA AwaitKeepsCourse ==
    ASSUME IInv, NEW w \in Workers, Calls(w), Course(w), NEW f \in Frames,
           NEW settles \in BOOLEAN, Turn(w, "awaited", f, 0, settles), blips' = 0, rec' = rec,
           \/ at[w] = "running" /\ at'[w] = "flushing"
           \/ /\ at[w] = "flushing" /\ op[w]["awaited"].state = "resolved"
              /\ f = op[w]["awaited"].frame /\ at'[w] = "writing"
    PROVE  Course(w)'
  <1>1. TypeOK /\ f \in Frames \cup {NoFrame} /\ 0 \in 0..(MaxAttempts - 1)
    BY DEF IInv
  <1>2. /\ op'[w]["frame"] = op[w]["frame"]
        /\ rec = NoRecord => op'[w]["awaited"] = Over("awaited", f)
        /\ rec # NoRecord =>
             /\ op'[w]["awaited"].state = "sent" /\ op'[w]["awaited"].frame = f
             /\ op'[w]["awaited"].next.status = DeriveStatus(f)
    BY <1>1, CleanTurn DEF Kinds
  <1>3. Over("awaited", f).state = "resolved"
    BY DEF Over, NoOp
  <1> QED BY <1>2, <1>3 DEF Course, Polls, Ended, Sent, Kinds

\* A frame of the running engine says "running".
LEMMA EmitKeepsCourse ==
    ASSUME IInv, NEW w \in Workers, Calls(w), Course(w), Emit(w), blips' = 0
    PROVE  Course(w)'
  <1>1. /\ TypeOK /\ engine[w] \in Engines /\ at[w] = "running" /\ engine[w].running
        /\ engine[w].done > 0 /\ Turn(w, "frame", Snapshot(engine[w]), 0, FALSE)
        /\ UNCHANGED <<rec, at>>
    BY DEF IInv, TypeOK, Engine, Emit
  <1>2. DeriveStatus(Snapshot(engine[w])) = "running"
    <2>1. Snapshot(engine[w]) \in Frames /\ Snapshot(engine[w]).running
      BY <1>1, SnapshotTypes
    <2>2. ~Snapshot(engine[w]).cancelled /\ Snapshot(engine[w]).done = engine[w].done
      BY DEF Snapshot
    <2>3. engine[w].done # 0
      BY <1>1 DEF Engines
    <2> QED BY <2>1, <2>2, <2>3 DEF DeriveStatus
  <1> DEFINE f == Snapshot(engine[w])
  <1>3. f \in Frames \cup {NoFrame} /\ 0 \in 0..(MaxAttempts - 1)
    BY <1>1, SnapshotTypes
  <1>4. Turn(w, "frame", f, 0, FALSE) /\ DeriveStatus(f) = "running"
    BY <1>1, <1>2
  <1> HIDE DEF f
  <1>5. /\ op'[w]["awaited"] = op[w]["awaited"]
        /\ rec = NoRecord => op'[w]["frame"] = Over("frame", f)
        /\ rec # NoRecord => op'[w]["frame"].next.status = "running"
    BY <1>1, <1>3, <1>4, CleanTurn DEF Kinds
  <1>6. Over("frame", f).state # "sent"
    BY DEF Over, NoOp
  <1> QED BY <1>1, <1>5, <1>6 DEF Course, Polls, Ended, Sent

\* The SET that lands: the frame's leaves the record open, the awaited one ends
\* it, and the final one finds it ended.
LEMMA AppliedKeepsCourse ==
    ASSUME IInv, NEW w \in Workers, Calls(w), Course(w), SetApplied(w)
    PROVE  Course(w)'
  <1>1. at' = at /\ (rec' \in Records /\ rec' # NoRecord)
    BY Applied DEF SetApplied
  <1>2. CASE Sent(w, "frame")
    <2>1. /\ rec'.status = "running" /\ op'[w]["frame"] = NoOp
          /\ op'[w]["awaited"] = op[w]["awaited"]
          /\ at[w] = "running" \/ (at[w] = "flushing" /\ Sent(w, "awaited"))
      BY <1>2, Applied DEF Course, Calls
    <2>2. NoOp.state # "sent" /\ "running" \in Lifecycle!Open
      BY DEF NoOp, Lifecycle!Open
    <2> QED BY <1>1, <2>1, <2>2 DEF Course, Polls, Ended, Sent
  <1>3. CASE ~Sent(w, "frame")
    <2>1. /\ rec' = op[w]["awaited"].next /\ Sent(w, "awaited")
          /\ op'[w]["frame"] = op[w]["frame"]
          /\ op'[w]["awaited"] = Over("awaited", op[w]["awaited"].frame)
      BY <1>3, Applied
    <2>2. /\ Over("awaited", op[w]["awaited"].frame).state = "resolved"
          /\ Over("awaited", op[w]["awaited"].frame).frame = op[w]["awaited"].frame
      BY OpTypes DEF Over, NoOp, IInv, TypeOK, Ops, Kinds
    <2>3. at[w] \in {"flushing", "writing"} /\ rec'.status \in Ended(w)
      BY <2>1 DEF Course, Calls, Sent
    <2>4. Ended(w)' = Ended(w) /\ Sent(w, "awaited")' = FALSE /\ Sent(w, "frame")' = FALSE
      BY <1>3, <2>1, <2>2 DEF Ended, Sent
    <2> QED BY <1>1, <2>3, <2>4 DEF Course, Polls
  <1> QED BY <1>2, <1>3

\* A worker's step, with its own course kept, keeps that of the others.
LEMMA OthersKeepCourse ==
    ASSUME IInv, Lone, Chronicle, NEW w \in Workers, Worker(w), Course(w)',
           rec' = rec \/ at[w] \in Processing
    PROVE  \A v \in Workers : Course(v)'
  <1> SUFFICES ASSUME NEW v \in Workers \ {w} PROVE Course(v)'
    OBVIOUS
  <1>1. Course(v) /\ at'[v] = at[v] /\ op'[v] = op[v]
    BY OwnProcess DEF IInv, Chronicle
  <1>2. CASE rec' = rec
    BY <1>1, <1>2, CourseStays
  <1>3. CASE at[w] \in Processing
    <2>1. at[v] \notin Processing
      BY <1>3 DEF Lone, OneAtWork
    <2> QED BY <1>1, <2>1 DEF Course, Processing, Sent, Polls, Ended
  <1> QED BY <1>2, <1>3

\* The record keeps to its course as long as no command fails and no lock runs
\* out.
LEMMA DatedKeeps ==
    ASSUME ReportInv, Dated, [Next]_vars
    PROVE  Dated'
  <1> SUFFICES ASSUME blips' = 0, stalls' = 0 PROVE Chronicle'
    BY DEF Dated
  <1>1. /\ IInv /\ TypeOK /\ Started /\ Final
        /\ blips = 0 /\ stalls = 0 /\ \A w \in Workers : Calls(w)
        /\ Lone /\ Chronicle
    BY BlipsGrow, StallsGrow DEF ReportInv, IInv, Orderly, Alone, Dated
  <1>2. blips' # blips + 1 /\ stalls' # stalls + 1
    BY <1>1 DEF TypeOK
  <1>3. \A k \in Kinds : NoOp.state # "sent"
    BY DEF NoOp
  <1>4. CASE PostStores \/ PostEnqueues \/ PostRefused \/ PostLost
    <2>1. /\ UNCHANGED <<at, op>> /\ post' # "none" /\ job = "none"
          /\ \A w \in Workers : at[w] \notin Processing
      BY <1>1, <1>4 DEF PostStores, PostEnqueues, PostRefused, PostLost, Started
    <2>2. \A w \in Workers : Course(w)'
      BY <1>1, <2>1, CourseAside DEF Calls, Sent, Processing, Kinds
    <2>3. post' = "stored" \/ job' = "waiting" => Polls({"queued"})'
      BY <1>1, <1>2, <1>4 DEF PostStores, PostEnqueues, PostRefused, PostLost, queue, Started,
                              Chronicle, Polls, InitialRecord
    <2> QED BY <2>1, <2>2, <2>3 DEF Chronicle
  <1>5. CASE Expire \/ Stall \/ (\E r \in Runs : HookRun(r)) \/ UNCHANGED vars
    <2>1. /\ UNCHANGED <<at, op, post>>
          /\ rec' = rec \/ rec' = NoRecord
          /\ job' = job \/ job' = "failed"
      BY <1>2, <1>5 DEF Expire, Stall, HookRun, vars, queue
    <2>2. ASSUME NEW w \in Workers PROVE Course(w)'
      <3>1. Course(w) /\ op'[w] = op[w] /\ at'[w] = at[w]
        BY <1>1, <2>1 DEF Chronicle
      <3> QED BY <2>1, <3>1, CourseStays
    <2> QED BY <1>1, <2>1, <2>2 DEF Chronicle, Polls
  <1>6. ASSUME NEW w \in Workers, Worker(w)
        PROVE  Chronicle'
    <2>1. Calls(w) /\ Course(w)
      BY <1>1 DEF Chronicle
    <2>2. /\ post' = post /\ job' \in {job, "active", "completed"}
          /\ rec' = rec \/ SetApplied(w)
      BY <1>2, <1>6 DEF Worker, Take, Row, Emit, Settle, Write, Notify, Ack, SetFails, Retry,
                        SetApplied, Crash, Stop, Exit, Restart, Killed, queue
    <2>3. SetApplied(w) => at[w] \in {"running", "flushing", "writing"}
      BY <1>1, <2>1, Applied DEF Calls, Sent
    <2>4. post \in {"none", "stored"} \/ job' = "waiting" => ~SetApplied(w)
      BY <1>1, <2>2, <2>3 DEF Started, Processing, Lone, NobodyAtWork
    <2>5. ASSUME Course(w)' PROVE Chronicle'
      <3>1. \A v \in Workers : Course(v)'
        BY <1>1, <1>6, <2>2, <2>3, <2>5, OthersKeepCourse DEF Processing
      <3> QED BY <1>1, <2>2, <2>4, <3>1 DEF Chronicle, Polls
    <2>6. CASE Take(w)
      <3>1. Polls({"queued"}) /\ at[w] = "idle" /\ at'[w] = "running" /\ UNCHANGED <<rec, op>>
        BY <1>1, <2>6 DEF Take, Chronicle, TypeOK
      <3>2. ~Sent(w, "frame") /\ ~Sent(w, "awaited")
        BY <2>1, <3>1 DEF Calls, Sent
      <3>3. Course(w)'
        BY <3>1, <3>2 DEF Course, Sent, Polls, Lifecycle!Open
      <3> QED BY <2>5, <3>3
    <2>7. CASE Row(w)
      <3>1. UNCHANGED <<rec, op, at>>
        BY <2>7 DEF Row
      <3> QED BY <2>1, <2>5, <3>1, CourseStays
    <2>8. CASE Emit(w)
      BY <1>1, <2>1, <2>5, <2>8, EmitKeepsCourse
    <2>9. CASE Settle(w)
      <3>1. PICK f \in Frames : f = Snapshot(engine'[w])
        <4>1. engine'[w] \in Engines
          BY <1>1, <2>9 DEF Settle, TypeOK, Engines
        <4> QED BY <4>1, SnapshotTypes
      <3>2. /\ Turn(w, "awaited", f, 0, FALSE) /\ rec' = rec
            /\ at[w] = "running" /\ at'[w] = "flushing"
        BY <1>1, <2>9, <3>1 DEF Settle, TypeOK
      <3> QED BY <1>1, <2>1, <2>5, <3>2, AwaitKeepsCourse
    <2>10. CASE Write(w)
      <3>1. PICK f \in Frames : f = op[w]["awaited"].frame
        BY <1>1, <2>10 DEF Write, IInv, Holding, TypeOK
      <3>2. /\ Turn(w, "awaited", f, 0, TRUE) /\ rec' = rec
            /\ at[w] = "flushing" /\ at'[w] = "writing"
            /\ op[w]["awaited"].state = "resolved"
        BY <1>1, <2>10, <3>1 DEF Write, TypeOK
      <3> QED BY <1>1, <2>1, <2>5, <3>1, <3>2, AwaitKeepsCourse
    <2>11. CASE Notify(w)
      <3>1. /\ at[w] = "writing" /\ op[w]["awaited"].state = "resolved" /\ at'[w] = "acking"
            /\ op'[w]["awaited"] = NoOp /\ op'[w]["frame"] = op[w]["frame"]
        BY <1>1, <2>11 DEF Notify, TypeOK, Kinds
      <3>2. \A k \in Kinds : op'[w][k].state # "sent"
        BY <1>3, <2>1, <3>1 DEF Calls, Sent, Kinds
      <3> QED BY <2>5, <3>1, <3>2, CourseAside
    <2>12. CASE Ack(w) \/ Restart(w)
      <3>1. /\ at[w] \in {"acking", "off"} /\ at'[w] = "idle" /\ op' = op
        BY <1>1, <2>12 DEF Ack, Restart, TypeOK
      <3>2. \A k \in Kinds : op'[w][k].state # "sent"
        BY <2>1, <3>1 DEF Calls, Sent, Kinds
      <3> QED BY <2>5, <3>1, <3>2, CourseAside
    <2>13. CASE Crash(w) \/ Exit(w)
      <3>1. at'[w] = "off" /\ \A k \in Kinds : op'[w][k].state # "sent"
        BY <1>1, <1>3, <2>13 DEF Crash, Exit, Killed, TypeOK
      <3> QED BY <2>5, <3>1, CourseAside
    <2>14. CASE Stop(w)
      <3>1. UNCHANGED <<rec, op, at>>
        BY <2>14 DEF Stop
      <3> QED BY <2>1, <2>5, <3>1, CourseStays
    <2>15. CASE SetApplied(w)
      BY <1>1, <2>1, <2>5, <2>15, AppliedKeepsCourse
    <2>16. ~SetFails(w) /\ \A k \in Kinds : ~Retry(w, k)
      BY <1>2, <2>1 DEF SetFails, Retry, Calls, Kinds
    <2> QED BY <1>6, <2>6, <2>7, <2>8, <2>9, <2>10, <2>11, <2>12, <2>13, <2>14, <2>15, <2>16
            DEF Worker
  <1> QED BY <1>4, <1>5, <1>6 DEF Next

\* What a poll sees next, as long as no command fails and no lock runs out.
LEMMA LifecycleStep ==
    ASSUME ReportInv, Dated, [Next]_vars, blips' = 0, stalls' = 0
    PROVE  Lifecycle!Next \/ PolledStatus' = PolledStatus
  <1> USE DEF Lifecycle!Next, Lifecycle!Submit, Lifecycle!Advance, Lifecycle!Settle,
              Lifecycle!Forget, Lifecycle!Open, Lifecycle!Verdicts
  <1>1. /\ IInv /\ TypeOK /\ Started /\ Final
        /\ blips = 0 /\ stalls = 0 /\ \A w \in Workers : Calls(w)
        /\ Lone /\ Chronicle
    BY BlipsGrow, StallsGrow DEF ReportInv, IInv, Orderly, Alone, Dated
  <1>2. blips' # blips + 1 /\ stalls' # stalls + 1
    BY <1>1 DEF TypeOK
  <1>3. CASE PostStores
    <2>1. rec = NoRecord /\ post = "none" /\ rec' = InitialRecord /\ InitialRecord.status = "queued"
      BY <1>1, <1>3 DEF PostStores, Chronicle, InitialRecord
    <2>2. InitialRecord # NoRecord
      <3>1. InitialRecord \in Records
        BY DEF InitialRecord, Records, Statuses
      <3> QED BY <3>1
    <2> QED BY <2>1, <2>2 DEF PolledStatus
  <1>4. CASE PostRefused
    <2>1. post = "stored" /\ post' = "refused" /\ (rec = NoRecord \/ rec.status = "queued")
      BY <1>1, <1>4 DEF PostRefused, Chronicle, Polls
    <2>2. rec # NoRecord => WithFailure(rec) # NoRecord /\ WithFailure(rec).status = "failed"
      BY <1>1, FrameTypes DEF TypeOK, WithFailure, Records
    <2>3. rec' = rec \/ (rec # NoRecord /\ rec' = WithFailure(rec))
      BY <1>4 DEF PostRefused
    <2> QED BY <2>1, <2>2, <2>3 DEF PolledStatus
  <1>5. CASE Expire
    <2>1. rec # NoRecord /\ rec' = NoRecord /\ post # "none" /\ post' = post
      BY <1>1, <1>5 DEF Expire, Chronicle
    <2>2. rec.status \in Statuses
      BY <1>1, <2>1 DEF TypeOK, Records
    <2> QED BY <2>1, <2>2 DEF PolledStatus, Statuses
  <1>6. ASSUME NEW w \in Workers, SetApplied(w)
        PROVE  Lifecycle!Next \/ PolledStatus' = PolledStatus
    <2>1. Calls(w) /\ Course(w) /\ post' = post /\ (rec' \in Records /\ rec' # NoRecord)
      BY <1>1, <1>6, Applied DEF Chronicle, SetApplied
    <2>2. rec # NoRecord
      BY <1>1, <1>6, <2>1, Applied DEF Calls, Kinds
    <2>3. PolledStatus = rec.status /\ PolledStatus' = rec'.status
      BY <2>1, <2>2 DEF PolledStatus
    <2>4. CASE Sent(w, "frame")
      <3>1. rec'.status = "running" /\ rec.status \in {"queued", "running"}
        BY <1>1, <1>6, <2>1, <2>2, <2>4, Applied DEF Course, Calls, Polls
      <3> QED BY <2>3, <3>1
    <2>5. CASE ~Sent(w, "frame")
      <3>1. Sent(w, "awaited") /\ rec'.status \in Ended(w)
        BY <1>1, <1>6, <2>1, <2>5, Applied DEF Course
      <3>2. at[w] \in {"flushing", "writing"} /\ op[w]["awaited"].frame \in verdicts
        BY <1>1, <2>1, <3>1 DEF Calls, Sent, IInv, Holding
      <3>3. Ended(w) \subseteq {"completed", "failed", "cancelled"}
        <4>1. op[w]["awaited"].frame \in Frames /\ ~op[w]["awaited"].frame.running
          BY <1>1, <3>2 DEF TypeOK, Final
        <4> QED BY <4>1 DEF Ended, DeriveStatus
      <3>4. rec.status \in {"queued", "running"} \cup Ended(w)
        BY <2>1, <2>2, <3>1, <3>2 DEF Course, Polls
      <3>5. rec'.status = rec.status \/ rec.status \in {"queued", "running"}
        BY <3>1, <3>4 DEF Ended
      <3> QED BY <2>3, <3>1, <3>3, <3>5
    <2> QED BY <2>4, <2>5
  <1>7. CASE PostEnqueues \/ PostLost \/ Stall \/ (\E r \in Runs : HookRun(r)) \/ UNCHANGED vars
    <2>1. rec' = rec /\ ((post = "stored" /\ post' \in {"queued", "lost"}) \/ post' = post)
      BY <1>7 DEF PostEnqueues, PostLost, Stall, HookRun, vars
    <2> QED BY <2>1 DEF PolledStatus
  <1>8. ASSUME NEW w \in Workers, Worker(w), ~SetApplied(w)
        PROVE  PolledStatus' = PolledStatus
    <2>1. rec' = rec /\ post' = post
      BY <1>2, <1>8 DEF Worker, Take, Row, Emit, Settle, Write, Notify, Ack, SetFails, Retry,
                        Crash, Stop, Exit, Restart, Killed
    <2> QED BY <2>1 DEF PolledStatus
  <1> QED BY <1>3, <1>4, <1>5, <1>6, <1>7, <1>8 DEF Next

\* The record of a job in queue mode keeps what the batch API promises a client
\* that polls it, for any number of rows, workers and crashes: the frames of
\* onProgress, the one start() ends with and the final write never take the
\* status back, as long as no command fails and the job does not run again.
THEOREM QueueLifecycleFollowed == Spec => FollowsLifecycle
  <1>1. Init => Lifecycle!Init
    BY DEF Init, Lifecycle!Init, PolledStatus
  <1>2. Init => Dated
    <2> SUFFICES ASSUME Init PROVE Chronicle
      BY DEF Dated
    <2>1. ASSUME NEW w \in Workers PROVE Course(w)
      <3>1. at[w] = "idle" /\ \A k \in Kinds : op[w][k].state = "idle"
        BY DEF Init, NoOp
      <3> QED BY <3>1 DEF Course, Sent, Kinds
    <2> QED BY <2>1 DEF Init, Chronicle
  <1>3. ReportInv /\ Dated /\ [Next]_vars => Dated'
    BY DatedKeeps
  <1>4. ReportInv /\ Dated /\ [Next]_vars =>
            [blips' = 0 /\ stalls' = 0 => Lifecycle!Next]_PolledStatus
    BY LifecycleStep
  <1> QED BY <1>1, <1>2, <1>3, <1>4, InitReport, NextReport, PTL DEF Spec, FollowsLifecycle
-----------------------------------------------------------------------------
(* The engine of a run                                                      *)

Rests(w) == at[w] \in {"off", "idle"}

\* A worker that has no run has an engine that was not started.
Prepared == \A w \in Workers : /\ run[w] = 0 <=> Rests(w)
                               /\ Rests(w) => engine[w] = Fresh

\* How a step begins, advances or ends the run of a worker, or leaves it.
Turns(w) ==
    \/ UNCHANGED <<at[w], run[w], engine[w]>>
    \/ Rests(w) /\ Rests(w)' /\ UNCHANGED <<run[w], engine[w]>>
    \/ at[w] = "idle" /\ at'[w] = "running" /\ run'[w] # 0 /\ engine'[w] = engine[w]
    \/ /\ at[w] = "running" /\ at'[w] = "running" /\ run'[w] = run[w] /\ engine[w].done < Rows
       /\ \E o \in {"signed", "error", "skipped"} :
            engine'[w] = [done |-> engine[w].done + 1, running |-> engine[w].running,
                          ok  |-> IF o = "signed" THEN engine[w].ok + 1 ELSE engine[w].ok,
                          bad |-> IF o = "error" THEN engine[w].bad + 1 ELSE engine[w].bad]
    \/ /\ at[w] = "running" /\ at'[w] = "flushing" /\ run'[w] = run[w] /\ engine[w].done = Rows
       /\ engine'[w] = [engine[w] EXCEPT !.running = FALSE]
    \/ /\ at[w] \in {"flushing", "writing"} /\ at'[w] \in {"writing", "acking"}
       /\ UNCHANGED <<run[w], engine[w]>>
    \/ Rests(w)' /\ run'[w] = 0 /\ engine'[w] = Fresh

\* A step of another process, or of this one outside its engine.
LEMMA OwnTurns ==
    ASSUME IInv, NEW w \in Workers, Worker(w)
    PROVE  Turns(w)
  <1> USE DEF Turns, Rests, IInv, TypeOK
  <1>1. CASE Take(w)
    <2>1. run'[w] = stalls + 1 /\ stalls \in Nat
      BY <1>1 DEF Take
    <2> QED BY <1>1, <2>1 DEF Take
  <1>2. CASE Row(w)
    <2>1. PICK o \in Outcomes :
            engine'[w] = [done |-> engine[w].done + 1, running |-> engine[w].running,
                          ok  |-> IF o = "signed" THEN engine[w].ok + 1 ELSE engine[w].ok,
                          bad |-> IF o = "error" THEN engine[w].bad + 1 ELSE engine[w].bad]
      BY <1>2 DEF Row
    <2>2. o \in {"signed", "error", "skipped"}
      BY OutcomeAssumption
    <2> QED BY <1>2, <2>1, <2>2 DEF Row
  <1>3. CASE Settle(w)
    BY <1>3 DEF Settle
  <1>4. CASE Write(w) \/ Notify(w)
    BY <1>4 DEF Write, Notify
  <1>5. CASE Ack(w) \/ Crash(w) \/ Exit(w)
    BY <1>5 DEF Ack, Crash, Exit, Killed
  <1>6. CASE Emit(w) \/ SetApplied(w) \/ SetFails(w) \/ Stop(w) \/ \E k \in Kinds : Retry(w, k)
    BY <1>6 DEF Emit, SetApplied, SetFails, Stop, Retry
  <1>7. CASE Restart(w)
    BY <1>7 DEF Restart
  <1> QED BY <1>1, <1>2, <1>3, <1>4, <1>5, <1>6, <1>7 DEF Worker

LEMMA OthersTurns ==
    ASSUME IInv, NEW w \in Workers, Worker(w), NEW v \in Workers \ {w}
    PROVE  UNCHANGED <<at[v], run[v], engine[v]>>
  <1> USE DEF IInv, TypeOK
  <1>1. CASE Take(w) \/ Row(w) \/ Settle(w) \/ Write(w) \/ Notify(w)
    BY <1>1 DEF Take, Row, Settle, Write, Notify
  <1>2. CASE Ack(w) \/ Crash(w) \/ Exit(w) \/ Restart(w)
    BY <1>2 DEF Ack, Crash, Exit, Killed, Restart
  <1>3. CASE Emit(w) \/ SetApplied(w) \/ SetFails(w) \/ Stop(w) \/ \E k \in Kinds : Retry(w, k)
    BY <1>3 DEF Emit, SetApplied, SetFails, Stop, Retry
  <1> QED BY <1>1, <1>2, <1>3 DEF Worker

LEMMA EachTurns ==
    ASSUME IInv, [Next]_vars, NEW w \in Workers
    PROVE  Turns(w)
  <1>1. CASE \E v \in Workers : Worker(v)
    BY <1>1, OwnTurns, OthersTurns DEF Turns
  <1>2. CASE ~\E v \in Workers : Worker(v)
    <2>1. UNCHANGED <<at, run, engine>>
      BY <1>2 DEF Next, vars, PostStores, PostEnqueues, PostRefused, PostLost, HookRun, Stall, Expire
    <2> QED BY <2>1 DEF Turns
  <1> QED BY <1>1, <1>2

LEMMA PreparedStep == IInv /\ Prepared /\ [Next]_vars => Prepared'
  <1> SUFFICES ASSUME IInv, Prepared, [Next]_vars, NEW w \in Workers
               PROVE  /\ run'[w] = 0 <=> Rests(w)'
                      /\ Rests(w)' => engine'[w] = Fresh
    BY DEF Prepared
  <1>1. Turns(w) /\ (run[w] = 0 <=> Rests(w)) /\ (Rests(w) => engine[w] = Fresh)
    BY EachTurns DEF Prepared
  <1> QED BY <1>1 DEF Turns, Rests

-----------------------------------------------------------------------------
(* What a run announces                                                     *)

\* How many runs of the job have begun.
Taken == stalls + (IF job \in {"none", "waiting"} THEN 0 ELSE 1)

\* No two workers are in the same run, also when one of them lost its lock.
Numbered ==
    /\ \A w \in Workers : run[w] <= Taken
    /\ \A v, w \in Workers : run[v] = run[w] /\ run[w] # 0 => v = w

\* A run that queued its webhook does nothing any more but return.
Announced ==
    \A r \in Runs : hook[r].state # "none" =>
        r <= Taken /\ \A w \in Workers : run[w] = r => at[w] = "acking"

\* What a webhook job says does not change, and it is done once.
Announces ==
    \A r \in Runs : hook[r].state # "none" =>
        /\ hook'[r].state # "none" /\ hook'[r].frame = hook[r].frame
        /\ hook[r].state # "waiting" => hook'[r] = hook[r]

LEMMA TakenGrows ==
    ASSUME TypeOK, Started, [Next]_vars
    PROVE  /\ Taken \in Nat /\ Taken' \in Nat /\ Taken <= Taken'
           /\ (\E w \in Workers : Take(w)) => Taken = stalls /\ Taken' = stalls + 1
  <1> USE DEF Taken, TypeOK, queue
  <1>1. CASE PostStores \/ PostEnqueues \/ PostRefused \/ PostLost
    BY <1>1 DEF PostStores, PostEnqueues, PostRefused, PostLost, Take, Started
  <1>2. CASE (\E r \in Runs : HookRun(r)) \/ Expire \/ UNCHANGED vars
    BY <1>2 DEF HookRun, Expire, Take, vars
  <1>3. CASE Stall
    BY <1>3 DEF Stall, Take, Started
  <1>4. ASSUME NEW w \in Workers, Worker(w)
        PROVE  /\ Taken \in Nat /\ Taken' \in Nat /\ Taken <= Taken'
               /\ (\E v \in Workers : Take(v)) => Taken = stalls /\ Taken' = stalls + 1
    <2>1. CASE \E v \in Workers : Take(v)
      BY <2>1 DEF Take
    <2>2. CASE Ack(w) /\ ~\E v \in Workers : Take(v)
      BY <2>2, WorkerAssumption DEF Ack, Started
    <2>3. CASE /\ ~\E v \in Workers : Take(v)
               /\ \/ Row(w) \/ Emit(w) \/ Settle(w) \/ Write(w) \/ Notify(w) \/ \E k \in Kinds : Retry(w, k)
                  \/ SetApplied(w) \/ SetFails(w) \/ Stop(w) \/ Crash(w) \/ Exit(w) \/ Restart(w)
      <3>1. UNCHANGED <<job, stalls>>
        BY <2>3 DEF Row, Emit, Settle, Write, Notify, Retry, SetApplied, SetFails, Stop, Crash,
                    Exit, Killed, Restart
      <3> QED BY <3>1, <2>3
    <2> QED BY <1>4, <2>1, <2>2, <2>3 DEF Worker
  <1> QED BY <1>1, <1>2, <1>3, <1>4 DEF Next

\* Only a processor that takes the job begins a run.
LEMMA RunsEnd ==
    ASSUME IInv, [Next]_vars, NEW w \in Workers
    PROVE  \/ run'[w] \in {run[w], 0}
           \/ Take(w) /\ run' = [run EXCEPT ![w] = stalls + 1] /\ hook' = hook
  <1> USE DEF IInv, TypeOK, queue
  <1>1. ASSUME NEW v \in Workers, Worker(v)
        PROVE  \/ run'[w] \in {run[w], 0}
               \/ Take(w) /\ run' = [run EXCEPT ![w] = stalls + 1] /\ hook' = hook
    <2>1. CASE Take(v)
      BY <2>1 DEF Take
    <2>2. CASE Ack(v) \/ Crash(v) \/ Exit(v)
      BY <2>2 DEF Ack, Crash, Exit, Killed
    <2>3. CASE \/ Row(v) \/ Emit(v) \/ Settle(v) \/ Write(v) \/ Notify(v) \/ \E k \in Kinds : Retry(v, k)
               \/ SetApplied(v) \/ SetFails(v) \/ Stop(v) \/ Restart(v)
      <3>1. run' = run
        BY <2>3 DEF Row, Emit, Settle, Write, Notify, Retry, SetApplied, SetFails, Stop, Restart
      <3> QED BY <3>1
    <2> QED BY <1>1, <2>1, <2>2, <2>3 DEF Worker
  <1>2. CASE ~\E v \in Workers : Worker(v)
    <2>1. run' = run
      BY <1>2 DEF Next, vars, PostStores, PostEnqueues, PostRefused, PostLost, HookRun, Stall, Expire
    <2> QED BY <2>1
  <1> QED BY <1>1, <1>2

\* The webhook job of the run of w.
HookOf(w) == Hook("waiting", op[w]["awaited"].frame)

\* Webhook jobs are queued by the worker in the run, and run by BullMQ.
LEMMA HooksChange ==
    ASSUME TypeOK, [Next]_vars
    PROVE  \/ hook' = hook
           \/ \E w \in Workers : Notify(w) /\ hook' = [hook EXCEPT ![run[w]] = HookOf(w)]
           \/ \E r \in Runs : HookRun(r)
  <1>1. ASSUME NEW w \in Workers, Worker(w)
        PROVE  \/ hook' = hook
               \/ Notify(w) /\ hook' = [hook EXCEPT ![run[w]] = HookOf(w)]
    <2>1. CASE Notify(w)
      BY <2>1 DEF Notify, HookOf
    <2>2. CASE \/ Take(w) \/ Ack(w) \/ Crash(w) \/ Exit(w) \/ Stop(w) \/ Restart(w)
               \/ Row(w) \/ Emit(w) \/ Settle(w) \/ Write(w) \/ \E k \in Kinds : Retry(w, k)
               \/ SetApplied(w) \/ SetFails(w)
      BY <2>2 DEF Take, Ack, Crash, Exit, Killed, Stop, Restart, Row, Emit, Settle, Write, Retry,
                  SetApplied, SetFails
    <2> QED BY <1>1, <2>1, <2>2 DEF Worker
  <1>2. CASE ~\E w \in Workers : Worker(w)
    BY <1>2 DEF Next, vars, PostStores, PostEnqueues, PostRefused, PostLost, Stall, Expire
  <1> QED BY <1>1, <1>2

\* What BullMQ does with a webhook job.
LEMMA HookRuns ==
    ASSUME TypeOK, NEW r \in Runs, HookRun(r)
    PROVE  /\ hook[r].state = "waiting" /\ hook'[r].state # "none"
           /\ hook'[r].frame = hook[r].frame
           /\ \A s \in Runs \ {r} : hook'[s] = hook[s]
  <1>1. hook[r] \in Hooks /\ hook \in [Runs -> Hooks]
    BY DEF TypeOK
  <1>2. PICK h : hook' = [hook EXCEPT ![r] = h]
                 /\ h \in {Hook("delivered", hook[r].frame), Hook("dead", hook[r].frame),
                           [hook[r] EXCEPT !.attempt = @ + 1], [hook[r] EXCEPT !.stalls = @ + 1]}
    BY <1>1 DEF HookRun
  <1>3. hook[r].state = "waiting"
    BY DEF HookRun
  <1>4. h.state # "none" /\ h.frame = hook[r].frame
    BY <1>1, <1>2, <1>3 DEF Hook, Hooks
  <1> QED BY <1>1, <1>2, <1>3, <1>4

LEMMA NumberedStep ==
    ASSUME IInv, Started, Numbered, [Next]_vars
    PROVE  Numbered'
  <1>1. Taken \in Nat /\ Taken' \in Nat /\ Taken <= Taken'
    BY TakenGrows DEF IInv
  <1>2. \A w \in Workers : run[w] \in Nat /\ run[w] <= Taken
    BY DEF Numbered, IInv, TypeOK
  <1>3. CASE \E w \in Workers : Take(w) /\ run' = [run EXCEPT ![w] = stalls + 1]
    <2>1. PICK w \in Workers : Take(w) /\ run' = [run EXCEPT ![w] = stalls + 1]
      BY <1>3
    <2>2. Taken = stalls /\ Taken' = stalls + 1
      BY <2>1, TakenGrows DEF IInv
    <2>3. run'[w] = Taken' /\ \A v \in Workers \ {w} : run'[v] = run[v] /\ run'[v] < Taken'
      BY <1>1, <1>2, <2>1, <2>2 DEF IInv, TypeOK
    <2>4. ASSUME NEW v \in Workers PROVE run'[v] <= Taken'
      <3>1. CASE v = w
        BY <1>1, <2>3, <3>1
      <3>2. CASE v # w
        BY <1>1, <1>2, <2>2, <2>3, <3>2
      <3> QED BY <3>1, <3>2
    <2>5. ASSUME NEW u \in Workers, NEW v \in Workers, run'[u] = run'[v], run'[u] # 0
          PROVE  u = v
      <3>1. CASE u = w \/ v = w
        BY <1>1, <1>2, <2>3, <2>5, <3>1
      <3>2. CASE u # w /\ v # w
        BY <2>3, <2>5, <3>2 DEF Numbered
      <3> QED BY <3>1, <3>2
    <2> QED BY <2>4, <2>5 DEF Numbered
  <1>4. CASE \A w \in Workers : run'[w] \in {run[w], 0}
    <2>1. \A w \in Workers : run'[w] <= Taken'
      BY <1>1, <1>2, <1>4
    <2> QED BY <2>1, <1>4 DEF Numbered
  <1> QED BY <1>3, <1>4, RunsEnd

LEMMA AnnouncedStep ==
    ASSUME IInv, Started, Prepared, Numbered, Announced, [Next]_vars
    PROVE  Announced' /\ Announces
  <1> USE DEF Runs
  <1>1. /\ Taken \in Nat /\ Taken' \in Nat /\ Taken <= Taken'
        /\ \A w \in Workers : run[w] \in 0..(MaxStalls + 1) /\ run[w] <= Taken
    BY TakenGrows DEF IInv, TypeOK, Numbered
  \* Runs that announced stay as they are.
  <1>2. ASSUME NEW r \in Runs, hook[r].state # "none"
        PROVE  r <= Taken' /\ \A w \in Workers : run'[w] = r => at'[w] = "acking"
    <2>1. r <= Taken /\ r # 0 /\ \A w \in Workers : run[w] = r => at[w] = "acking"
      BY <1>2 DEF Announced
    <2>2. ASSUME NEW w \in Workers, run'[w] = r PROVE at'[w] = "acking"
      <3>1. run[w] = r
        <4>1. ASSUME Take(w), run' = [run EXCEPT ![w] = stalls + 1] PROVE FALSE
          <5>1. Taken = stalls
            BY <4>1, TakenGrows DEF IInv
          <5>2. run'[w] = stalls + 1
            BY <4>1 DEF IInv, TypeOK
          <5> QED BY <1>1, <2>1, <2>2, <5>1, <5>2
        <4> QED BY <4>1, <2>1, <2>2, RunsEnd
      <3>2. at[w] = "acking"
        BY <3>1, <2>1
      <3>3. Turns(w)
        BY EachTurns
      <3> QED BY <2>1, <2>2, <3>2, <3>3 DEF Turns, Rests
    <2> QED BY <1>1, <2>1, <2>2
  <1>3. CASE hook' = hook
    BY <1>2, <1>3 DEF Announced, Announces
  <1>4. ASSUME NEW w \in Workers, Notify(w), hook' = [hook EXCEPT ![run[w]] = HookOf(w)]
        PROVE  Announced' /\ Announces
    <2>1. at[w] = "writing" /\ at'[w] = "acking" /\ run' = run
      BY <1>4 DEF Notify, IInv, TypeOK
    <2>2. run[w] # 0 /\ run[w] \in Runs
      BY <1>1, <2>1 DEF Prepared, Rests
    <2>3. hook[run[w]].state = "none"
      BY <2>1, <2>2 DEF Announced
    <2>4. \A s \in Runs : s # run[w] => hook'[s] = hook[s]
      BY <1>4 DEF IInv, TypeOK
    <2>5. run[w] <= Taken' /\ \A v \in Workers : run'[v] = run[w] => at'[v] = "acking"
      BY <1>1, <2>1, <2>2 DEF Numbered
    <2> QED BY <1>2, <2>3, <2>4, <2>5 DEF Announced, Announces
  <1>5. ASSUME NEW r \in Runs, HookRun(r)
        PROVE  Announced' /\ Announces
    <2>1. /\ hook[r].state = "waiting" /\ hook'[r].state # "none" /\ hook'[r].frame = hook[r].frame
          /\ \A s \in Runs \ {r} : hook'[s] = hook[s]
      BY <1>5, HookRuns DEF IInv
    <2> QED BY <1>2, <2>1 DEF Announced, Announces
  <1> QED BY <1>3, <1>4, <1>5, HooksChange DEF IInv

(* However often the lock runs out: no two workers are in the same run, a   *)
(* run queues its webhook once, what the webhook says does not change while *)
(* it is retried, and one that was delivered or given up is not sent again  *)
(* (queue/worker.ts, batch worker and webhook worker).                      *)
THEOREM RunsAnnounceOnce ==
    Spec => [](\A v, w \in Workers : run[v] = run[w] /\ run[w] # 0 => v = w) /\ [][Announces]_vars
  <1>1. Init => Prepared /\ Numbered /\ Announced
    <2> SUFFICES ASSUME Init PROVE Prepared /\ Numbered /\ Announced
      OBVIOUS
    <2>1. NoHook.state = "none"
      BY DEF NoHook, Hook
    <2> QED BY <2>1 DEF Init, Prepared, Rests, Numbered, Announced, Taken
  <1>2. ReportInv /\ Prepared /\ Numbered /\ Announced /\ [Next]_vars
          => Prepared' /\ Numbered' /\ Announced' /\ [Announces]_vars
    BY PreparedStep, NumberedStep, AnnouncedStep DEF ReportInv
  <1>3. Numbered => \A v, w \in Workers : run[v] = run[w] /\ run[w] # 0 => v = w
    BY DEF Numbered
  <1> QED BY <1>1, <1>2, <1>3, InitReport, NextReport, PTL DEF Spec
=============================================================================
