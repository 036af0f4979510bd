------------------------- MODULE InlineBatchProofs -------------------------
(***************************************************************************)
(* For every number of rows, of ticks and polls in flight and of attempts, *)
(* for both stores and whatever fails: the state is well-typed, no record  *)
(* claims an outcome the engine does not have, and a finished frame holds  *)
(* the engine's counts.  With the memory store, besides: an ended batch    *)
(* has a terminal record, progress never falls, and the polled status      *)
(* takes only the lifecycle's steps.                                       *)
(*                                                                         *)
(* The first invariant, IInv, is about every copy of a record, not only    *)
(* the stored one: a SET that is on the connection, and a frame a retry    *)
(* will push again, were computed from an older state and land in a newer  *)
(* one.  The second, MemoryInv, says that the memory store has no such     *)
(* copies, so that the record and the engine move together.                *)
(***************************************************************************)
EXTENDS InlineBatch, TLAPS

Over(e) == e.state \in {"settled", "rejected"}

\* A frame that is not running is the final one of an engine that settled.
HonestFrame(f, e) ==
    f # NoFrame /\ ~f.running =>
        /\ Over(e) /\ f.done <= e.done
        /\ e.state = "settled" => f.done = e.done /\ f.ok = e.ok /\ f.bad = e.bad

\* A record that claims an outcome, or carries a final frame, is entitled to.
Honest(r, e) ==
    r # NoRecord =>
        /\ r.status \in {"completed", "failed"} => Over(e)
        /\ HonestFrame(r.progress, e)

\* Every row is counted once.
Counted == engine.ok + engine.bad <= engine.done

Copies == \A w \in Writers : Honest(op[w].next, engine) /\ HonestFrame(op[w].frame, engine)

\* The completion handler runs after the engine, and polls find a started one.
Handlers ==
    /\ op[Final].state # "idle" => Over(engine)
    /\ \A i \in 1..Len(wire) : wire[i] = Final => Over(engine)
    /\ post = "started" <=> engine.state # "idle"
    /\ local => post = "started"

IInv == TypeOK /\ Counted /\ Honest(rec, engine) /\ Copies /\ Handlers

USE RowsAssumption, NoFrameAssumption, NoRecordAssumption, AttemptsAssumption,
    FlagsAssumption

----------------------------------------------------------------------------
(* What a frame and a mutator produce. *)

LEMMA DeriveStatusType ==
  ASSUME NEW f \in Frames \cup {NoFrame}
  PROVE  DeriveStatus(f) \in Statuses
BY DEF DeriveStatus, Statuses

\* A frame stands for an outcome only if it is there and not running.
LEMMA DeriveStatusOutcome ==
  ASSUME NEW f \in Frames \cup {NoFrame}, DeriveStatus(f) \in {"completed", "failed"}
  PROVE  f # NoFrame /\ ~f.running
BY DEF DeriveStatus, Frames

LEMMA MutateType ==
  ASSUME NEW w \in Writers, NEW cur \in Records, NEW f \in Frames \cup {NoFrame}
  PROVE  Mutate(w, cur, f) \in Records \cup {NoRecord}
<1>1. WithBeat(cur) \in Records \cup {NoRecord}
  BY DEF WithBeat
<1>2. WithFrame(cur, f) \in Records
  BY DeriveStatusType DEF WithFrame, Records
<1>3. WithResult(cur, f) \in Records
  BY <1>2 DEF WithResult, Records
<1>4. WithFailure(cur) \in Records
  BY DEF WithFailure, Records, Statuses
<1>5. WithInterrupt(cur) \in Records
  BY DEF WithInterrupt, Records, Statuses
<1>6. QED
  BY <1>1, <1>2, <1>3, <1>4, <1>5 DEF Mutate

\* A mutator applied to an honest record and an honest frame is honest, given
\* that the failure arm only runs after the engine.
LEMMA MutateHonest ==
  ASSUME NEW w \in Writers, NEW cur \in Records, NEW f \in Frames \cup {NoFrame}, NEW e,
         Honest(cur, e), HonestFrame(f, e), w = Final => Over(e)
  PROVE  Honest(Mutate(w, cur, f), e)
<1>1. Honest(WithBeat(cur), e)
  BY DEF WithBeat, Honest
<1>2. Honest(WithFrame(cur, f), e)
  <2>1. WithFrame(cur, f).status = DeriveStatus(f) /\ WithFrame(cur, f).progress = f
    BY DEF WithFrame, Records
  <2>2. DeriveStatus(f) \in {"completed", "failed"} => Over(e)
    BY DeriveStatusOutcome DEF HonestFrame
  <2>3. QED
    BY <2>1, <2>2 DEF Honest
<1>3. Honest(WithResult(cur, f), e)
  <2>1. /\ WithResult(cur, f).status = WithFrame(cur, f).status
        /\ WithResult(cur, f).progress = WithFrame(cur, f).progress
    BY DEF WithResult, WithFrame, Records
  <2>2. WithFrame(cur, f) # NoRecord
    BY DeriveStatusType DEF WithFrame, Records
  <2>3. QED
    BY <1>2, <2>1, <2>2 DEF Honest
<1>4. Over(e) => Honest(WithFailure(cur), e)
  <2>1. WithFailure(cur).progress = cur.progress
    BY DEF WithFailure, Records
  <2>2. QED
    BY <2>1 DEF Honest
<1>5. Honest(WithInterrupt(cur), e)
  <2>1. CASE cur.status \in {"completed", "failed", "cancelled"}
    BY <2>1 DEF WithInterrupt
  <2>2. CASE cur.status \notin {"completed", "failed", "cancelled"}
    <3>1. /\ WithInterrupt(cur).status = "interrupted"
          /\ WithInterrupt(cur).progress = cur.progress
      BY <2>2 DEF WithInterrupt, Records
    <3>2. QED
      BY <3>1 DEF Honest
  <2>3. QED
    BY <2>1, <2>2
<1>6. QED
  BY <1>1, <1>2, <1>3, <1>4, <1>5, WritersAssumption DEF Mutate, Writers

LEMMA FinishedType ==
  ASSUME NEW w \in Writers, NEW f \in Frames \cup {NoFrame}
  PROVE  /\ Finished(w, f) \in Ops
         /\ Finished(w, f).next = NoRecord
         /\ Finished(w, f).frame \in {f, NoFrame}
<1>1. IdleOp \in Ops /\ IdleOp.next = NoRecord /\ IdleOp.frame = NoFrame
  <2>1. 0 \in 0..(MaxAttempts - 1)
    OBVIOUS
  <2>2. QED
    BY <2>1 DEF IdleOp, Ops, OpStates
<1>2. [IdleOp EXCEPT !.state = "resolved", !.frame = f] \in Ops
  BY <1>1 DEF Ops, OpStates
<1>3. QED
  BY <1>1, <1>2 DEF Finished, IdleOp

LEMMA BackoffType ==
  ASSUME NEW o \in Ops, o.tries + 1 # MaxAttempts
  PROVE  [state |-> "backoff", frame |-> o.frame,
          next |-> NoRecord, tries |-> o.tries + 1] \in Ops
<1>1. o.tries \in 0..(MaxAttempts - 1) /\ o.frame \in Frames \cup {NoFrame}
  BY DEF Ops
<1>2. o.tries + 1 \in 0..(MaxAttempts - 1)
  BY <1>1
<1>3. QED
  BY <1>1, <1>2 DEF Ops, OpStates

----------------------------------------------------------------------------
(* One turn of the update loop. *)

LEMMA TurnType ==
  ASSUME TypeOK, NEW w \in Writers, NEW f \in Frames \cup {NoFrame},
         NEW t \in 0..(MaxAttempts - 1), Turn(w, f, t)
  PROVE  /\ rec' \in Records \cup {NoRecord}
         /\ op' \in [Writers -> Ops]
         /\ wire' \in Seq(Writers)
<1> DEFINE next == IF phase = "closed" \/ rec = NoRecord THEN NoRecord
                   ELSE Mutate(w, rec, f)
<1>1. next \in Records \cup {NoRecord}
  BY MutateType DEF TypeOK
<1>2. CASE op' = [op EXCEPT ![w] = Finished(w, f)] /\ rec' \in {rec, next} /\ UNCHANGED wire
  BY <1>1, <1>2, FinishedType DEF TypeOK
<1>3. CASE /\ op' = [op EXCEPT ![w] = [state |-> "sent", frame |-> f,
                                       next |-> next, tries |-> t]]
           /\ wire' = Append(wire, w)
           /\ UNCHANGED rec
  BY <1>1, <1>3 DEF TypeOK, Ops, OpStates
<1>4. QED
  BY <1>2, <1>3 DEF Turn

\* What a turn leaves behind, in terms of the state it found: the record is the
\* old one or the mutated one, and only the caller's update is touched.
LEMMA TurnShape ==
  ASSUME TypeOK, NEW w \in Writers, NEW f \in Frames \cup {NoFrame},
         NEW t \in 0..(MaxAttempts - 1), Turn(w, f, t)
  PROVE  /\ \/ rec' = rec
            \/ rec # NoRecord /\ rec' = Mutate(w, rec, f)
         /\ \A v \in Writers \ {w} : op'[v] = op[v]
         /\ op'[w].frame \in {f, NoFrame}
         /\ \/ op'[w].next = NoRecord
            \/ rec # NoRecord /\ op'[w].next = Mutate(w, rec, f)
BY FinishedType DEF Turn, TypeOK

----------------------------------------------------------------------------
(* Type correctness. *)

LEMMA InitType == Init => TypeOK /\ Counted
<1> SUFFICES ASSUME Init PROVE TypeOK /\ Counted
  OBVIOUS
<1>1. IdleOp \in Ops
  <2>1. 0 \in 0..(MaxAttempts - 1)
    OBVIOUS
  <2>2. QED
    BY <2>1 DEF IdleOp, Ops, OpStates
<1>2. engine \in Engines
  BY DEF Init, Engines, EngineStates
<1>3. wire \in Seq(Writers)
  BY DEF Init
<1>4. Counted
  BY DEF Init, Counted
<1>5. QED
  BY <1>1, <1>2, <1>3, <1>4 DEF Init, TypeOK, Phases

LEMMA SnapshotType ==
  ASSUME NEW e \in Engines
  PROVE  Snapshot(e) \in Frames
BY DEF Snapshot, Engines, Frames

LEMMA RowCounted ==
  ASSUME TypeOK, Counted, EngineRow
  PROVE  /\ engine' \in Engines /\ Counted'
         /\ engine'.done = engine.done + 1 /\ engine'.state = engine.state
<1> DEFINE e == engine
<1>1. /\ e \in Engines /\ e.done \in 0..Rows /\ e.ok \in 0..Rows /\ e.bad \in 0..Rows
      /\ e.done + 1 \in 0..Rows
  BY DEF TypeOK, Engines, EngineRow
<1>2. CASE engine' = [e EXCEPT !.done = @ + 1, !.ok = @ + 1]
  <2>1. e.ok + 1 \in 0..Rows
    BY <1>1 DEF Counted
  <2>2. /\ engine' = [state |-> e.state, done |-> e.done + 1, ok |-> e.ok + 1,
                      bad |-> e.bad, cancelled |-> e.cancelled]
    BY <1>1, <1>2 DEF Engines
  <2>3. engine' \in Engines
    BY <1>1, <2>1, <2>2 DEF Engines
  <2>4. QED
    BY <1>1, <2>2, <2>3 DEF Counted
<1>3. CASE engine' = [e EXCEPT !.done = @ + 1, !.bad = @ + 1]
  <2>1. e.bad + 1 \in 0..Rows
    BY <1>1 DEF Counted
  <2>2. /\ engine' = [state |-> e.state, done |-> e.done + 1, ok |-> e.ok,
                      bad |-> e.bad + 1, cancelled |-> e.cancelled]
    BY <1>1, <1>3 DEF Engines
  <2>3. engine' \in Engines
    BY <1>1, <2>1, <2>2 DEF Engines
  <2>4. QED
    BY <1>1, <2>2, <2>3 DEF Counted
<1>4. CASE engine' = [e EXCEPT !.done = @ + 1]
  <2>1. /\ engine' = [state |-> e.state, done |-> e.done + 1, ok |-> e.ok,
                      bad |-> e.bad, cancelled |-> e.cancelled]
    BY <1>1, <1>4 DEF Engines
  <2>2. engine' \in Engines
    BY <1>1, <2>1 DEF Engines
  <2>3. QED
    BY <1>1, <2>1, <2>2 DEF Counted
<1>5. QED
  BY <1>2, <1>3, <1>4 DEF EngineRow

LEMMA StepCounted == TypeOK /\ Counted /\ [Next]_vars => Counted'
<1> SUFFICES ASSUME TypeOK, Counted, [Next]_vars PROVE Counted'
  OBVIOUS
<1> USE DEF TypeOK, Counted, Engines
<1>1. CASE EngineRow
  BY <1>1, RowCounted
<1>2. CASE PostStarts \/ EngineEnds \/ BeginShutdown
  <2>1. /\ engine'.done = engine.done
        /\ engine'.ok = engine.ok
        /\ engine'.bad = engine.bad
    BY <1>2 DEF PostStarts, EngineEnds, BeginShutdown
  <2>2. QED
    BY <2>1
<1>3. CASE UNCHANGED engine
  BY <1>3
<1>4. QED
  BY <1>1, <1>2, <1>3 DEF Next, vars, PostStores, Cleanup, Beat, Sync, Retry,
     SetApplied, SetFails, EndFinalize, CloseStore, Exit, Crash, Expire

LEMMA StepType == TypeOK /\ Counted /\ [Next]_vars => TypeOK'
<1> SUFFICES ASSUME TypeOK, Counted, [Next]_vars PROVE TypeOK'
  OBVIOUS
<1> USE DEF TypeOK
<1>0. IdleOp \in Ops /\ Final \in Writers /\ Shutdown \in Writers /\ 0 \in 0..(MaxAttempts - 1)
  <2>1. 0 \in 0..(MaxAttempts - 1)
    OBVIOUS
  <2>2. QED
    BY <2>1 DEF IdleOp, Ops, OpStates, Writers
<1>1. CASE PostStores
  <2>1. InitialRecord \in Records
    BY DEF InitialRecord, Records, Statuses
  <2>2. QED
    BY <1>1, <2>1 DEF PostStores
<1>2. CASE PostStarts
  BY <1>2 DEF PostStarts, Engines, EngineStates
<1>3. CASE EngineRow
  <2>1. engine' \in Engines
    BY <1>3, RowCounted
  <2>2. QED
    BY <1>3, <2>1 DEF EngineRow
<1>4. CASE EngineEnds
  <2>1. PICK f \in Frames \cup {NoFrame} : Turn(Final, f, 0)
    BY <1>4, SnapshotType DEF EngineEnds, Engines, EngineStates
  <2>2. engine' \in Engines
    BY <1>4 DEF EngineEnds, Engines, EngineStates
  <2>3. QED
    BY <1>0, <1>4, <2>1, <2>2, TurnType DEF EngineEnds
<1>5. CASE Cleanup
  BY <1>0, <1>5 DEF Cleanup
<1>6. ASSUME NEW b \in Beats, Beat(b) PROVE TypeOK'
  BY <1>0, <1>6, TurnType DEF Beat, Writers
<1>7. ASSUME NEW s \in Syncs, Sync(s) PROVE TypeOK'
  <2>1. Snapshot(engine) \in Frames
    BY SnapshotType
  <2>2. QED
    BY <1>0, <1>7, <2>1, TurnType DEF Sync, Writers
<1>8. ASSUME NEW w \in Writers, Retry(w) PROVE TypeOK'
  <2>1. op[w].frame \in Frames \cup {NoFrame} /\ op[w].tries \in 0..(MaxAttempts - 1)
    BY DEF Ops
  <2>2. QED
    BY <1>8, <2>1, TurnType DEF Retry
<1>9. CASE SetApplied
  <2>1. Head(wire) \in Writers /\ Tail(wire) \in Seq(Writers)
    BY <1>9 DEF SetApplied
  <2>2. op[Head(wire)].next \in Records \cup {NoRecord}
        /\ op[Head(wire)].frame \in Frames \cup {NoFrame}
    BY <2>1 DEF Ops
  <2>3. QED
    BY <1>9, <2>1, <2>2, FinishedType DEF SetApplied
<1>10. CASE SetFails
  <2> DEFINE w == Head(wire)
  <2>1. w \in Writers /\ Tail(wire) \in Seq(Writers)
    BY <1>10 DEF SetFails
  <2>2. op[w] \in Ops
    BY <2>1
  <2>3. op[w].next \in Records \cup {NoRecord} /\ op[w].frame \in Frames \cup {NoFrame}
    BY <2>2 DEF Ops
  <2>4. CASE op[w].tries + 1 = MaxAttempts
    BY <1>10, <2>1, <2>3, <2>4, FinishedType DEF SetFails
  <2>5. CASE op[w].tries + 1 # MaxAttempts
    <3> DEFINE again == [state |-> "backoff", frame |-> op[w].frame,
                         next |-> NoRecord, tries |-> op[w].tries + 1]
    <3>1. again \in Ops
      BY <2>2, <2>5, BackoffType
    <3>2. op' = [op EXCEPT ![w] = again]
      BY <1>10, <2>5 DEF SetFails
    <3> HIDE DEF again, w
    <3>3. op' \in [Writers -> Ops]
      BY <2>1, <3>1, <3>2
    <3>4. QED
      BY <1>10, <2>1, <2>3, <3>3 DEF SetFails, w
  <2>6. QED
    BY <2>4, <2>5
<1>11. CASE BeginShutdown
  <2>1. CASE local
    <3>1. Turn(Shutdown, NoFrame, 0)
      BY <1>11, <2>1 DEF BeginShutdown
    <3>2. QED
      BY <1>0, <1>11, <2>1, <3>1, TurnType DEF BeginShutdown, Phases, Engines
  <2>2. CASE ~local
    BY <1>11, <2>2 DEF BeginShutdown, Phases
  <2>3. QED
    BY <2>1, <2>2
<1>12. CASE EndFinalize
  BY <1>0, <1>12 DEF EndFinalize, Phases
<1>13. CASE CloseStore
  BY <1>13 DEF CloseStore, Phases
<1>14. CASE Exit
  BY <1>0, <1>14 DEF Exit, Phases
<1>15. CASE Crash
  <2>1. wire' \in Seq(Writers)
    BY <1>15 DEF Crash
  <2>2. QED
    BY <1>0, <1>15, <2>1 DEF Crash, Phases
<1>16. CASE Expire
  BY <1>16 DEF Expire
<1>17. CASE UNCHANGED vars
  BY <1>17 DEF vars
<1>18. QED
  BY <1>1, <1>2, <1>3, <1>4, <1>5, <1>6, <1>7, <1>8, <1>9, <1>10, <1>11, <1>12,
     <1>13, <1>14, <1>15, <1>16, <1>17 DEF Next

(* The state is well-typed; in particular no update is attempted more than *)
(* MaxAttempts times.                                                      *)
THEOREM TypeCorrect == Spec => []TypeOK
<1>1. TypeOK /\ Counted /\ [Next]_vars => (TypeOK /\ Counted)'
  BY StepType, StepCounted
<1>2. QED
  BY InitType, <1>1, PTL DEF Spec

----------------------------------------------------------------------------
(* Honesty. *)

\* The engine's end never changes, nor do the counts of one that settled.
EngineKept ==
    /\ engine.done \in Nat /\ engine'.done \in Nat
    /\ Over(engine) =>
         /\ engine'.state = engine.state
         /\ engine'.done >= engine.done
         /\ engine.state = "settled" =>
               /\ engine'.done = engine.done
               /\ engine'.ok = engine.ok
               /\ engine'.bad = engine.bad

\* So what was honest stays honest.
LEMMA HonestKept ==
  ASSUME EngineKept
  PROVE  /\ \A f \in Frames \cup {NoFrame} :
                HonestFrame(f, engine) => HonestFrame(f, engine')
         /\ \A r \in Records \cup {NoRecord} :
                Honest(r, engine) => Honest(r, engine')
<1>1. Over(engine) => Over(engine')
  BY DEF EngineKept, Over
<1>2. ASSUME NEW f \in Frames \cup {NoFrame}, HonestFrame(f, engine)
      PROVE  HonestFrame(f, engine')
  <2>1. f # NoFrame => f.done \in Nat
    BY DEF Frames
  <2>2. QED
    BY <1>1, <1>2, <2>1 DEF EngineKept, HonestFrame, Over
<1>3. ASSUME NEW r \in Records \cup {NoRecord}, Honest(r, engine)
      PROVE  Honest(r, engine')
  <2>1. r # NoRecord => r.progress \in Frames \cup {NoFrame}
    BY DEF Records
  <2>2. QED
    BY <1>1, <1>2, <1>3, <2>1 DEF Honest
<1>4. QED
  BY <1>2, <1>3

LEMMA StepEngineKept == IInv /\ [Next]_vars => EngineKept
<1> SUFFICES ASSUME IInv, [Next]_vars PROVE EngineKept
  OBVIOUS
<1> USE DEF IInv, TypeOK, Engines, EngineKept, Over
<1>1. CASE PostStarts
  BY <1>1 DEF PostStarts, Handlers
<1>2. CASE EngineRow
  <2>1. engine'.state = engine.state /\ engine.state # "settled"
    BY <1>2, RowCounted DEF EngineRow
  <2>2. engine.done \in Nat /\ engine'.done = engine.done + 1
    BY <1>2, RowCounted
  <2>3. QED
    BY <2>1, <2>2
<1>3. CASE EngineEnds
  BY <1>3 DEF EngineEnds
<1>4. CASE BeginShutdown
  BY <1>4 DEF BeginShutdown
<1>5. CASE UNCHANGED engine
  BY <1>5
<1>6. QED
  BY <1>1, <1>2, <1>3, <1>4, <1>5 DEF Next, vars, PostStores, Cleanup, Beat, Sync,
     Retry, SetApplied, SetFails, EndFinalize, CloseStore, Exit, Crash, Expire

LEMMA InitHonest == Init => IInv
<1> SUFFICES ASSUME Init PROVE IInv
  OBVIOUS
<1>1. TypeOK /\ Counted
  BY InitType
<1>2. Honest(rec, engine) /\ Copies
  BY DEF Init, Honest, Copies, HonestFrame, IdleOp
<1>3. Handlers
  BY DEF Init, Handlers, IdleOp, Writers
<1>4. QED
  BY <1>1, <1>2, <1>3 DEF IInv

LEMMA CopiesKept ==
  ASSUME IInv, EngineKept
  PROVE  /\ Honest(rec, engine')
         /\ \A v \in Writers : /\ Honest(op[v].next, engine')
                               /\ HonestFrame(op[v].frame, engine')
<1>1. rec \in Records \cup {NoRecord} /\ op \in [Writers -> Ops]
  BY DEF IInv, TypeOK
<1>2. \A v \in Writers : /\ op[v].next \in Records \cup {NoRecord}
                         /\ op[v].frame \in Frames \cup {NoFrame}
  BY <1>1 DEF Ops
<1>3. QED
  BY <1>1, <1>2, HonestKept DEF IInv, Copies

\* A turn taken with a frame that is honest in the state it leads to leaves an
\* honest record and honest copies there.
LEMMA TurnHonest ==
  ASSUME IInv, EngineKept, NEW w \in Writers, NEW f \in Frames \cup {NoFrame},
         NEW t \in 0..(MaxAttempts - 1), Turn(w, f, t),
         HonestFrame(f, engine'), w = Final => Over(engine')
  PROVE  Honest(rec, engine)' /\ Copies'
<1>1. /\ Honest(rec, engine')
      /\ \A v \in Writers : Honest(op[v].next, engine') /\ HonestFrame(op[v].frame, engine')
  BY CopiesKept DEF IInv
<1>2. rec # NoRecord => Honest(Mutate(w, rec, f), engine')
  BY <1>1, MutateHonest DEF IInv, TypeOK
<1>3. HonestFrame(NoFrame, engine') /\ Honest(NoRecord, engine')
  BY DEF HonestFrame, Honest
<1>4. Honest(rec', engine')
  BY <1>1, <1>2, TurnShape DEF IInv
<1>5. ASSUME NEW v \in Writers
      PROVE  Honest(op'[v].next, engine') /\ HonestFrame(op'[v].frame, engine')
  <2>1. CASE v = w
    BY <1>2, <1>3, <2>1, TurnShape DEF IInv
  <2>2. CASE v # w
    BY <1>1, <2>2, TurnShape DEF IInv
  <2>3. QED
    BY <2>1, <2>2
<1>6. QED
  BY <1>4, <1>5 DEF Copies

\* Updates that are dropped or end without a turn leave honest copies.
LEMMA CopiesDropped ==
  ASSUME IInv, EngineKept,
         \A v \in Writers : /\ op'[v].next \in {op[v].next, NoRecord}
                            /\ op'[v].frame \in {op[v].frame, NoFrame}
  PROVE  Copies'
BY CopiesKept DEF IInv, Copies, Honest, HonestFrame

LEMMA StepHonest == IInv /\ [Next]_vars => Honest(rec, engine)' /\ Copies'
<1> SUFFICES ASSUME IInv, [Next]_vars
             PROVE  Honest(rec, engine)' /\ Copies'
  OBVIOUS
<1>0. /\ EngineKept
      /\ Honest(rec, engine') /\ Honest(NoRecord, engine')
      /\ HonestFrame(NoFrame, engine')
      /\ \A w \in Writers : Honest(op[w].next, engine') /\ HonestFrame(op[w].frame, engine')
      /\ 0 \in 0..(MaxAttempts - 1)
      /\ Final \in Writers /\ Shutdown \in Writers
  BY StepEngineKept, CopiesKept DEF Honest, HonestFrame, Writers
<1>1. CASE PostStores
  <2>1. Honest(InitialRecord, engine')
    BY DEF Honest, HonestFrame, InitialRecord
  <2>2. QED
    BY <1>0, <1>1, <2>1, CopiesDropped DEF PostStores
<1>2. CASE UNCHANGED <<rec, op>>
  BY <1>0, <1>2, CopiesDropped
<1>3. CASE EngineEnds
  <2>1. PICK f \in Frames \cup {NoFrame} : Turn(Final, f, 0) /\ HonestFrame(f, engine')
    <3>1. CASE Turn(Final, NoFrame, 0)
      BY <1>0, <3>1
    <3>2. CASE /\ engine' = [engine EXCEPT !.state = "settled"]
               /\ Turn(Final, Snapshot(engine'), 0)
      <4>1. engine' \in Engines
        BY <3>2 DEF IInv, TypeOK, Engines, EngineStates
      <4>2. Over(engine')
        BY <3>2 DEF IInv, TypeOK, Engines, Over
      <4>3. HonestFrame(Snapshot(engine'), engine')
        BY <4>1, <4>2 DEF HonestFrame, Snapshot, Engines
      <4>4. QED
        BY <3>2, <4>1, <4>3, SnapshotType
    <3>3. QED
      BY <1>3, <3>1, <3>2 DEF EngineEnds
  <2>2. Over(engine')
    BY <1>3 DEF EngineEnds, IInv, TypeOK, Engines, Over
  <2>3. QED
    BY <1>0, <2>1, <2>2, TurnHonest
<1>4. ASSUME NEW b \in Beats, Beat(b)
      PROVE  Honest(rec, engine)' /\ Copies'
  <2>1. b \in Writers /\ b # Final
    BY WritersAssumption DEF Writers
  <2>2. QED
    BY <1>0, <1>4, <2>1, TurnHonest DEF Beat
<1>5. ASSUME NEW s \in Syncs, Sync(s)
      PROVE  Honest(rec, engine)' /\ Copies'
  <2>1. s \in Writers /\ s # Final
    BY WritersAssumption DEF Writers
  <2>2. Snapshot(engine) \in Frames
    BY SnapshotType DEF IInv, TypeOK
  <2>3. HonestFrame(Snapshot(engine), engine')
    <3>1. engine' = engine /\ engine.state # "idle"
      BY <1>5 DEF Sync, IInv, Handlers
    <3>2. engine.done \in Nat /\ engine.state \in EngineStates
      BY DEF IInv, TypeOK, Engines
    <3>3. ~Snapshot(engine).running => Over(engine)
      BY <3>1, <3>2 DEF Snapshot, Over, EngineStates
    <3>4. QED
      BY <3>1, <3>2, <3>3 DEF HonestFrame, Snapshot
  <2>4. QED
    BY <1>0, <1>5, <2>1, <2>2, <2>3, TurnHonest DEF Sync
<1>6. ASSUME NEW w \in Writers, Retry(w)
      PROVE  Honest(rec, engine)' /\ Copies'
  <2>1. op[w].frame \in Frames \cup {NoFrame} /\ op[w].tries \in 0..(MaxAttempts - 1)
    BY DEF IInv, TypeOK, Ops
  <2>2. w = Final => Over(engine')
    BY <1>6 DEF Retry, IInv, Handlers
  <2>3. QED
    BY <1>0, <1>6, <2>1, <2>2, TurnHonest DEF Retry
<1>7. CASE SetApplied
  <2>1. Head(wire) \in Writers
    BY <1>7 DEF SetApplied, IInv, TypeOK
  <2>2. /\ op[Head(wire)].frame \in Frames \cup {NoFrame}
        /\ op \in [Writers -> Ops]
    BY <2>1 DEF IInv, TypeOK, Ops
  <2>3. Copies'
    BY <1>0, <1>7, <2>1, <2>2, FinishedType, CopiesDropped DEF SetApplied
  <2>4. QED
    BY <1>0, <1>7, <2>1, <2>3 DEF SetApplied
<1>8. CASE SetFails
  <2>1. Head(wire) \in Writers
    BY <1>8 DEF SetFails, IInv, TypeOK
  <2>2. /\ op[Head(wire)].frame \in Frames \cup {NoFrame}
        /\ op \in [Writers -> Ops]
    BY <2>1 DEF IInv, TypeOK, Ops
  <2>3. Copies'
    <3>1. op'[Head(wire)].next = NoRecord
          /\ op'[Head(wire)].frame \in {op[Head(wire)].frame, NoFrame}
      BY <1>8, <2>1, <2>2, FinishedType DEF SetFails
    <3>2. \A v \in Writers \ {Head(wire)} : op'[v] = op[v]
      BY <1>8, <2>2 DEF SetFails
    <3>3. QED
      BY <1>0, <3>1, <3>2, CopiesDropped
  <2>4. QED
    BY <1>0, <1>8, <2>1, <2>3 DEF SetFails
<1>9. CASE BeginShutdown
  <2>1. CASE local
    BY <1>0, <1>9, <2>1, TurnHonest, WritersAssumption DEF BeginShutdown
  <2>2. CASE ~local
    BY <1>0, <1>9, <2>2, CopiesDropped DEF BeginShutdown
  <2>3. QED
    BY <2>1, <2>2
<1>10. CASE Cleanup \/ EndFinalize \/ Exit \/ Crash \/ CloseStore \/ Expire
  <2>1. rec' \in {rec, NoRecord}
    BY <1>10 DEF Cleanup, EndFinalize, Exit, Crash, CloseStore, Expire
  <2>2. \A v \in Writers : op'[v] \in {op[v], IdleOp}
    BY <1>10 DEF Cleanup, EndFinalize, Exit, Crash, CloseStore, Expire, IInv, TypeOK
  <2>3. Copies'
    BY <1>0, <2>2, CopiesDropped DEF IdleOp
  <2>4. QED
    BY <1>0, <2>1, <2>3
<1>11. QED
  BY <1>1, <1>2, <1>3, <1>4, <1>5, <1>6, <1>7, <1>8, <1>9, <1>10
     DEF Next, vars, PostStarts, EngineRow

LEMMA StepWire ==
  ASSUME IInv, [Next]_vars, NEW i \in 1..Len(wire'), wire'[i] = Final
  PROVE  Over(engine')
<1>0. EngineKept /\ wire \in Seq(Writers)
  BY StepEngineKept DEF IInv, TypeOK
<1>1. CASE wire' = wire
  BY <1>0, <1>1 DEF EngineKept, Over, IInv, Handlers
<1>2. CASE wire # <<>> /\ wire' = Tail(wire)
  <2>1. i + 1 \in 1..Len(wire) /\ wire[i + 1] = Final
    BY <1>0, <1>2
  <2>2. QED
    BY <1>0, <2>1 DEF EngineKept, Over, IInv, Handlers
<1>3. CASE wire' = <<>>
  BY <1>3
<1>4. ASSUME NEW w \in Writers, wire' = Append(wire, w), w = Final => Over(engine')
      PROVE  Over(engine')
  <2>1. CASE i = Len(wire) + 1
    BY <1>0, <1>4, <2>1
  <2>2. CASE i \in 1..Len(wire)
    <3>1. wire[i] = Final
      BY <1>0, <1>4, <2>2
    <3>2. QED
      BY <1>0, <2>2, <3>1 DEF EngineKept, Over, IInv, Handlers
  <2>3. QED
    BY <1>0, <1>4, <2>1, <2>2
<1>5. ASSUME NEW w \in Writers, NEW f, NEW t, Turn(w, f, t), w = Final => Over(engine')
      PROVE  Over(engine')
  BY <1>1, <1>4, <1>5 DEF Turn
<1>6. CASE EngineEnds
  BY <1>6 DEF EngineEnds, IInv, TypeOK, Engines, Over
<1>7. CASE BeginShutdown
  BY <1>1, <1>5, <1>7, WritersAssumption DEF BeginShutdown, Writers
<1>8. ASSUME NEW b \in Beats, Beat(b) PROVE Over(engine')
  BY <1>5, <1>8, WritersAssumption DEF Beat, Writers
<1>9. ASSUME NEW s \in Syncs, Sync(s) PROVE Over(engine')
  BY <1>5, <1>9, WritersAssumption DEF Sync, Writers
<1>10. ASSUME NEW w \in Writers, Retry(w) PROVE Over(engine')
  BY <1>5, <1>10 DEF Retry, IInv, Handlers
<1>11. QED
  BY <1>1, <1>2, <1>3, <1>6, <1>7, <1>8, <1>9, <1>10
     DEF Next, vars, PostStores, PostStarts, EngineRow, Cleanup, SetApplied, SetFails,
         EndFinalize, CloseStore, Exit, Crash, Expire

LEMMA StepHandlers == IInv /\ [Next]_vars => Handlers'
<1> SUFFICES ASSUME IInv, [Next]_vars
             PROVE  /\ op'[Final].state # "idle" => Over(engine')
                    /\ post' = "started" <=> engine'.state # "idle"
                    /\ local' => post' = "started"
  BY StepWire DEF Handlers
<1> DEFINE Goal == /\ op'[Final].state # "idle" => Over(engine')
                   /\ post' = "started" <=> engine'.state # "idle"
                   /\ local' => post' = "started"
<1> USE DEF IInv, Handlers
<1>0. EngineKept /\ op \in [Writers -> Ops] /\ Final \in Writers
  BY StepEngineKept DEF TypeOK, Writers
<1>1. CASE PostStores
  BY <1>1 DEF PostStores
<1>2. CASE PostStarts
  BY <1>2 DEF PostStarts, TypeOK, Engines, Over
<1>3. CASE EngineRow
  <2>1. engine'.state = engine.state
    BY <1>3, RowCounted
  <2>2. QED
    BY <1>3, <2>1 DEF EngineRow, Over
<1>4. CASE EngineEnds
  BY <1>4 DEF EngineEnds, TypeOK, Engines, Over
<1>5. ASSUME NEW w \in Writers, NEW f \in Frames \cup {NoFrame},
             NEW t \in 0..(MaxAttempts - 1), Turn(w, f, t), w # Final
      PROVE  op'[Final] = op[Final]
  BY <1>0, <1>5, TurnShape
<1>6. ASSUME NEW b \in Beats, Beat(b) PROVE Goal
  <2>1. op'[Final] = op[Final]
    BY <1>5, <1>6, WritersAssumption DEF Beat, Writers
  <2>2. QED
    BY <1>6, <2>1 DEF Beat
<1>7. ASSUME NEW s \in Syncs, Sync(s) PROVE Goal
  <2>1. op'[Final] = op[Final]
    BY <1>5, <1>7, WritersAssumption, SnapshotType DEF Sync, Writers, TypeOK
  <2>2. QED
    BY <1>7, <2>1 DEF Sync
<1>8. ASSUME NEW w \in Writers, Retry(w) PROVE Goal
  <2>1. op[w].frame \in Frames \cup {NoFrame} /\ op[w].tries \in 0..(MaxAttempts - 1)
    BY DEF TypeOK, Ops
  <2>2. w # Final => op'[Final] = op[Final]
    BY <1>5, <1>8, <2>1 DEF Retry
  <2>3. w = Final => Over(engine)
    BY <1>8 DEF Retry
  <2>4. QED
    BY <1>8, <2>2, <2>3 DEF Retry
<1>9. CASE SetApplied \/ SetFails
  <2>1. Head(wire) \in Writers /\ wire # <<>>
    BY <1>9 DEF SetApplied, SetFails, TypeOK
  <2>2. Head(wire) # Final => op'[Final] = op[Final]
    BY <1>0, <1>9, <2>1 DEF SetApplied, SetFails
  <2>3. Head(wire) = Final => Over(engine)
    <3>1. 1 \in 1..Len(wire) /\ Head(wire) = wire[1]
      BY <2>1 DEF TypeOK
    <3>2. QED
      BY <3>1
  <2>4. QED
    BY <1>9, <2>2, <2>3 DEF SetApplied, SetFails
<1>10. CASE BeginShutdown
  <2>1. op'[Final] = op[Final]
    <3>1. CASE local
      BY <1>5, <1>10, <3>1, WritersAssumption DEF BeginShutdown, Writers
    <3>2. CASE ~local
      BY <1>10, <3>2 DEF BeginShutdown
    <3>3. QED
      BY <3>1, <3>2
  <2>2. engine'.state = engine.state /\ post' = post /\ (local' => local)
    BY <1>10 DEF BeginShutdown, TypeOK, Engines
  <2>3. Over(engine) => Over(engine')
    BY <2>2 DEF Over
  <2>4. post' = "started" <=> engine'.state # "idle"
    BY <2>2
  <2>5. local' => post' = "started"
    BY <2>2
  <2>6. op'[Final].state # "idle" => Over(engine')
    BY <2>1, <2>3
  <2>7. QED
    BY <2>4, <2>5, <2>6
<1>11. CASE Cleanup \/ EndFinalize \/ Exit \/ Crash
  <2>1. op'[Final] \in {op[Final], IdleOp} /\ local' \in {local, FALSE}
        /\ UNCHANGED <<post, engine>>
    BY <1>0, <1>11 DEF Cleanup, EndFinalize, Exit, Crash
  <2>2. post' = "started" <=> engine'.state # "idle"
    BY <2>1
  <2>3. local' => post' = "started"
    BY <2>1
  <2>4. op'[Final].state # "idle" => Over(engine')
    BY <2>1 DEF IdleOp
  <2>5. QED
    BY <2>2, <2>3, <2>4
<1>12. CASE CloseStore \/ Expire \/ UNCHANGED vars
  BY <1>12 DEF CloseStore, Expire, vars
<1>13. QED
  BY <1>1, <1>2, <1>3, <1>4, <1>6, <1>7, <1>8, <1>9, <1>10, <1>11, <1>12 DEF Next

LEMMA StepInv == IInv /\ [Next]_vars => IInv'
BY StepType, StepCounted, StepHonest, StepHandlers DEF IInv

(* The inductive invariant holds of every behaviour.                       *)
THEOREM InductiveInvariant == Spec => []IInv
BY InitHonest, StepInv, PTL DEF Spec

(* Whatever is retried, delayed or lost on the way to the store, a record  *)
(* says completed or failed only after the engine has ended.               *)
THEOREM FinishedIsTrueAlways == Spec => []FinishedIsTrue
<1>1. IInv => FinishedIsTrue
  BY DEF IInv, Honest, FinishedIsTrue, Ended, Over
<1>2. QED
  BY <1>1, InductiveInvariant, PTL

(* A final frame in the store holds the engine's final counts.             *)
THEOREM FinalCountsTrueAlways == Spec => []FinalCountsTrue
<1>1. IInv => FinalCountsTrue
  BY DEF IInv, Honest, HonestFrame, FinalCountsTrue, Ended, Over
<1>2. QED
  BY <1>1, InductiveInvariant, PTL
----------------------------------------------------------------------------
(* The memory store: an update is one turn, and the record keeps up with   *)
(* the engine.                                                              *)

\* No update is under way between turns; two of them have code left to run.
Immediate ==
    /\ wire = <<>>
    /\ \A w \in Writers :
          op[w].state = "idle" \/ (op[w].state = "resolved" /\ w \in {Final, Shutdown})

\* A record exists from the POST until the store is closed; its status never
\* runs ahead of the engine, nor stays behind once that has ended.
KeepsUp ==
    /\ post = "none" => rec = NoRecord
    /\ phase \in {"closed", "exited"} => rec = NoRecord
    /\ rec # NoRecord =>
         /\ post = "stored" => rec.status = "queued"
         /\ engine.state = "running" => rec.status \in {"queued", "running", "interrupted"}
         /\ Over(engine) => rec.status \in Terminal
         /\ rec.progress # NoFrame => rec.progress.done <= engine.done

\* While polls find the engine and neither completion handler nor shutdown has
\* begun, the engine runs, nobody cancelled it, and the record says no more
\* than a snapshot would.
AtWork ==
    local /\ op[Final].state = "idle" =>
        /\ engine.state = "running"
        /\ op[Shutdown].state = "idle" =>
             /\ ~engine.cancelled
             /\ rec # NoRecord => /\ rec.status \in {"queued", "running"}
                                  /\ rec.status = "running" => engine.done > 0

MemoryInv == Immediate /\ KeepsUp /\ AtWork

\* A turn writes what the mutator makes of the record, or nothing at all.
LEMMA MemoryTurn ==
  ASSUME Store = "memory", TypeOK, Immediate, NEW w \in Writers,
         NEW f \in Frames \cup {NoFrame}, NEW t, Turn(w, f, t)
  PROVE  /\ rec' = IF phase = "closed" \/ rec = NoRecord \/ Mutate(w, rec, f) = NoRecord
                   THEN rec ELSE Mutate(w, rec, f)
         /\ op'[w] = Finished(w, f)
         /\ \A v \in Writers \ {w} : op'[v] = op[v]
         /\ Immediate'
<1>1. /\ ~StoreFails
      /\ op \in [Writers -> Ops]
  BY WritersAssumption DEF TypeOK
<1>2. wire' = wire /\ op' = [op EXCEPT ![w] = Finished(w, f)]
  BY <1>1 DEF Turn
<1>3. Finished(w, f).state = "idle" \/ (Finished(w, f).state = "resolved" /\ w \in {Final, Shutdown})
  BY DEF Finished, IdleOp
<1>4. Immediate'
  BY <1>1, <1>2, <1>3 DEF Immediate
<1>5. rec' = IF phase = "closed" \/ rec = NoRecord \/ Mutate(w, rec, f) = NoRecord
             THEN rec ELSE Mutate(w, rec, f)
  BY <1>1 DEF Turn
<1>6. QED
  BY <1>1, <1>2, <1>4, <1>5

LEMMA MemoryInit == Init => MemoryInv
BY DEF Init, MemoryInv, Immediate, KeepsUp, AtWork, IdleOp, Over

\* Nothing is left to retry or to execute.
LEMMA NobodyRetries ==
  ASSUME Immediate
  PROVE  ~SetApplied /\ ~SetFails /\ ~(\E w \in Writers : Retry(w))
BY DEF Immediate, Retry, SetApplied, SetFails

LEMMA BothIdle ==
  ASSUME Store = "memory", Immediate, TurnEnds
  PROVE  op[Final].state = "idle" /\ op[Shutdown].state = "idle"
BY DEF Immediate, TurnEnds, Writers

\* The record after a turn of each writer.
LEMMA BeatWrites ==
  ASSUME Store = "memory", TypeOK, Immediate, NEW b \in Beats, Beat(b)
  PROVE  /\ rec' = rec /\ Immediate' /\ UNCHANGED <<post, engine, local, phase>>
         /\ op'[Final] = op[Final] /\ op'[Shutdown] = op[Shutdown]
<1>1. b \in Writers /\ b # Final /\ b # Shutdown /\ Final \in Writers /\ Shutdown \in Writers
  BY WritersAssumption DEF Writers
<1>2. Turn(b, NoFrame, 0) /\ UNCHANGED <<post, engine, local, phase>>
  BY DEF Beat
<1>3. Mutate(b, rec, NoFrame) \in {rec, NoRecord}
  BY DEF Mutate, WithBeat
<1>4. QED
  BY <1>1, <1>2, <1>3, MemoryTurn

\* A poll finds the engine at work, and its frame derives the status the
\* record has or the next one.
LEMMA PollWrites ==
  ASSUME Store = "memory", IInv, MemoryInv, NEW s \in Syncs, Sync(s)
  PROVE  /\ Immediate' /\ UNCHANGED <<post, engine, local, phase>>
         /\ op'[Final] = op[Final] /\ op'[Shutdown] = op[Shutdown]
         /\ engine.state = "running" /\ ~engine.cancelled
         /\ rec = NoRecord => rec' = NoRecord
         /\ rec # NoRecord =>
              /\ rec' # NoRecord /\ rec'.progress = Snapshot(engine)
              /\ rec.status \in {"queued", "running"}
              /\ rec.status = "running" => engine.done > 0
              /\ rec'.status = IF engine.done = 0 THEN "queued" ELSE "running"
<1> USE DEF IInv, MemoryInv
<1>1. /\ s \in Writers /\ s # Final /\ s # Shutdown /\ s \notin Beats
      /\ Final \in Writers /\ Shutdown \in Writers
  BY WritersAssumption DEF Writers
<1>2. Snapshot(engine) \in Frames /\ engine \in Engines
  BY SnapshotType DEF TypeOK
<1>3. Turn(s, Snapshot(engine), 0) /\ UNCHANGED <<post, engine, local, phase>>
  BY DEF Sync
<1>4. /\ engine.state = "running" /\ ~engine.cancelled
      /\ rec # NoRecord => /\ rec.status \in {"queued", "running"}
                           /\ rec.status = "running" => engine.done > 0
  BY BothIdle DEF Sync, AtWork
<1>5. ASSUME rec # NoRecord
      PROVE  /\ Mutate(s, rec, Snapshot(engine)) \in Records
             /\ Mutate(s, rec, Snapshot(engine)).progress = Snapshot(engine)
             /\ Mutate(s, rec, Snapshot(engine)).status
                  = IF engine.done = 0 THEN "queued" ELSE "running"
  <2>1. rec \in Records /\ Mutate(s, rec, Snapshot(engine)) = WithFrame(rec, Snapshot(engine))
    BY <1>1, <1>5 DEF TypeOK, Mutate
  <2>2. DeriveStatus(Snapshot(engine)) = IF engine.done = 0 THEN "queued" ELSE "running"
    BY <1>2, <1>4 DEF DeriveStatus, Snapshot
  <2>3. QED
    BY <1>2, <2>1, <2>2 DEF WithFrame, Records, Statuses
<1>6. phase # "closed"
  BY DEF Sync
<1>7. QED
  BY <1>1, <1>2, <1>3, <1>4, <1>5, <1>6, MemoryTurn

\* The completion handler's write: a verdict, and no more rows than counted.
LEMMA EndWrites ==
  ASSUME Store = "memory", IInv, MemoryInv, EngineEnds
  PROVE  /\ Immediate' /\ UNCHANGED <<post, local, phase>>
         /\ op'[Final].state # "idle"
         /\ engine.state = "running" /\ Over(engine') /\ engine'.done = engine.done
         /\ rec = NoRecord => rec' = NoRecord
         /\ rec # NoRecord =>
              /\ rec' # NoRecord
              /\ rec'.status \in {"completed", "failed", "cancelled"}
              /\ rec'.progress = rec.progress
                   \/ (rec'.progress # NoFrame /\ rec'.progress.done = engine.done)
<1> USE DEF IInv, MemoryInv
<1>1. Final \in Writers /\ Final \notin Beats /\ Final \notin Syncs /\ Final # Shutdown
  BY WritersAssumption DEF Writers
<1>2. engine \in Engines /\ UNCHANGED <<post, local, phase>> /\ engine.state = "running"
  BY DEF TypeOK, EngineEnds
<1>3. /\ engine' \in Engines /\ Over(engine') /\ engine'.state # "running"
      /\ engine'.done = engine.done
  BY <1>2 DEF EngineEnds, Engines, EngineStates, Over
<1>4. PICK f \in {NoFrame, Snapshot(engine')} : Turn(Final, f, 0)
  BY DEF EngineEnds
<1>5. f \in Frames \cup {NoFrame}
  BY <1>3, SnapshotType
<1>6. op'[Final].state # "idle"
  <2>1. op'[Final] = Finished(Final, f)
    BY <1>1, <1>4, <1>5, MemoryTurn
  <2>2. QED
    BY <2>1 DEF Finished, IdleOp
<1>7. ASSUME rec # NoRecord
      PROVE  /\ rec' # NoRecord
             /\ rec'.status \in {"completed", "failed", "cancelled"}
             /\ rec'.progress = rec.progress
                  \/ (rec'.progress # NoFrame /\ rec'.progress.done = engine.done)
  <2> DEFINE r == Mutate(Final, rec, f)
  <2>1. rec \in Records /\ phase # "closed"
    BY <1>7 DEF TypeOK, KeepsUp
  <2>2. CASE f = NoFrame
    <3>1. r = [rec EXCEPT !.status = "failed", !.settled = TRUE]
      BY <1>1, <2>2 DEF Mutate, WithFailure
    <3>2. r \in Records /\ r.status = "failed" /\ r.progress = rec.progress
      BY <2>1, <3>1 DEF Records, Statuses
    <3> HIDE DEF r
    <3>3. rec' = r
      BY <1>1, <1>4, <1>5, <1>7, <2>1, <3>2, MemoryTurn DEF r
    <3>4. QED
      BY <3>2, <3>3
  <2>3. CASE f # NoFrame
    <3>1. f = Snapshot(engine') /\ ~f.running /\ f.done = engine.done
      <4>1. f = Snapshot(engine')
        BY <1>4, <2>3
      <4>2. /\ Snapshot(engine').running = FALSE
            /\ Snapshot(engine').done = engine.done
        BY <1>3 DEF Snapshot
      <4>3. QED
        BY <4>1, <4>2
    <3>2. DeriveStatus(f) \in {"completed", "failed", "cancelled"}
      BY <2>3, <3>1 DEF DeriveStatus
    <3>3. r = [rec EXCEPT !.progress = f, !.status = DeriveStatus(f), !.settled = TRUE]
      BY <1>1, <2>1, <2>3 DEF Mutate, WithResult, WithFrame, Records
    <3>4. r \in Records /\ r.status = DeriveStatus(f) /\ r.progress = f
      BY <1>5, <2>1, <3>2, <3>3 DEF Records, Statuses
    <3> HIDE DEF r
    <3>5. rec' = r
      BY <1>1, <1>4, <1>5, <1>7, <2>1, <3>4, MemoryTurn DEF r
    <3>6. QED
      BY <2>3, <3>1, <3>2, <3>4, <3>5
  <2>4. QED
    BY <2>2, <2>3
<1>8. QED
  BY <1>1, <1>2, <1>3, <1>4, <1>5, <1>6, <1>7, MemoryTurn

\* SIGTERM with the engine here: what is still open becomes interrupted.
LEMMA ShutdownWrites ==
  ASSUME Store = "memory", IInv, MemoryInv, BeginShutdown, local
  PROVE  /\ Immediate' /\ UNCHANGED <<post, local>> /\ phase' = "finalizing"
         /\ op'[Final] = op[Final] /\ op'[Shutdown].state # "idle"
         /\ engine' = [engine EXCEPT !.cancelled = TRUE]
         /\ rec = NoRecord => rec' = NoRecord
         /\ rec # NoRecord =>
              /\ rec' # NoRecord /\ rec'.progress = rec.progress
              /\ rec'.status = IF rec.status \in {"completed", "failed", "cancelled"}
                               THEN rec.status ELSE "interrupted"
<1> USE DEF IInv, MemoryInv
<1>1. /\ Final \in Writers /\ Shutdown \in Writers /\ Final # Shutdown
      /\ Shutdown \notin Beats /\ Shutdown \notin Syncs
  BY WritersAssumption DEF Writers
<1>2. /\ Turn(Shutdown, NoFrame, 0) /\ phase = "serving"
      /\ UNCHANGED <<post, local>> /\ phase' = "finalizing"
      /\ engine' = [engine EXCEPT !.cancelled = TRUE]
  BY DEF BeginShutdown
<1>3. ASSUME rec # NoRecord
      PROVE  /\ Mutate(Shutdown, rec, NoFrame) \in Records
             /\ Mutate(Shutdown, rec, NoFrame).progress = rec.progress
             /\ Mutate(Shutdown, rec, NoFrame).status =
                  IF rec.status \in {"completed", "failed", "cancelled"}
                  THEN rec.status ELSE "interrupted"
  <2>1. rec \in Records /\ Mutate(Shutdown, rec, NoFrame) = WithInterrupt(rec)
    BY <1>1, <1>3 DEF TypeOK, Mutate
  <2>2. QED
    BY <2>1 DEF WithInterrupt, Records, Statuses
<1>4. op'[Shutdown].state # "idle"
  <2>1. op'[Shutdown] = Finished(Shutdown, NoFrame)
    BY <1>1, <1>2, MemoryTurn
  <2>2. QED
    BY <2>1 DEF Finished, IdleOp
<1>5. QED
  BY <1>1, <1>2, <1>3, <1>4, MemoryTurn

LEMMA StepImmediate ==
  ASSUME Store = "memory", IInv, MemoryInv, [Next]_vars
  PROVE  Immediate'
<1> USE DEF IInv, MemoryInv
<1>1. CASE \E b \in Beats : Beat(b)
  BY <1>1, BeatWrites
<1>2. CASE \E s \in Syncs : Sync(s)
  BY <1>2, PollWrites
<1>3. CASE EngineEnds
  BY <1>3, EndWrites
<1>4. CASE BeginShutdown
  <2>1. CASE local
    BY <1>4, <2>1, ShutdownWrites
  <2>2. CASE ~local
    BY <1>4, <2>2 DEF BeginShutdown, Immediate
  <2>3. QED
    BY <2>1, <2>2
<1>5. CASE UNCHANGED <<op, wire>>
  BY <1>5 DEF Immediate
<1>6. CASE Cleanup \/ EndFinalize \/ Exit \/ Crash
  <2>1. wire' = <<>>
    BY <1>6 DEF Cleanup, EndFinalize, Exit, Crash, Immediate
  <2>2. \A w \in Writers : op'[w] \in {op[w], IdleOp}
    BY <1>6 DEF Cleanup, EndFinalize, Exit, Crash, TypeOK
  <2>3. QED
    BY <2>1, <2>2 DEF Immediate, IdleOp
<1>7. QED
  BY <1>1, <1>2, <1>3, <1>4, <1>5, <1>6, NobodyRetries
     DEF Next, vars, PostStores, PostStarts, EngineRow, CloseStore, Expire

LEMMA StepKeepsUp ==
  ASSUME Store = "memory", IInv, MemoryInv, [Next]_vars
  PROVE  KeepsUp'
<1> USE DEF IInv, MemoryInv
<1>0. /\ engine \in Engines /\ engine.done \in Nat
      /\ post = "stored" => ~local /\ engine.state = "idle"
      /\ post = "none" => ~local /\ engine.state = "idle"
      /\ rec \in Records \cup {NoRecord}
      /\ ~StoreFails
  BY WritersAssumption DEF TypeOK, Engines, Handlers
<1>1. CASE PostStores
  <2>1. rec' = InitialRecord /\ post' = "stored" /\ UNCHANGED <<engine, phase>>
        /\ phase \in {"serving", "finalizing", "draining"} /\ engine.state = "idle"
    BY <1>0, <1>1 DEF PostStores
  <2>2. QED
    BY <2>1 DEF KeepsUp, InitialRecord, Over
<1>2. CASE PostStarts
  <2>1. /\ rec' = rec /\ post = "stored" /\ post' = "started" /\ phase' = phase
        /\ engine'.state = "running" /\ engine'.done = engine.done
    BY <1>0, <1>2 DEF PostStarts, Engines
  <2>2. QED
    BY <2>1 DEF KeepsUp, Over
<1>3. CASE EngineRow
  <2>1. /\ rec' = rec /\ post' = post /\ phase' = phase
        /\ engine'.state = engine.state /\ engine'.done = engine.done + 1
    BY <1>3, RowCounted DEF EngineRow
  <2>2. rec # NoRecord => rec.progress \in Frames \cup {NoFrame}
    BY <1>0 DEF Records
  <2>3. rec # NoRecord /\ rec.progress # NoFrame => rec.progress.done <= engine'.done
    BY <1>0, <2>1, <2>2 DEF KeepsUp, Frames
  <2>4. QED
    BY <2>1, <2>3 DEF KeepsUp, Over
<1>4. CASE EngineEnds
  <2>1. engine'.state # "running" /\ post # "stored" /\ post # "none"
    BY <1>0, <1>4, EndWrites DEF Over
  <2>2. rec # NoRecord => rec'.status \in Terminal
    BY <1>4, EndWrites DEF Terminal
  <2>3. rec # NoRecord /\ rec'.progress # NoFrame => rec'.progress.done <= engine'.done
    BY <1>0, <1>4, EndWrites DEF KeepsUp
  <2>4. QED
    BY <1>4, <2>1, <2>2, <2>3, EndWrites DEF KeepsUp
<1>5. CASE \E b \in Beats : Beat(b)
  BY <1>5, BeatWrites DEF KeepsUp
<1>6. CASE \E s \in Syncs : Sync(s)
  <2>1. PICK s \in Syncs : Sync(s)
    BY <1>6
  <2>2. local /\ phase \notin {"closed", "exited"}
    BY <2>1 DEF Sync
  <2>3. Snapshot(engine).done = engine.done
    BY DEF Snapshot
  <2>4. UNCHANGED <<post, engine, phase>> /\ engine.state = "running"
        /\ post # "none" /\ post # "stored"
    BY <1>0, <2>1, <2>2, PollWrites
  <2>5. rec' # NoRecord => /\ rec'.status \in {"queued", "running"}
                          /\ rec'.progress.done = engine.done
    BY <2>1, <2>3, PollWrites
  <2>6. QED
    BY <1>0, <2>2, <2>4, <2>5 DEF KeepsUp, Over
<1>7. CASE BeginShutdown
  <2>1. CASE local
    <3>1. engine'.state = engine.state /\ engine'.done = engine.done /\ post' = post
          /\ phase' = "finalizing"
      BY <1>0, <1>7, <2>1, ShutdownWrites DEF Engines
    <3>2. QED
      BY <1>0, <1>7, <2>1, <3>1, ShutdownWrites DEF KeepsUp, Over, Terminal
  <2>2. CASE ~local
    BY <1>7, <2>2 DEF BeginShutdown, KeepsUp
  <2>3. QED
    BY <2>1, <2>2
<1>8. CASE Cleanup \/ UNCHANGED vars
  BY <1>8 DEF Cleanup, vars, KeepsUp
<1>9. CASE EndFinalize
  BY <1>9 DEF EndFinalize, KeepsUp
<1>10. CASE Exit
  BY <1>10 DEF Exit, KeepsUp
<1>11. CASE CloseStore \/ Crash \/ Expire
  BY <1>11 DEF CloseStore, Crash, Expire, KeepsUp
<1>12. QED
  BY <1>1, <1>2, <1>3, <1>4, <1>5, <1>6, <1>7, <1>8, <1>9, <1>10, <1>11, NobodyRetries
     DEF Next

LEMMA StepAtWork ==
  ASSUME Store = "memory", IInv, MemoryInv, [Next]_vars
  PROVE  AtWork'
<1> USE DEF IInv, MemoryInv
<1>0. /\ engine \in Engines /\ engine.done \in Nat
      /\ op \in [Writers -> Ops] /\ Final \in Writers /\ Shutdown \in Writers /\ Final # Shutdown
      /\ ~StoreFails
  BY WritersAssumption DEF TypeOK, Engines, Writers
<1>1. CASE PostStores
  BY <1>0, <1>1 DEF PostStores, Handlers, AtWork
<1>2. CASE PostStarts
  <2>1. /\ rec' = rec /\ post = "stored" /\ engine'.state = "running"
        /\ engine'.cancelled = FALSE
    BY <1>0, <1>2 DEF PostStarts, Engines
  <2>2. rec # NoRecord => rec.status = "queued"
    BY <2>1 DEF KeepsUp
  <2>3. QED
    BY <2>1, <2>2 DEF AtWork
<1>3. CASE EngineRow
  <2>1. /\ UNCHANGED <<rec, local, op>>
        /\ engine'.state = engine.state /\ engine'.done = engine.done + 1
        /\ engine'.cancelled = engine.cancelled
    BY <1>0, <1>3, RowCounted DEF EngineRow, Engines
  <2>2. engine'.done > 0
    BY <1>0, <2>1
  <2>3. QED
    BY <2>1, <2>2 DEF AtWork
<1>4. CASE EngineEnds
  BY <1>4, EndWrites DEF AtWork
<1>5. CASE \E b \in Beats : Beat(b)
  BY <1>5, BeatWrites DEF AtWork
<1>6. CASE \E s \in Syncs : Sync(s)
  <2>1. PICK s \in Syncs : Sync(s)
    BY <1>6
  <2>2. rec' # NoRecord => rec'.status = IF engine.done = 0 THEN "queued" ELSE "running"
    BY <2>1, PollWrites
  <2>3. UNCHANGED engine /\ engine.state = "running" /\ ~engine.cancelled
    BY <2>1, PollWrites
  <2>4. engine.done = 0 \/ engine.done > 0
    BY <1>0
  <2>5. QED
    BY <2>2, <2>3, <2>4 DEF AtWork
<1>7. CASE BeginShutdown
  <2>1. CASE local
    <3>1. engine'.state = engine.state
      BY <1>0, <1>7, <2>1, ShutdownWrites DEF Engines
    <3>2. QED
      BY <1>7, <2>1, <3>1, ShutdownWrites DEF AtWork
  <2>2. CASE ~local
    BY <1>7, <2>2 DEF BeginShutdown, AtWork
  <2>3. QED
    BY <2>1, <2>2
<1>8. CASE Cleanup \/ EndFinalize \/ Exit \/ Crash
  BY <1>8 DEF Cleanup, EndFinalize, Exit, Crash, AtWork
<1>9. CASE CloseStore \/ Expire \/ UNCHANGED vars
  BY <1>9 DEF CloseStore, Expire, vars, AtWork
<1>10. QED
  BY <1>1, <1>2, <1>3, <1>4, <1>5, <1>6, <1>7, <1>8, <1>9, NobodyRetries DEF Next

LEMMA MemoryInvariant ==
  ASSUME Store = "memory"
  PROVE  Spec => []MemoryInv
<1>1. IInv /\ MemoryInv /\ [Next]_vars => MemoryInv'
  BY StepImmediate, StepKeepsUp, StepAtWork DEF MemoryInv
<1>2. QED
  BY MemoryInit, <1>1, InductiveInvariant, PTL DEF Spec

(* With the memory store, once the completion handler has written, the     *)
(* record has a terminal status: beats, polls and the shutdown that fall   *)
(* around that write never leave an ended batch looking open               *)
(* (batch.ts, the then/catch of engine.start).                             *)
THEOREM EndedIsSettledHolds ==
  ASSUME Store = "memory"
  PROVE  Spec => []EndedIsSettled
<1>1. KeepsUp => EndedIsSettled
  BY DEF KeepsUp, EndedIsSettled, Ended, Over
<1>2. QED
  BY <1>1, MemoryInvariant, PTL DEF MemoryInv

\* What a step may do to the record of a memory store.
LEMMA MemoryRecord ==
  ASSUME Store = "memory", IInv, MemoryInv, [Next]_vars,
         rec # NoRecord, rec' # NoRecord
  PROVE  \/ rec' = rec
         \/ /\ rec'.progress = Snapshot(engine)
            /\ rec.status \in {"queued", "running"}
            /\ rec.status = "running" => engine.done > 0
            /\ rec'.status = IF engine.done = 0 THEN "queued" ELSE "running"
         \/ /\ rec'.progress = rec.progress
                 \/ (rec'.progress # NoFrame /\ rec'.progress.done = engine.done)
            /\ rec.status \in {"queued", "running", "interrupted"}
            /\ rec'.status \in {"completed", "failed", "cancelled"}
         \/ /\ rec'.progress = rec.progress
            /\ rec'.status = IF rec.status \in {"completed", "failed", "cancelled"}
                             THEN rec.status ELSE "interrupted"
<1> USE DEF IInv, MemoryInv
<1>1. CASE EngineEnds
  BY <1>1, EndWrites DEF KeepsUp
<1>2. CASE \E s \in Syncs : Sync(s)
  BY <1>2, PollWrites
<1>3. CASE BeginShutdown
  <2>1. CASE local
    BY <1>3, <2>1, ShutdownWrites
  <2>2. CASE ~local
    BY <1>3, <2>2 DEF BeginShutdown
  <2>3. QED
    BY <2>1, <2>2
<1>4. CASE \E b \in Beats : Beat(b)
  BY <1>4, BeatWrites
<1>5. CASE PostStores
  BY <1>5 DEF PostStores, Handlers, KeepsUp
<1>6. CASE CloseStore \/ Crash \/ Expire
  BY <1>6 DEF CloseStore, Crash, Expire
<1>7. CASE UNCHANGED rec
  BY <1>7
<1>8. QED
  BY <1>1, <1>2, <1>3, <1>4, <1>5, <1>6, <1>7, NobodyRetries
     DEF Next, vars, PostStarts, EngineRow, Cleanup, EndFinalize, Exit

(* With the memory store the count of finished rows a poll sees never goes *)
(* back, whichever of polls, completion and shutdown writes next.          *)
THEOREM ProgressNeverFalls ==
  ASSUME Store = "memory"
  PROVE  Spec => ProgressMonotone
<1>1. ASSUME IInv, MemoryInv, [Next]_vars,
             rec # NoRecord, rec' # NoRecord, rec.progress # NoFrame
      PROVE  rec'.progress # NoFrame /\ rec'.progress.done >= rec.progress.done
  <2>1. rec.progress \in Frames /\ engine \in Engines
    BY <1>1 DEF IInv, TypeOK, Records
  <2>2. /\ rec.progress.done \in Nat /\ engine.done \in Nat
        /\ rec.progress.done <= engine.done
    BY <1>1, <2>1 DEF Frames, Engines, MemoryInv, KeepsUp
  <2>3. Snapshot(engine) # NoFrame /\ Snapshot(engine).done = engine.done
    <3>1. Snapshot(engine) \in Frames
      BY <2>1, SnapshotType
    <3>2. QED
      BY <3>1 DEF Snapshot
  <2>4. \/ rec'.progress = rec.progress
        \/ rec'.progress # NoFrame /\ rec'.progress.done = engine.done
    BY <1>1, <2>3, MemoryRecord
  <2>5. QED
    BY <1>1, <2>2, <2>4
<1>2. IInv /\ MemoryInv /\ [Next]_vars =>
        [(rec # NoRecord /\ rec' # NoRecord /\ rec.progress # NoFrame) =>
            rec'.progress # NoFrame /\ rec'.progress.done >= rec.progress.done]_rec
  BY <1>1
<1>3. QED
  BY <1>2, InductiveInvariant, MemoryInvariant, PTL DEF Spec, ProgressMonotone

----------------------------------------------------------------------------
(* The lifecycle a client polls. *)

\* The steps JobLifecycle allows, without what must eventually happen.
LifecycleSafety == Lifecycle!Init /\ [][Lifecycle!Next]_PolledStatus

(* With the memory store the polled status only takes the steps the API    *)
(* promises: forward, a verdict is final, an interruption may still turn   *)
(* into one, and what is forgotten stays so.                               *)
THEOREM LifecycleFollowed ==
  ASSUME Store = "memory"
  PROVE  Spec => LifecycleSafety
<1> USE DEF Lifecycle!Next, Lifecycle!Submit, Lifecycle!Advance, Lifecycle!Settle,
        Lifecycle!Interrupt, Lifecycle!Forget, Lifecycle!Open, Lifecycle!Verdicts
<1>1. Init => Lifecycle!Init
  BY DEF Init, Lifecycle!Init, PolledStatus
<1>2. IInv /\ MemoryInv /\ [Next]_vars => [Lifecycle!Next]_PolledStatus
  <2> SUFFICES ASSUME IInv, MemoryInv, [Next]_vars
               PROVE  Lifecycle!Next \/ PolledStatus' = PolledStatus
    OBVIOUS
  <2>1. /\ rec \in Records \cup {NoRecord} /\ rec' \in Records \cup {NoRecord}
        /\ engine \in Engines
    BY StepType DEF IInv, TypeOK
  <2>2. post = "none" => rec = NoRecord
    BY DEF MemoryInv, KeepsUp
  <2>3. CASE rec # NoRecord /\ rec' # NoRecord
    <3>1. PolledStatus = rec.status /\ PolledStatus' = rec'.status
      BY <2>3 DEF PolledStatus
    <3>2. rec.status \in Statuses
      BY <2>1, <2>3 DEF Records
    <3>3. engine.done = 0 => ~(engine.done > 0)
      OBVIOUS
    <3>4. QED
      BY <2>3, <3>1, <3>2, <3>3, MemoryRecord DEF Statuses
  <2>4. CASE rec # NoRecord /\ rec' = NoRecord
    <3>1. post' = post
      BY <2>2, <2>4 DEF Next, vars, PostStores, PostStarts, EngineRow, EngineEnds, Cleanup, Beat,
         Sync, Retry, SetApplied, SetFails, BeginShutdown, EndFinalize, CloseStore, Exit,
         Crash, Expire
    <3>2. PolledStatus = rec.status /\ PolledStatus' = "gone"
      BY <2>2, <2>4, <3>1 DEF PolledStatus
    <3>3. rec.status \in Statuses
      BY <2>1, <2>4 DEF Records
    <3>4. QED
      BY <3>2, <3>3 DEF Statuses
  <2>5. CASE rec = NoRecord
    <3>1. CASE PostStores
      <4>1. post = "none" /\ rec' = InitialRecord
        BY <3>1, WritersAssumption DEF PostStores
      <4>2. InitialRecord \in Records /\ InitialRecord.status = "queued"
        BY DEF InitialRecord, Records, Statuses
      <4>3. PolledStatus = "none" /\ PolledStatus' = "queued"
        BY <2>5, <4>1, <4>2 DEF PolledStatus
      <4>4. QED
        BY <4>3
    <3>2. CASE PostStarts
      BY <2>5, <3>2 DEF PostStarts, PolledStatus
    <3>3. CASE ~PostStores /\ ~PostStarts
      <4>1. post' = post
        BY <3>3 DEF Next, vars, EngineRow, EngineEnds, Cleanup, Beat, Sync, Retry,
           SetApplied, SetFails, BeginShutdown, EndFinalize, CloseStore, Exit, Crash, Expire
      <4>2. rec' = NoRecord
        <5>1. CASE EngineEnds
          BY <2>5, <5>1, EndWrites
        <5>2. CASE \E s \in Syncs : Sync(s)
          BY <2>5, <5>2, PollWrites
        <5>3. CASE BeginShutdown
          BY <2>5, <5>3, ShutdownWrites DEF BeginShutdown
        <5>4. CASE \E b \in Beats : Beat(b)
          BY <2>5, <5>4, BeatWrites DEF IInv, MemoryInv
        <5>5. QED
          BY <2>5, <3>3, <5>1, <5>2, <5>3, <5>4, NobodyRetries
             DEF Next, vars, EngineRow, Cleanup, EndFinalize, CloseStore, Exit, Crash,
                 Expire, MemoryInv
      <4>3. QED
        BY <2>5, <4>1, <4>2 DEF PolledStatus
    <3>4. QED
      BY <3>1, <3>2, <3>3
  <2>6. QED
    BY <2>3, <2>4, <2>5
<1>3. QED
  BY <1>1, <1>2, InductiveInvariant, MemoryInvariant, PTL DEF Spec, LifecycleSafety
=============================================================================
