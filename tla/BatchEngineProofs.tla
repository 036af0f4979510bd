------------------------- MODULE BatchEngineProofs -------------------------
(***************************************************************************)
(* For any number of rows and workers: the counters are those of the rows, *)
(* a batch computes one proof configuration, start() resolves with every   *)
(* row counted, and the engine keeps the contract its drivers rely on.     *)
(***************************************************************************)
EXTENDS BatchEngine, FiniteSetTheorems, TLAPS

Read    == {r \in Row : status[r] # "unread"}
Settled == {r \in Row : status[r] \in {"success", "error", "skipped"}}

\* A mapper is suspended where the status of its row says, and rows are pulled
\* in the order of the source.
Placed ==
    \A r \in Row : /\ await[r] \in {"config", "signer"} <=> status[r] = "processing"
                   /\ await[r] = "return" => status[r] \in {"success", "error"}
                   /\ await[r] = "config" => config \notin {"perRow", "none"}
                   /\ status[r] # "unread" <=> r <= progress.total

\* The slot of the proof configuration is filled once.
Bundled == bundles = IF config \in {"perRow", "none"} THEN 0 ELSE 1

\* The outcomes counted are the rows with an outcome.
OutcomesCounted ==
    progress.successCount + progress.errorCount + progress.skippedCount = Cardinality(Settled)

\* Mappers run only after start(); once it is past its last row no mapper is
\* left and no frame waits.
Drained ==
    /\ call \in {"idle", "flushing", "resolved"} => InFlight = {}
    /\ call \in {"flushing", "resolved"} =>
           /\ progress.total = Rows /\ pending = NoFrame
           /\ observed => delivered = [progress EXCEPT !.cancelled = delivered.cancelled]

IInv == TypeOK /\ CountsMatchRows /\ OutcomesCounted /\ Placed /\ Bundled /\ Drained

----------------------------------------------------------------------------
(* Counting rows *)

\* Sets of rows are finite, and their sizes move by one with a row.
LEMMA RowSets ==
    /\ \A S \in SUBSET Row : IsFiniteSet(S) /\ Cardinality(S) \in Nat /\ Cardinality(S) <= Rows
    /\ \A S \in SUBSET Row : \A r \in S : Cardinality(S \ {r}) = Cardinality(S) - 1
    /\ \A S \in SUBSET Row : \A r \in Row \ S : Cardinality(S \cup {r}) = Cardinality(S) + 1
    /\ \A S, T \in SUBSET Row : S \subseteq T => Cardinality(S) <= Cardinality(T)
    /\ Cardinality({}) = 0
    /\ Cardinality(Row) = Rows
  <1>1. IsFiniteSet(Row) /\ Cardinality(Row) = Rows
    BY RowsAssumption, FS_Interval DEF Row
  <1>2. \A S \in SUBSET Row : IsFiniteSet(S) /\ Cardinality(S) \in Nat /\ Cardinality(S) <= Rows
    BY <1>1, FS_Subset, FS_CardinalityType
  <1>3. \A S \in SUBSET Row : \A r \in S : Cardinality(S \ {r}) = Cardinality(S) - 1
    BY <1>2, FS_RemoveElement
  <1>4. \A S \in SUBSET Row : \A r \in Row \ S : Cardinality(S \cup {r}) = Cardinality(S) + 1
    BY <1>2, FS_AddElement
  <1>5. \A S, T \in SUBSET Row : S \subseteq T => Cardinality(S) <= Cardinality(T)
    BY <1>2, FS_Subset
  <1> QED BY <1>1, <1>2, <1>3, <1>4, <1>5, FS_EmptySet

\* A row moves to another status: one group loses it, one gains it.
LEMMA StatusMoves ==
    ASSUME TypeOK, NEW r \in Row, NEW s \in RowStatuses \ {"unread"}, status[r] # s,
           status' = [status EXCEPT ![r] = s]
    PROVE  /\ \A t \in RowStatuses :
                 /\ t = s => Cardinality(With(t)') = Cardinality(With(t)) + 1
                 /\ t # s /\ t # status[r] => With(t)' = With(t)
           /\ IF status[r] = "unread" THEN Cardinality(Read') = Cardinality(Read) + 1 ELSE Read' = Read
           /\ s = "processing" /\ status[r] = "unread" => Settled' = Settled
           /\ s # "processing" /\ status[r] \in {"unread", "processing"} =>
                 Cardinality(Settled') = Cardinality(Settled) + 1
  <1>1. ASSUME NEW t \in RowStatuses
        PROVE  /\ t = s => With(t)' = With(t) \cup {r} /\ r \notin With(t)
               /\ t # s /\ t # status[r] => With(t)' = With(t)
               /\ With(t) \in SUBSET Row
    BY DEF With, TypeOK
  <1>2. /\ status[r] = "unread" => Read' = Read \cup {r} /\ r \notin Read
        /\ status[r] # "unread" => Read' = Read
        /\ Read \in SUBSET Row
    BY DEF Read, TypeOK
  <1>3. /\ s = "processing" /\ status[r] = "unread" => Settled' = Settled
        /\ s # "processing" /\ status[r] \in {"unread", "processing"} =>
              Settled' = Settled \cup {r} /\ r \notin Settled
        /\ Settled \in SUBSET Row
    BY DEF Settled, TypeOK, RowStatuses
  <1>4. \A t \in RowStatuses : t = s => Cardinality(With(t)') = Cardinality(With(t)) + 1
    BY <1>1, RowSets
  <1>5. status[r] = "unread" => Cardinality(Read') = Cardinality(Read) + 1
    BY <1>2, RowSets
  <1>6. s # "processing" /\ status[r] \in {"unread", "processing"} =>
           Cardinality(Settled') = Cardinality(Settled) + 1
    BY <1>3, RowSets
  <1> QED BY <1>1, <1>2, <1>3, <1>4, <1>5, <1>6

\* A mapper is suspended, resumed, or returns.
LEMMA AwaitMoves ==
    ASSUME TypeOK, NEW r \in Row, NEW a \in Awaits, await' = [await EXCEPT ![r] = a]
    PROVE  /\ await[r] = "nothing" /\ a # "nothing" => Cardinality(InFlight') = Cardinality(InFlight) + 1
           /\ await[r] # "nothing" /\ a = "nothing" => Cardinality(InFlight') = Cardinality(InFlight) - 1
           /\ await[r] # "nothing" /\ a # "nothing" => InFlight' = InFlight
  <1>1. /\ await[r] = "nothing" /\ a # "nothing" => InFlight' = InFlight \cup {r} /\ r \notin InFlight
        /\ await[r] # "nothing" /\ a = "nothing" => InFlight' = InFlight \ {r} /\ r \in InFlight
        /\ await[r] # "nothing" /\ a # "nothing" => InFlight' = InFlight
        /\ InFlight \in SUBSET Row
    BY DEF InFlight, TypeOK
  <1> QED BY <1>1, RowSets

\* Counters that match the rows are in range.
LEMMA CountsInRange ==
    ASSUME CountsMatchRows',
           progress' \in [total : Nat, completed : Nat, successCount : Nat, errorCount : Nat,
                          skippedCount : Nat, running : BOOLEAN, cancelled : BOOLEAN]
    PROVE  progress' \in Frames
  <1>1. /\ {r \in Row : status'[r] # "unread"} \in SUBSET Row /\ InFlight' \in SUBSET Row
        /\ \A t : With(t)' \in SUBSET Row
    BY DEF InFlight, With
  <1>2. /\ progress'.total <= Rows /\ progress'.successCount <= Rows
        /\ progress'.errorCount <= Rows /\ progress'.skippedCount <= Rows
    BY <1>1, RowSets DEF CountsMatchRows
  <1>3. Cardinality(InFlight') \in Nat
    BY <1>1, RowSets
  <1>4. progress'.completed <= Rows
    BY <1>2, <1>3, RowsAssumption DEF CountsMatchRows
  <1> QED BY <1>2, <1>4, RowsAssumption DEF Frames

\* A frame that is scheduled is a frame.
LEMMA EmitType ==
    ASSUME TypeOK, NEW p \in Frames, ScheduleEmit(p)
    PROVE  /\ observed' = observed /\ pending' \in Frames \cup {NoFrame}
           /\ timer' \in {"off", "armed", "ripe"} /\ recent' \in BOOLEAN
           /\ delivered' \in Frames \cup {NoFrame}
  BY DEF TypeOK, ScheduleEmit, emission

\* The counters as numbers.
Numbers ==
    /\ progress.total \in Nat /\ progress.completed \in Nat /\ progress.successCount \in Nat
    /\ progress.errorCount \in Nat /\ progress.skippedCount \in Nat
    /\ progress.total = Cardinality(Read)
    /\ \A t \in RowStatuses : Cardinality(With(t)) \in Nat
    /\ Cardinality(Read) \in Nat /\ Cardinality(Settled) \in Nat /\ Cardinality(InFlight) \in Nat

\* The counters are numbers, and so are the sizes they are compared with.
LEMMA NumbersHold == TypeOK /\ CountsMatchRows => Numbers
  <1> SUFFICES ASSUME TypeOK, CountsMatchRows PROVE Numbers
    OBVIOUS
  <1>1. /\ Read \in SUBSET Row /\ Settled \in SUBSET Row /\ InFlight \in SUBSET Row
        /\ \A t \in RowStatuses : With(t) \in SUBSET Row
    BY DEF Read, Settled, InFlight, With
  <1>2. progress.total = Cardinality(Read)
    BY DEF CountsMatchRows, Read
  <1>3. /\ progress.total \in Nat /\ progress.completed \in Nat /\ progress.successCount \in Nat
        /\ progress.errorCount \in Nat /\ progress.skippedCount \in Nat
    BY RowsAssumption DEF TypeOK, Frames
  <1> QED BY <1>1, <1>2, <1>3, RowSets DEF Numbers

----------------------------------------------------------------------------
(* Steps *)

\* The counting part of the invariant.
Counting == CountsMatchRows /\ OutcomesCounted

Counters == [total : Nat, completed : Nat, successCount : Nat, errorCount : Nat,
             skippedCount : Nat, running : BOOLEAN, cancelled : BOOLEAN]

One(b) == IF b THEN 1 ELSE 0

\* A row changes its status: the counters that change are the ones that should.
LEMMA StatusKeepsCounting ==
    ASSUME IInv, NEW r \in Row, NEW s \in RowStatuses \ {"unread"}, NEW a \in Awaits,
           status[r] \in {"unread", "processing"}, s # status[r],
           status' = [status EXCEPT ![r] = s], await' = [await EXCEPT ![r] = a],
           a = "nothing" <=> s = "skipped", s = "skipped" => status[r] = "unread",
           progress' \in Counters,
           progress'.total = progress.total + One(status[r] = "unread"),
           progress'.completed = progress.completed + One(s = "skipped"),
           progress'.successCount = progress.successCount + One(s = "success"),
           progress'.errorCount = progress.errorCount + One(s = "error"),
           progress'.skippedCount = progress.skippedCount + One(s = "skipped")
    PROVE  Counting' /\ progress' \in Frames
  <1> USE DEF IInv
  <1>0. Numbers /\ (status[r] = "unread" <=> await[r] = "nothing")
    BY NumbersHold DEF Placed, TypeOK, Awaits
  <1>1. /\ progress.successCount = Cardinality(With("success"))
        /\ progress.errorCount = Cardinality(With("error"))
        /\ progress.skippedCount = Cardinality(With("skipped"))
        /\ progress.completed + Cardinality(InFlight) = progress.total
    BY DEF CountsMatchRows
  <1>2. /\ Cardinality(With("success")') = Cardinality(With("success")) + One(s = "success")
        /\ Cardinality(With("error")') = Cardinality(With("error")) + One(s = "error")
        /\ Cardinality(With("skipped")') = Cardinality(With("skipped")) + One(s = "skipped")
    <2>1. \A t \in RowStatuses :
             /\ t = s => Cardinality(With(t)') = Cardinality(With(t)) + 1
             /\ t # s /\ t # status[r] => With(t)' = With(t)
      BY StatusMoves
    <2>2. \A t \in {"success", "error", "skipped"} : t # status[r] /\ t \in RowStatuses
      BY DEF RowStatuses
    <2>3. \A t \in RowStatuses : Cardinality(With(t)) \in Nat
      BY <1>0 DEF Numbers
    <2>4. \A t \in {"success", "error", "skipped"} :
             Cardinality(With(t)') = Cardinality(With(t)) + (IF s = t THEN 1 ELSE 0)
      BY <2>1, <2>2, <2>3
    <2> QED BY <2>4 DEF One
  <1>3. /\ Cardinality(Read') = Cardinality(Read) + One(status[r] = "unread")
        /\ Cardinality(Settled') = Cardinality(Settled) + One(s # "processing")
    <2>1. /\ IF status[r] = "unread" THEN Cardinality(Read') = Cardinality(Read) + 1 ELSE Read' = Read
          /\ s = "processing" /\ status[r] = "unread" => Settled' = Settled
          /\ s # "processing" => Cardinality(Settled') = Cardinality(Settled) + 1
      BY StatusMoves
    <2>2. Cardinality(Read) \in Nat /\ Cardinality(Settled) \in Nat
      BY <1>0 DEF Numbers
    <2>3. Cardinality(Read') = Cardinality(Read) + (IF status[r] = "unread" THEN 1 ELSE 0)
      BY <2>1, <2>2
    <2>4. Cardinality(Settled') = Cardinality(Settled) + (IF s # "processing" THEN 1 ELSE 0)
      BY <2>1, <2>2
    <2> QED BY <2>3, <2>4 DEF One
  <1>4. Cardinality(InFlight') =
           Cardinality(InFlight) + One(status[r] = "unread") - One(s = "skipped")
    <2>1. CASE s = "skipped"
      <3>1. await[r] = "nothing" /\ a = "nothing" /\ await \in [Row -> Awaits]
        BY <1>0, <2>1 DEF TypeOK
      <3>2. InFlight' = InFlight
        BY <3>1 DEF InFlight
      <3> QED BY <1>0, <2>1, <3>2 DEF One, Numbers
    <2>2. CASE s # "skipped"
      <3>1. /\ a # "nothing" /\ Cardinality(InFlight) \in Nat
            /\ status[r] = "unread" <=> await[r] = "nothing"
        BY <1>0, <2>2 DEF Numbers
      <3>2. /\ await[r] = "nothing" => Cardinality(InFlight') = Cardinality(InFlight) + 1
            /\ await[r] # "nothing" => InFlight' = InFlight
        BY <3>1, AwaitMoves
      <3>3. CASE await[r] = "nothing"
        BY <2>2, <3>1, <3>2, <3>3 DEF One
      <3>4. CASE await[r] # "nothing"
        BY <2>2, <3>1, <3>2, <3>4 DEF One
      <3> QED BY <3>3, <3>4
    <2> QED BY <2>1, <2>2
  <1>5. /\ progress'.total = Cardinality(Read')
        /\ progress'.successCount = Cardinality(With("success")')
        /\ progress'.errorCount = Cardinality(With("error")')
        /\ progress'.skippedCount = Cardinality(With("skipped")')
    BY <1>0, <1>1, <1>2, <1>3 DEF Numbers
  <1>6. progress'.completed + Cardinality(InFlight') = progress'.total
    BY <1>0, <1>1, <1>4 DEF Numbers, One
  <1>7. progress'.successCount + progress'.errorCount + progress'.skippedCount = Cardinality(Settled')
    BY <1>0, <1>3 DEF Numbers, One, OutcomesCounted, RowStatuses
  <1>8. Counting'
    BY <1>5, <1>6, <1>7 DEF Counting, CountsMatchRows, OutcomesCounted, Read
  <1> QED BY <1>8, CountsInRange DEF Counting, Counters

\* A row that returns is completed and no longer in flight.
LEMMA ReturnKeepsCounting ==
    ASSUME IInv, NEW r \in Row, RowReturns(r)
    PROVE  Counting' /\ progress' \in Frames
  <1> USE DEF IInv
  <1>1. /\ await[r] = "return" /\ await' = [await EXCEPT ![r] = "nothing"] /\ status' = status
        /\ progress' = [progress EXCEPT !.completed = @ + 1] /\ Numbers
    BY NumbersHold DEF RowReturns
  <1>2. Cardinality(InFlight') = Cardinality(InFlight) - 1
    BY <1>1, AwaitMoves DEF Awaits
  <1>3. /\ progress' \in Counters /\ progress'.completed = progress.completed + 1
        /\ progress'.total = progress.total /\ progress'.successCount = progress.successCount
        /\ progress'.errorCount = progress.errorCount /\ progress'.skippedCount = progress.skippedCount
    BY <1>1, RowsAssumption DEF TypeOK, Frames, Counters
  <1>4. progress'.completed + Cardinality(InFlight') = progress'.total
    BY <1>1, <1>2, <1>3 DEF Numbers, CountsMatchRows
  <1>5. Read' = Read /\ Settled' = Settled /\ \A t \in RowStatuses : With(t)' = With(t)
    BY <1>1 DEF Read, Settled, With
  <1>6. Counting'
    BY <1>1, <1>3, <1>4, <1>5 DEF Counting, CountsMatchRows, OutcomesCounted, Read, RowStatuses
  <1> QED BY <1>3, <1>6, CountsInRange DEF Counting, Counters

\* A row is only moved while the batch is not settled.
LEMMA MovesBeforeSettled ==
    ASSUME IInv, NEW r \in Row, await[r] # "nothing" \/ call = "running", call' = call
    PROVE  call \in {"running", "rejected"} /\ Drained'
  <1>1. call \in {"running", "rejected"}
    BY DEF IInv, Drained, InFlight, TypeOK, Calls
  <1> QED BY <1>1 DEF Drained

\* Every step leaves the emission state well typed.
LEMMA EmissionType ==
    ASSUME TypeOK, progress' \in Frames, ScheduleEmit(progress') \/ UNCHANGED emission
    PROVE  /\ observed' \in BOOLEAN /\ pending' \in Frames \cup {NoFrame}
           /\ timer' \in {"off", "armed", "ripe"} /\ recent' \in BOOLEAN
           /\ delivered' \in Frames \cup {NoFrame}
  BY DEF TypeOK, ScheduleEmit, emission

\* What the row steps share: a step that keeps the counting, moves one row to
\* where it belongs and leaves the slot of the configuration right keeps IInv.
LEMMA RowStepKeeps ==
    ASSUME IInv, Counting', progress' \in Frames, NEW r \in Row,
           await[r] # "nothing" \/ call = "running", call' = call,
           NEW s \in RowStatuses, NEW a \in Awaits,
           status' = [status EXCEPT ![r] = s], await' = [await EXCEPT ![r] = a],
           a \in {"config", "signer"} <=> s = "processing",
           a = "return" => s \in {"success", "error"},
           a = "config" => config' \notin {"perRow", "none"},
           s # "unread",
           progress'.total = progress.total \/ (r = progress.total + 1 /\ progress'.total = r),
           progress'.total = progress.total => status[r] # "unread",
           config' \in {"perRow", "none", "computing", "ready", "failed"},
           config' \in {"perRow", "none"} => config' = config,
           config \in {"perRow", "none"} => bundles' = bundles + (IF config' = config THEN 0 ELSE 1),
           config \notin {"perRow", "none"} => config' = config /\ bundles' = bundles,
           ScheduleEmit(progress') \/ UNCHANGED emission
    PROVE  IInv'
  <1> USE DEF IInv
  <1>1. Drained'
    BY MovesBeforeSettled
  <1>2. Bundled' /\ bundles' \in 0..Rows
    <2>1. Rows \in Nat /\ Rows >= 1
      BY RowsAssumption DEF Row
    <2>2. CASE config \in {"perRow", "none"} /\ config' = config
      BY <2>1, <2>2 DEF Bundled
    <2>3. CASE config \in {"perRow", "none"} /\ config' # config
      BY <2>1, <2>3 DEF Bundled
    <2>4. CASE config \notin {"perRow", "none"}
      BY <2>1, <2>4 DEF Bundled
    <2> QED BY <2>2, <2>3, <2>4
  <1>3. TypeOK'
    BY <1>2, EmissionType DEF TypeOK
  <1>4. Placed'
    <2> SUFFICES ASSUME NEW q \in Row
                 PROVE  /\ await'[q] \in {"config", "signer"} <=> status'[q] = "processing"
                        /\ await'[q] = "return" => status'[q] \in {"success", "error"}
                        /\ await'[q] = "config" => config' \notin {"perRow", "none"}
                        /\ status'[q] # "unread" <=> q <= progress'.total
      BY DEF Placed
    <2>1. progress.total \in Nat /\ r \in Nat /\ q \in Nat
      BY RowsAssumption DEF TypeOK, Frames, Row
    <2>2. status[r] # "unread" <=> r <= progress.total
      BY DEF Placed
    <2>3. CASE q = r
      <3>1. await'[q] = a /\ status'[q] = s
        BY <2>3 DEF TypeOK
      <3>2. q <= progress'.total
        BY <2>1, <2>2, <2>3
      <3> QED BY <3>1, <3>2
    <2>4. CASE q # r
      <3>1. await'[q] = await[q] /\ status'[q] = status[q]
        BY <2>4 DEF TypeOK
      <3>2. q <= progress.total <=> q <= progress'.total
        BY <2>1, <2>4
      <3>3. await[q] = "config" => config \notin {"perRow", "none"}
        BY DEF Placed
      <3> QED BY <3>1, <3>2, <3>3 DEF Placed
    <2> QED BY <2>3, <2>4
  <1> QED BY <1>1, <1>2, <1>3, <1>4 DEF Counting

\* Pulling a row keeps the invariant, whichever way the row goes.
LEMMA MapRowKeeps ==
    ASSUME IInv, NEW r \in Row, MapRow(r)
    PROVE  IInv'
  <1> USE DEF IInv
  <1>1. /\ call = "running" /\ call' = call /\ r = progress.total + 1
        /\ progress.total \in Nat /\ progress.completed \in Nat /\ progress.successCount \in Nat
        /\ progress.errorCount \in Nat /\ progress.skippedCount \in Nat
        /\ progress \in Frames
    BY RowsAssumption DEF MapRow, TypeOK, Frames
  <1>2. status[r] = "unread" /\ await[r] = "nothing" /\ await = [await EXCEPT ![r] = "nothing"]
    <2>1. status[r] = "unread"
      BY <1>1 DEF Placed
    <2>2. await[r] = "nothing"
      BY <2>1 DEF Placed, TypeOK, Awaits
    <2> QED BY <2>1, <2>2 DEF TypeOK
  <1>3. ASSUME status' = [status EXCEPT ![r] = "skipped"],
               progress' = [progress EXCEPT !.total = @ + 1, !.skippedCount = @ + 1,
                                            !.completed = @ + 1],
               ScheduleEmit(progress'), UNCHANGED <<await, config, bundles>>
        PROVE  IInv'
    <2>1. /\ progress' \in Counters /\ progress'.total = progress.total + 1
          /\ progress'.completed = progress.completed + 1
          /\ progress'.successCount = progress.successCount
          /\ progress'.errorCount = progress.errorCount
          /\ progress'.skippedCount = progress.skippedCount + 1
      <3>1. progress' = [total |-> progress.total + 1, completed |-> progress.completed + 1,
                         successCount |-> progress.successCount, errorCount |-> progress.errorCount,
                         skippedCount |-> progress.skippedCount + 1, running |-> progress.running,
                         cancelled |-> progress.cancelled]
        BY <1>1, <1>3 DEF Frames
      <3>2. progress.running \in BOOLEAN /\ progress.cancelled \in BOOLEAN
        BY <1>1 DEF Frames
      <3> QED BY <1>1, <3>1, <3>2 DEF Counters
    <2>2. await' = [await EXCEPT ![r] = "nothing"]
      BY <1>2, <1>3
    <2>3. Counting' /\ progress' \in Frames
      <3>1. progress'.successCount = progress.successCount + 0
            /\ progress'.errorCount = progress.errorCount + 0
        BY <1>1, <2>1
      <3>2. /\ progress'.total = progress.total + One(status[r] = "unread")
            /\ progress'.completed = progress.completed + One("skipped" = "skipped")
            /\ progress'.successCount = progress.successCount + One("skipped" = "success")
            /\ progress'.errorCount = progress.errorCount + One("skipped" = "error")
            /\ progress'.skippedCount = progress.skippedCount + One("skipped" = "skipped")
        BY <1>2, <2>1, <3>1 DEF One
      <3>3. "skipped" \in RowStatuses \ {"unread"} /\ "nothing" \in Awaits
        BY DEF RowStatuses, Awaits
      <3>4. status[r] \in {"unread", "processing"} /\ "skipped" # status[r]
        BY <1>2
      <3> QED BY <1>2, <1>3, <2>1, <2>2, <3>2, <3>3, <3>4, StatusKeepsCounting
    <2>4. config \in {"perRow", "none"} => bundles' = bundles + 0
      BY <1>3, RowsAssumption DEF TypeOK
    <2>5. /\ progress'.total # progress.total /\ progress'.total = r
          /\ "skipped" \in RowStatuses /\ "nothing" \in Awaits
          /\ config \in {"perRow", "none", "computing", "ready", "failed"}
      BY <1>1, <2>1 DEF RowStatuses, Awaits, TypeOK
    <2> QED BY <1>1, <1>3, <2>2, <2>3, <2>4, <2>5, RowStepKeeps
  <1>4. ASSUME NEW s \in {"processing", "error"}, NEW a \in {"config", "signer", "return"},
               status' = [status EXCEPT ![r] = s], await' = [await EXCEPT ![r] = a],
               progress' \in Counters, progress'.total = progress.total + 1,
               progress'.completed = progress.completed,
               progress'.successCount = progress.successCount,
               progress'.errorCount = progress.errorCount + One(s = "error"),
               progress'.skippedCount = progress.skippedCount
        PROVE  Counting' /\ progress' \in Frames
    <2>1. /\ progress'.completed = progress.completed + 0
          /\ progress'.successCount = progress.successCount + 0
          /\ progress'.skippedCount = progress.skippedCount + 0
      BY <1>1, <1>4
    <2>2. /\ s # "skipped" /\ s # "success" /\ a # "nothing"
          /\ s \in RowStatuses \ {"unread"} /\ a \in Awaits
      BY <1>4 DEF RowStatuses, Awaits
    <2>3. /\ progress'.total = progress.total + One(status[r] = "unread")
          /\ progress'.completed = progress.completed + One(s = "skipped")
          /\ progress'.successCount = progress.successCount + One(s = "success")
          /\ progress'.errorCount = progress.errorCount + One(s = "error")
          /\ progress'.skippedCount = progress.skippedCount + One(s = "skipped")
      BY <1>2, <1>4, <2>1, <2>2 DEF One
    <2> QED BY <1>2, <1>4, <2>2, <2>3, StatusKeepsCounting
  <1>5. ASSUME status' = [status EXCEPT ![r] = "processing"],
               progress' = [progress EXCEPT !.total = @ + 1],
               IF config # "perRow"
               THEN /\ await' = [await EXCEPT ![r] = "config"]
                    /\ config' = IF NeedsConfig(config) THEN "computing" ELSE config
                    /\ bundles' = IF NeedsConfig(config) THEN bundles + 1 ELSE bundles
               ELSE /\ await' = [await EXCEPT ![r] = "signer"]
                    /\ UNCHANGED <<config, bundles>>,
               UNCHANGED emission
        PROVE  IInv'
    <2>1. /\ progress' \in Counters /\ progress'.total = progress.total + 1
          /\ progress'.completed = progress.completed
          /\ progress'.successCount = progress.successCount
          /\ progress'.errorCount = progress.errorCount + One("processing" = "error")
          /\ progress'.skippedCount = progress.skippedCount
      BY <1>1, <1>5 DEF Counters, Frames, One
    <2>2. progress'.total # progress.total /\ progress'.total = r
      BY <1>1, <2>1
    <2>3. CASE config = "perRow"
      <3>1. await' = [await EXCEPT ![r] = "signer"] /\ config' = config /\ bundles' = bundles
        BY <1>5, <2>3
      <3>2. Counting' /\ progress' \in Frames
        BY <1>4, <1>5, <2>1, <3>1
      <3>3. bundles' = bundles + 0
        BY <3>1, RowsAssumption DEF TypeOK
      <3> QED BY <1>1, <1>5, <2>2, <2>3, <3>1, <3>2, <3>3, RowStepKeeps
              DEF RowStatuses, Awaits, TypeOK
    <2>4. CASE config = "none"
      <3>1. /\ await' = [await EXCEPT ![r] = "config"] /\ config' = "computing"
            /\ bundles' = bundles + 1
        BY <1>5, <2>4 DEF NeedsConfig
      <3>2. Counting' /\ progress' \in Frames
        BY <1>4, <1>5, <2>1, <3>1
      <3> QED BY <1>1, <1>5, <2>2, <2>4, <3>1, <3>2, RowStepKeeps DEF RowStatuses, Awaits
    <2>5. CASE config \notin {"perRow", "none"}
      <3>1. await' = [await EXCEPT ![r] = "config"] /\ config' = config /\ bundles' = bundles
        BY <1>5, <2>5 DEF NeedsConfig
      <3>2. Counting' /\ progress' \in Frames
        BY <1>4, <1>5, <2>1, <3>1
      <3> QED BY <1>1, <1>5, <2>2, <2>5, <3>1, <3>2, RowStepKeeps
              DEF RowStatuses, Awaits, TypeOK
    <2> QED BY <2>3, <2>4, <2>5
  <1>6. ASSUME status' = [status EXCEPT ![r] = "error"], await' = [await EXCEPT ![r] = "return"],
               progress' = [progress EXCEPT !.total = @ + 1, !.errorCount = @ + 1],
               UNCHANGED <<config, bundles, emission>>
        PROVE  IInv'
    <2>1. /\ progress' \in Counters /\ progress'.total = progress.total + 1
          /\ progress'.completed = progress.completed
          /\ progress'.successCount = progress.successCount
          /\ progress'.errorCount = progress.errorCount + One("error" = "error")
          /\ progress'.skippedCount = progress.skippedCount
      <3>1. progress' = [total |-> progress.total + 1, completed |-> progress.completed,
                         successCount |-> progress.successCount,
                         errorCount |-> progress.errorCount + 1,
                         skippedCount |-> progress.skippedCount, running |-> progress.running,
                         cancelled |-> progress.cancelled]
        BY <1>1, <1>6 DEF Frames
      <3>2. progress.running \in BOOLEAN /\ progress.cancelled \in BOOLEAN
        BY <1>1 DEF Frames
      <3> QED BY <1>1, <3>1, <3>2 DEF Counters, One
    <2>2. progress'.total # progress.total /\ progress'.total = r
      BY <1>1, <2>1
    <2>3. Counting' /\ progress' \in Frames
      BY <1>4, <1>6, <2>1
    <2>4. bundles' = bundles + 0
      BY <1>6, RowsAssumption DEF TypeOK
    <2> QED BY <1>1, <1>6, <2>2, <2>3, <2>4, RowStepKeeps DEF RowStatuses, Awaits, TypeOK
  <1> QED BY <1>3, <1>5, <1>6 DEF MapRow

\* A suspended row gets its outcome.
LEMMA OutcomeKeeps ==
    ASSUME IInv, NEW r \in Row, await[r] \in {"config", "signer"},
           await' = [await EXCEPT ![r] = "return"],
           \/ /\ status' = [status EXCEPT ![r] = "success"]
              /\ progress' = [progress EXCEPT !.successCount = @ + 1]
           \/ /\ status' = [status EXCEPT ![r] = "error"]
              /\ progress' = [progress EXCEPT !.errorCount = @ + 1],
           UNCHANGED <<config, bundles, call, emission>>
    PROVE  IInv'
  <1> USE DEF IInv
  <1>1. /\ await[r] # "nothing" /\ status[r] = "processing"
        /\ config \in {"perRow", "none", "computing", "ready", "failed"}
        /\ progress \in Frames
        /\ progress.running \in BOOLEAN /\ progress.cancelled \in BOOLEAN
        /\ progress.total \in Nat /\ progress.completed \in Nat /\ progress.successCount \in Nat
        /\ progress.errorCount \in Nat /\ progress.skippedCount \in Nat
    BY RowsAssumption DEF Placed, TypeOK, Frames
  <1>2. PICK s \in {"success", "error"} :
           /\ status' = [status EXCEPT ![r] = s]
           /\ \/ s = "success" /\ progress' = [progress EXCEPT !.successCount = @ + 1]
              \/ s = "error" /\ progress' = [progress EXCEPT !.errorCount = @ + 1]
    OBVIOUS
  <1>3. /\ progress' \in Counters
        /\ progress'.total = progress.total
        /\ progress'.completed = progress.completed
        /\ progress'.successCount = progress.successCount + One(s = "success")
        /\ progress'.errorCount = progress.errorCount + One(s = "error")
        /\ progress'.skippedCount = progress.skippedCount
    <2>1. CASE s = "success"
      <3>1. progress' = [total |-> progress.total, completed |-> progress.completed,
                         successCount |-> progress.successCount + 1,
                         errorCount |-> progress.errorCount,
                         skippedCount |-> progress.skippedCount, running |-> progress.running,
                         cancelled |-> progress.cancelled]
        BY <1>1, <1>2, <2>1 DEF Frames
      <3> QED BY <1>1, <2>1, <3>1 DEF Counters, One
    <2>2. CASE s = "error"
      <3>1. progress' = [total |-> progress.total, completed |-> progress.completed,
                         successCount |-> progress.successCount,
                         errorCount |-> progress.errorCount + 1,
                         skippedCount |-> progress.skippedCount, running |-> progress.running,
                         cancelled |-> progress.cancelled]
        BY <1>1, <1>2, <2>2 DEF Frames
      <3> QED BY <1>1, <2>2, <3>1 DEF Counters, One
    <2> QED BY <2>1, <2>2
  <1>4. Counting' /\ progress' \in Frames
    <2>1. /\ progress'.total = progress.total + 0 /\ progress'.completed = progress.completed + 0
          /\ progress'.skippedCount = progress.skippedCount + 0
      BY <1>1, <1>3
    <2>2. /\ s # "skipped" /\ s \in RowStatuses \ {"unread"} /\ "return" \in Awaits
          /\ status[r] \in {"unread", "processing"} /\ s # status[r]
      BY <1>1, <1>2 DEF RowStatuses, Awaits
    <2>3. /\ progress'.total = progress.total + One(status[r] = "unread")
          /\ progress'.completed = progress.completed + One(s = "skipped")
          /\ progress'.skippedCount = progress.skippedCount + One(s = "skipped")
      BY <1>1, <2>1, <2>2 DEF One
    <2> QED BY <1>2, <1>3, <2>2, <2>3, StatusKeepsCounting
  <1>5. config \in {"perRow", "none"} => bundles' = bundles + 0
    BY RowsAssumption DEF TypeOK
  <1>6. s \in RowStatuses /\ "return" \in Awaits /\ s \notin {"unread", "processing"}
    BY <1>2 DEF RowStatuses, Awaits
  <1> QED BY <1>1, <1>2, <1>3, <1>4, <1>5, <1>6, RowStepKeeps

\* A row that resumes from the shared configuration keeps the invariant.
LEMMA RowGetsConfigKeeps ==
    ASSUME IInv, NEW r \in Row, RowGetsConfig(r)
    PROVE  IInv'
  <1> USE DEF IInv
  <1>1. /\ await[r] = "config" /\ status[r] = "processing" /\ config \notin {"perRow", "none"}
        /\ UNCHANGED <<config, bundles, call, emission>>
        /\ config \in {"perRow", "none", "computing", "ready", "failed"}
        /\ status = [status EXCEPT ![r] = "processing"]
        /\ progress \in Frames
    BY DEF RowGetsConfig, Placed, TypeOK
  <1>2. ASSUME await' = [await EXCEPT ![r] = "signer"], UNCHANGED <<status, progress>>
        PROVE  IInv'
    <2>1. Cardinality(InFlight') = Cardinality(InFlight)
      BY <1>1, <1>2, AwaitMoves DEF Awaits
    <2>2. /\ {q \in Row : status'[q] # "unread"} = {q \in Row : status[q] # "unread"}
          /\ Settled' = Settled /\ \A t : With(t)' = With(t)
      BY <1>2 DEF Settled, With
    <2>3. Counting'
      BY <1>2, <2>1, <2>2 DEF Counting, CountsMatchRows, OutcomesCounted
    <2>4. /\ status' = [status EXCEPT ![r] = "processing"] /\ progress' \in Frames
          /\ progress'.total = progress.total
          /\ "processing" \in RowStatuses /\ "signer" \in Awaits
      BY <1>1, <1>2 DEF RowStatuses, Awaits
    <2> QED BY <1>1, <1>2, <2>3, <2>4, RowStepKeeps
  <1>3. ASSUME await' = [await EXCEPT ![r] = "return"], status' = [status EXCEPT ![r] = "error"],
               progress' = [progress EXCEPT !.errorCount = @ + 1]
        PROVE  IInv'
    BY <1>1, <1>3, OutcomeKeeps
  <1> QED BY <1>2, <1>3 DEF RowGetsConfig

\* The signer's answer keeps the invariant.
LEMMA RowSignedKeeps ==
    ASSUME IInv, NEW r \in Row, RowSigned(r)
    PROVE  IInv'
  <1>1. /\ await[r] \in {"config", "signer"} /\ await' = [await EXCEPT ![r] = "return"]
        /\ UNCHANGED <<config, bundles, call, emission>>
    BY DEF RowSigned
  <1> QED BY <1>1, OutcomeKeeps DEF RowSigned

\* The mapper's return keeps the invariant.
LEMMA RowReturnsKeeps ==
    ASSUME IInv, NEW r \in Row, RowReturns(r)
    PROVE  IInv'
  <1> USE DEF IInv
  <1>1. /\ await[r] = "return" /\ await' = [await EXCEPT ![r] = "nothing"]
        /\ status[r] \in {"success", "error"}
        /\ UNCHANGED <<status, config, bundles, call>> /\ ScheduleEmit(progress')
        /\ progress' = [progress EXCEPT !.completed = @ + 1] /\ progress \in Frames
        /\ config \in {"perRow", "none", "computing", "ready", "failed"}
        /\ status[r] \in RowStatuses /\ "nothing" \in Awaits
    BY DEF RowReturns, Placed, TypeOK, RowStatuses, Awaits
  <1>2. Counting' /\ progress' \in Frames
    BY ReturnKeepsCounting
  <1>3. /\ status' = [status EXCEPT ![r] = status[r]] /\ progress'.total = progress.total
        /\ status[r] # "unread" /\ status[r] # "processing"
    BY <1>1 DEF TypeOK, Frames
  <1>4. config \in {"perRow", "none"} => bundles' = bundles + 0
    BY <1>1, RowsAssumption DEF TypeOK
  <1> QED BY <1>1, <1>2, <1>3, <1>4, RowStepKeeps

\* Steps that move no row.
LEMMA QuietKeeps ==
    ASSUME IInv, UNCHANGED <<status, await, bundles>>,
           progress' \in Frames, progress'.total = progress.total,
           progress'.completed = progress.completed,
           progress'.successCount = progress.successCount,
           progress'.errorCount = progress.errorCount,
           progress'.skippedCount = progress.skippedCount
    PROVE  Counting' /\ InFlight' = InFlight /\ (config' = config => Placed' /\ Bundled')
  <1>1. /\ {q \in Row : status'[q] # "unread"} = {q \in Row : status[q] # "unread"}
        /\ Settled' = Settled /\ \A t : With(t)' = With(t)
        /\ InFlight' = InFlight
    BY DEF Settled, With, InFlight
  <1>2. Counting'
    BY <1>1 DEF IInv, Counting, CountsMatchRows, OutcomesCounted
  <1> QED BY <1>1, <1>2 DEF IInv, Placed, Bundled

\* The steps of start(), cancel(), the configuration and the timer keep it too.
LEMMA OtherStepsKeep ==
    ASSUME IInv,
           \/ Start \/ Finish \/ Flushed \/ Fail \/ Cancel
           \/ ConfigSettles \/ WindowPasses \/ TimerFires \/ UNCHANGED vars
    PROVE  IInv'
  <1> USE DEF IInv
  <1>0. /\ progress \in Frames /\ config \in {"perRow", "none", "computing", "ready", "failed"}
        /\ Rows \in Nat
    BY RowsAssumption DEF TypeOK
  <1>1. /\ UNCHANGED <<status, await, bundles>> /\ progress' \in Frames
        /\ progress'.total = progress.total /\ progress'.completed = progress.completed
        /\ progress'.successCount = progress.successCount
        /\ progress'.errorCount = progress.errorCount
        /\ progress'.skippedCount = progress.skippedCount
        /\ (config' = config \/ ConfigSettles)
        /\ \A c \in BOOLEAN : [progress EXCEPT !.cancelled = c] \in Frames
    BY <1>0 DEF Start, Finish, Flushed, Fail, Cancel, ConfigSettles, WindowPasses, TimerFires,
                vars, emission, Frames
  <1>2. Counting' /\ InFlight' = InFlight /\ (config' = config => Placed' /\ Bundled')
    BY <1>1, QuietKeeps
  <1>3. Placed' /\ Bundled'
    BY <1>1, <1>2 DEF ConfigSettles, Placed, Bundled
  <1>4. TypeOK'
    BY ZenonT(60), <1>1 DEF TypeOK, Start, Finish, Flushed, Fail, Cancel, ConfigSettles, WindowPasses,
                TimerFires, vars, emission, Calls
  <1>5. Drained'
    <2>1. CASE Start \/ Fail
      BY <1>2, <2>1 DEF Start, Fail, Drained
    <2>2. CASE Finish
      <3>1. /\ progress.total = Rows /\ InFlight = {} /\ pending' = NoFrame
            /\ observed' = observed /\ (observed => delivered' = progress')
        BY <2>2 DEF Finish
      <3>2. progress' = [progress' EXCEPT !.cancelled = progress'.cancelled]
        BY <1>1 DEF Frames
      <3>3. observed' => delivered' = [progress' EXCEPT !.cancelled = delivered'.cancelled]
        <4>1. CASE observed
          <5>1. delivered' = progress'
            BY <3>1, <4>1
          <5> QED BY <3>2, <5>1
        <4>2. CASE ~observed
          BY <3>1, <4>2
        <4> QED BY <4>1, <4>2
      <3> QED BY <1>1, <1>2, <3>1, <3>3 DEF Drained
    <2>3. CASE Cancel
      <3>1. \A c : [progress' EXCEPT !.cancelled = c] = [progress EXCEPT !.cancelled = c]
        BY <1>0, <2>3 DEF Cancel, Frames
      <3>2. UNCHANGED <<call, emission>>
        BY <2>3 DEF Cancel
      <3> QED BY <1>1, <1>2, <3>1, <3>2 DEF Drained, emission
    <2>4. CASE Flushed \/ ConfigSettles \/ WindowPasses \/ UNCHANGED vars
      BY <1>1, <1>2, <2>4 DEF Flushed, ConfigSettles, WindowPasses, vars, emission, Drained
    <2>5. CASE TimerFires
      <3>1. /\ UNCHANGED <<progress, call, observed>> /\ pending' = NoFrame
            /\ pending = NoFrame => delivered' = delivered
        BY <2>5 DEF TimerFires
      <3> QED BY <1>1, <1>2, <3>1 DEF Drained
    <2> QED BY <2>1, <2>2, <2>3, <2>4, <2>5
  <1> QED BY <1>2, <1>3, <1>4, <1>5 DEF Counting

\* Every step keeps the invariant.
LEMMA Step == IInv /\ [Next]_vars => IInv'
  <1> SUFFICES ASSUME IInv, [Next]_vars PROVE IInv'
    OBVIOUS
  <1>1. ASSUME NEW r \in Row, MapRow(r) \/ RowGetsConfig(r) \/ RowSigned(r) \/ RowReturns(r)
        PROVE  IInv'
    BY <1>1, MapRowKeeps, RowGetsConfigKeeps, RowSignedKeeps, RowReturnsKeeps
  <1> QED BY <1>1, OtherStepsKeep DEF Next

\* A new engine satisfies the invariant.
LEMMA InitHolds == Init => IInv
  <1> SUFFICES ASSUME Init PROVE IInv
    OBVIOUS
  <1>1. TypeOK
    <2>1. 0 \in 0..Rows
      BY RowsAssumption
    <2>2. progress \in Frames
      BY <2>1 DEF Init, Frames
    <2> QED BY <2>1, <2>2 DEF Init, TypeOK, RowStatuses, Awaits, Calls
  <1>2. /\ InFlight = {} /\ Settled = {} /\ With("success") = {} /\ With("error") = {}
        /\ With("skipped") = {} /\ {r \in Row : status[r] # "unread"} = {}
    BY DEF Init, InFlight, Settled, With
  <1>3. CountsMatchRows /\ OutcomesCounted
    BY <1>2, RowSets DEF Init, CountsMatchRows, OutcomesCounted
  <1>4. Placed
    <2> SUFFICES ASSUME NEW r \in Row
                 PROVE  /\ await[r] \in {"config", "signer"} <=> status[r] = "processing"
                        /\ await[r] = "return" => status[r] \in {"success", "error"}
                        /\ await[r] = "config" => config \notin {"perRow", "none"}
                        /\ status[r] # "unread" <=> r <= progress.total
      BY DEF Placed
    <2>1. status[r] = "unread" /\ await[r] = "nothing" /\ progress.total = 0
      BY DEF Init
    <2>2. ~ (r <= 0)
      BY RowsAssumption DEF Row
    <2> QED BY <2>1, <2>2
  <1>5. Bundled /\ Drained
    BY <1>2 DEF Init, Bundled, Drained
  <1> QED BY <1>1, <1>3, <1>4, <1>5 DEF IInv

\* The engine's inductive invariant, for any number of rows and workers.
THEOREM EngineInvariant == Spec => []IInv
  BY InitHolds, Step, PTL DEF Spec

\* Type correctness: no counter leaves 0..Rows (batch-engine.ts, the progress
\* object).
THEOREM EngineTypeCorrect == Spec => []TypeOK
  BY EngineInvariant, PTL DEF IInv

\* No row is counted twice or forgotten, whatever order the mappers resume in.
THEOREM CountsMatchRowsAlways == Spec => []CountsMatchRows
  BY EngineInvariant, PTL DEF IInv

\* A batch computes its proof configuration at most once, also when the rows
\* that need it arrive while it is being computed, and also when it fails.
THEOREM OneBundleAlways == Spec => []OneBundle
  <1>1. IInv => OneBundle
    BY DEF IInv, Bundled, OneBundle
  <1> QED BY <1>1, EngineInvariant, PTL

\* With every row pulled and no mapper left, every row has an outcome.
LEMMA DrainedIsSettled ==
    ASSUME IInv, InFlight = {}, progress.total = Rows
    PROVE  /\ Settled = Row /\ Cardinality(Settled) = Rows
           /\ progress.completed = Rows
  <1>1. ASSUME NEW r \in Row PROVE status[r] \in {"success", "error", "skipped"}
    BY RowsAssumption DEF IInv, InFlight, Placed, TypeOK, RowStatuses, Row
  <1>2. Settled = Row
    BY <1>1 DEF Settled
  <1>3. progress.completed + 0 = Rows /\ progress.completed \in Nat
    BY RowSets, RowsAssumption DEF IInv, CountsMatchRows, TypeOK, Frames
  <1> QED BY <1>2, <1>3, RowSets

\* start() resolves only with every row in a final state and counted.
THEOREM ResolvedIsFinalAlways == Spec => []ResolvedIsFinal
  <1>1. IInv => ResolvedIsFinal
    <2> SUFFICES ASSUME IInv, call \in {"flushing", "resolved"}
                 PROVE  /\ \A r \in Row : status[r] \in {"success", "error", "skipped"}
                        /\ progress.completed = Rows
      BY DEF ResolvedIsFinal
    <2>1. InFlight = {} /\ progress.total = Rows
      BY DEF IInv, Drained
    <2>2. Settled = Row /\ progress.completed = Rows
      BY <2>1, DrainedIsSettled
    <2> QED BY <2>2 DEF Settled
  <1> QED BY <1>1, EngineInvariant, PTL

\* When start() resolves, the observers have been handed the final frame, with at
\* most a cancel() after it to tell them apart: what the comment at the call says
\* (batch-engine.ts:855), and the one on ProgressObserver (:509-511) denies.
THEOREM FinalFrameShown ==
    Spec => [](call \in {"flushing", "resolved"} /\ observed =>
                   delivered = [progress EXCEPT !.cancelled = delivered.cancelled])
  <1>1. IInv => (call \in {"flushing", "resolved"} /\ observed =>
                     delivered = [progress EXCEPT !.cancelled = delivered.cancelled])
    BY DEF IInv, Drained
  <1> QED BY <1>1, EngineInvariant, PTL

\* After the final frame the observers get no other, wherever the flush timer and
\* the throttle's window stand when the last mapper returns (start, flushProgress).
THEOREM SilentAfterAlways == Spec => SilentAfter
  <1>1. IInv /\ [Next]_vars =>
            [(call \in {"flushing", "resolved"}) => delivered' = delivered]_vars
    <2> SUFFICES ASSUME IInv, Next, call \in {"flushing", "resolved"}
                 PROVE  delivered' = delivered
      OBVIOUS
    <2>1. InFlight = {} /\ pending = NoFrame
      BY DEF IInv, Drained
    <2>2. CASE \E r \in Row : MapRow(r)
      BY <2>2 DEF MapRow
    <2>3. CASE \E r \in Row : RowGetsConfig(r) \/ RowSigned(r) \/ RowReturns(r)
      BY <2>1, <2>3 DEF RowGetsConfig, RowSigned, RowReturns, InFlight
    <2>4. CASE Start \/ Finish \/ Flushed \/ Fail \/ Cancel \/ ConfigSettles \/ WindowPasses
      BY <2>4 DEF Start, Finish, Flushed, Fail, Cancel, ConfigSettles, WindowPasses, emission
    <2>5. CASE TimerFires
      BY <2>1, <2>5 DEF TimerFires
    <2> QED BY <2>2, <2>3, <2>4, <2>5 DEF Next
  <1> QED BY <1>1, EngineInvariant, PTL DEF Spec, SilentAfter

----------------------------------------------------------------------------
(* The contract *)

\* The engine as its drivers see it.
Seen == [state |-> IF call = "flushing" THEN "settled"
                   ELSE IF call = "resolved" THEN "settled" ELSE call,
         done |-> progress.successCount + progress.errorCount + progress.skippedCount,
         ok |-> progress.successCount, bad |-> progress.errorCount,
         cancelled |-> progress.cancelled]

\* The rows counted as having an outcome.
Outcomes == progress.successCount + progress.errorCount + progress.skippedCount

\* A row gets its outcome: the contract counts one row, of one kind.
LEMMA OutcomeIsARow ==
    ASSUME IInv, IInv', NEW r \in Row, status[r] \in {"unread", "processing"},
           NEW s \in {"success", "error", "skipped"}, status' = [status EXCEPT ![r] = s],
           call \in {"running", "rejected"}, call' = call,
           progress'.successCount = progress.successCount + One(s = "success"),
           progress'.errorCount = progress.errorCount + One(s = "error"),
           progress'.skippedCount = progress.skippedCount + One(s = "skipped"),
           progress'.cancelled = progress.cancelled
    PROVE  Contract!Row
  <1>1. /\ progress.successCount \in Nat /\ progress.errorCount \in Nat
        /\ progress.skippedCount \in Nat
    BY RowsAssumption DEF IInv, TypeOK, Frames
  <1>2. /\ Settled \in SUBSET Row /\ Settled' \in SUBSET Row
        /\ Settled' = Settled \cup {r} /\ r \notin Settled
    BY DEF Settled, IInv, TypeOK
  <1>3. Cardinality(Settled) \in Nat /\ Cardinality(Settled') = Cardinality(Settled) + 1
        /\ Cardinality(Settled') <= Rows
    BY <1>2, RowSets
  <1>4. progress.successCount + progress.errorCount + progress.skippedCount < Rows
    BY <1>3, RowsAssumption DEF IInv, OutcomesCounted
  <1>8. /\ Seen = [state |-> call, done |-> Outcomes, ok |-> progress.successCount,
                   bad |-> progress.errorCount, cancelled |-> progress.cancelled]
        /\ Seen' = [state |-> call, done |-> Outcomes', ok |-> progress'.successCount,
                    bad |-> progress'.errorCount, cancelled |-> progress.cancelled]
        /\ Seen.state \in {"running", "rejected"} /\ Seen.done < Rows
    BY <1>4 DEF Seen, Outcomes
  <1>9. Seen \in [state : {call}, done : Nat, ok : Nat, bad : Nat, cancelled : {progress.cancelled}]
    BY <1>1, <1>8 DEF Outcomes
  <1>5. CASE s = "success"
    <2>1. /\ progress'.successCount = progress.successCount + 1
          /\ progress'.errorCount = progress.errorCount
          /\ progress'.skippedCount = progress.skippedCount
      BY <1>1, <1>5 DEF One
    <2>2. Outcomes' = Outcomes + 1
      BY <1>1, <2>1 DEF Outcomes
    <2>3. Seen' = [Seen EXCEPT !.done = @ + 1, !.ok = @ + 1]
      <3>1. PICK T : T = [Seen EXCEPT !.done = @ + 1, !.ok = @ + 1]
        OBVIOUS
      <3>2. T = [state |-> Seen.state, done |-> Seen.done + 1, ok |-> Seen.ok + 1, bad |-> Seen.bad,
                 cancelled |-> Seen.cancelled]
        BY <1>9, <3>1
      <3> QED BY <1>8, <2>1, <2>2, <3>1, <3>2
    <2> QED BY <1>8, <2>3 DEF Contract!Row, Seen
  <1>6. CASE s = "error"
    <2>1. /\ progress'.successCount = progress.successCount
          /\ progress'.errorCount = progress.errorCount + 1
          /\ progress'.skippedCount = progress.skippedCount
      BY <1>1, <1>6 DEF One
    <2>2. Outcomes' = Outcomes + 1
      BY <1>1, <2>1 DEF Outcomes
    <2>3. Seen' = [Seen EXCEPT !.done = @ + 1, !.bad = @ + 1]
      <3>1. PICK T : T = [Seen EXCEPT !.done = @ + 1, !.bad = @ + 1]
        OBVIOUS
      <3>2. T = [state |-> Seen.state, done |-> Seen.done + 1, ok |-> Seen.ok, bad |-> Seen.bad + 1,
                 cancelled |-> Seen.cancelled]
        BY <1>9, <3>1
      <3> QED BY <1>8, <2>1, <2>2, <3>1, <3>2
    <2> QED BY <1>8, <2>3 DEF Contract!Row, Seen
  <1>7. CASE s = "skipped"
    BY <1>1, <1>4, <1>7 DEF Contract!Row, One
  <1> QED BY <1>5, <1>6, <1>7

\* A step of a row is a row of the contract, or is not seen.
LEMMA RowStepsRefine ==
    ASSUME IInv, IInv', NEW r \in Row,
           MapRow(r) \/ RowGetsConfig(r) \/ RowSigned(r) \/ RowReturns(r)
    PROVE  Contract!Row \/ UNCHANGED Seen
  <1> USE DEF IInv
  <1>1. /\ progress \in Frames /\ progress.successCount \in Nat /\ progress.errorCount \in Nat
        /\ progress.skippedCount \in Nat
    BY RowsAssumption DEF TypeOK, Frames
  <1>2. call \in {"running", "rejected"} /\ call' = call
    <2>1. (await[r] # "nothing" \/ call = "running") /\ call' = call
      BY DEF MapRow, RowGetsConfig, RowSigned, RowReturns
    <2> QED BY <2>1, MovesBeforeSettled
  <1>3. ASSUME NEW s \in {"success", "error"}, status[r] \in {"unread", "processing"},
               status' = [status EXCEPT ![r] = s],
               progress'.successCount = progress.successCount + One(s = "success"),
               progress'.errorCount = progress.errorCount + One(s = "error"),
               progress'.skippedCount = progress.skippedCount,
               progress'.cancelled = progress.cancelled
        PROVE  Contract!Row
    <2>1. progress'.skippedCount = progress.skippedCount + One(s = "skipped")
      BY <1>1, <1>3 DEF One
    <2> QED BY <1>2, <1>3, <2>1, OutcomeIsARow
  <1>4. CASE MapRow(r)
    <2>1. status[r] = "unread" /\ r \in Nat /\ progress.total \in Nat
      BY <1>1, <1>4, RowsAssumption DEF MapRow, Placed, Frames, Row
    <2>2. ASSUME status' = [status EXCEPT ![r] = "skipped"],
                 progress' = [progress EXCEPT !.total = @ + 1, !.skippedCount = @ + 1,
                                              !.completed = @ + 1]
          PROVE  Contract!Row
      <3>1. /\ progress'.successCount = progress.successCount + One("skipped" = "success")
            /\ progress'.errorCount = progress.errorCount + One("skipped" = "error")
            /\ progress'.skippedCount = progress.skippedCount + One("skipped" = "skipped")
            /\ progress'.cancelled = progress.cancelled
        BY <1>1, <2>2 DEF Frames, One
      <3> QED BY <1>2, <2>1, <2>2, <3>1, OutcomeIsARow
    <2>3. ASSUME progress' = [progress EXCEPT !.total = @ + 1]
          PROVE  UNCHANGED Seen
      BY <1>1, <1>2, <2>3 DEF Frames, Seen
    <2>4. ASSUME status' = [status EXCEPT ![r] = "error"],
                 progress' = [progress EXCEPT !.total = @ + 1, !.errorCount = @ + 1]
          PROVE  Contract!Row
      <3>1. /\ progress'.successCount = progress.successCount + One("error" = "success")
            /\ progress'.errorCount = progress.errorCount + One("error" = "error")
            /\ progress'.skippedCount = progress.skippedCount
            /\ progress'.cancelled = progress.cancelled
        BY <1>1, <2>4 DEF Frames, One
      <3> QED BY <1>3, <2>1, <2>4, <3>1
    <2> QED BY <1>4, <2>2, <2>3, <2>4 DEF MapRow
  <1>5. ASSUME status[r] = "processing",
               \/ /\ status' = [status EXCEPT ![r] = "success"]
                  /\ progress' = [progress EXCEPT !.successCount = @ + 1]
               \/ /\ status' = [status EXCEPT ![r] = "error"]
                  /\ progress' = [progress EXCEPT !.errorCount = @ + 1]
        PROVE  Contract!Row
    <2>1. ASSUME status' = [status EXCEPT ![r] = "success"],
                 progress' = [progress EXCEPT !.successCount = @ + 1]
          PROVE  Contract!Row
      <3>1. /\ progress'.successCount = progress.successCount + One("success" = "success")
            /\ progress'.errorCount = progress.errorCount + One("success" = "error")
            /\ progress'.skippedCount = progress.skippedCount
            /\ progress'.cancelled = progress.cancelled
        BY <1>1, <2>1 DEF Frames, One
      <3> QED BY <1>3, <1>5, <2>1, <3>1
    <2>2. ASSUME status' = [status EXCEPT ![r] = "error"],
                 progress' = [progress EXCEPT !.errorCount = @ + 1]
          PROVE  Contract!Row
      <3>1. /\ progress'.successCount = progress.successCount + One("error" = "success")
            /\ progress'.errorCount = progress.errorCount + One("error" = "error")
            /\ progress'.skippedCount = progress.skippedCount
            /\ progress'.cancelled = progress.cancelled
        BY <1>1, <2>2 DEF Frames, One
      <3> QED BY <1>3, <1>5, <2>2, <3>1
    <2> QED BY <1>5, <2>1, <2>2
  <1>6. CASE RowGetsConfig(r)
    <2>1. status[r] = "processing"
      BY <1>6 DEF RowGetsConfig, Placed
    <2>2. ASSUME UNCHANGED <<status, progress>> PROVE UNCHANGED Seen
      BY <1>2, <2>2 DEF Seen
    <2> QED BY <1>5, <1>6, <2>1, <2>2 DEF RowGetsConfig
  <1>7. CASE RowSigned(r)
    <2>1. status[r] = "processing"
      BY <1>7 DEF RowSigned, Placed
    <2> QED BY <1>5, <1>7, <2>1 DEF RowSigned
  <1>8. CASE RowReturns(r)
    <2>1. progress' = [progress EXCEPT !.completed = @ + 1]
      BY <1>8 DEF RowReturns
    <2> QED BY <1>1, <1>2, <2>1 DEF Frames, Seen
  <1> QED BY <1>4, <1>6, <1>7, <1>8

\* The other steps are the contract's start, cancel, settle and reject, or are
\* not seen.
LEMMA OtherStepsRefine ==
    ASSUME IInv, IInv',
           \/ Start \/ Finish \/ Flushed \/ Fail \/ Cancel
           \/ ConfigSettles \/ WindowPasses \/ TimerFires \/ UNCHANGED vars
    PROVE  Contract!Next \/ UNCHANGED Seen
  <1> USE DEF IInv
  <1>0. progress \in Frames
    BY DEF TypeOK
  <1> DEFINE Shown == Calls \cup {"settled"}
  <1>00. Seen \in [state : Shown, done : Nat, ok : Nat, bad : Nat, cancelled : BOOLEAN]
    <2>1. /\ progress.successCount \in Nat /\ progress.errorCount \in Nat
          /\ progress.skippedCount \in Nat /\ progress.cancelled \in BOOLEAN
      BY <1>0, RowsAssumption DEF Frames
    <2> QED BY <2>1 DEF Seen, TypeOK, Calls
  <1>1. CASE Start
    <2>1. /\ progress'.successCount = progress.successCount
          /\ progress'.errorCount = progress.errorCount
          /\ progress'.skippedCount = progress.skippedCount /\ progress'.cancelled = FALSE
          /\ call = "idle" /\ call' = "running"
      BY <1>0, <1>1 DEF Start, Frames
    <2>2. PICK T : T = [Seen EXCEPT !.state = "running", !.cancelled = FALSE]
      OBVIOUS
    <2>3. T = [state |-> "running", done |-> Seen.done, ok |-> Seen.ok, bad |-> Seen.bad,
               cancelled |-> FALSE]
      BY <1>00, <2>2
    <2>4. Seen' = T /\ Seen.state = "idle"
      BY <2>1, <2>3 DEF Seen
    <2> QED BY <2>2, <2>4 DEF Contract!Next, Contract!Start, Seen
  <1>2. CASE Finish
    <2>1. /\ progress'.successCount = progress.successCount
          /\ progress'.errorCount = progress.errorCount
          /\ progress'.skippedCount = progress.skippedCount /\ progress'.cancelled = progress.cancelled
          /\ call = "running" /\ call' \in {"flushing", "resolved"}
          /\ InFlight = {} /\ progress.total = Rows
      BY <1>0, <1>2 DEF Finish, Frames
    <2>2. progress.successCount + progress.errorCount + progress.skippedCount = Rows
      BY <2>1, DrainedIsSettled DEF OutcomesCounted
    <2> QED BY <2>1, <2>2 DEF Contract!Next, Contract!Settle, Seen
  <1>3. CASE Fail
    <2>1. /\ progress'.successCount = progress.successCount
          /\ progress'.errorCount = progress.errorCount
          /\ progress'.skippedCount = progress.skippedCount /\ progress'.cancelled = progress.cancelled
          /\ call = "running" /\ call' = "rejected"
      BY <1>0, <1>3 DEF Fail, Frames
    <2> QED BY <2>1 DEF Contract!Next, Contract!Reject, Seen
  <1>4. CASE Cancel
    <2>1. /\ progress'.successCount = progress.successCount
          /\ progress'.errorCount = progress.errorCount
          /\ progress'.skippedCount = progress.skippedCount /\ progress'.cancelled = TRUE
          /\ call' = call
      BY <1>0, <1>4 DEF Cancel, Frames
    <2>2. PICK T : T = [Seen EXCEPT !.cancelled = TRUE]
      OBVIOUS
    <2>3. T = [state |-> Seen.state, done |-> Seen.done, ok |-> Seen.ok, bad |-> Seen.bad,
               cancelled |-> TRUE]
      BY <1>00, <2>2
    <2>4. Seen' = T
      BY <2>1, <2>3 DEF Seen
    <2> QED BY <2>2, <2>4 DEF Contract!Next, Contract!Cancel, Seen
  <1>5. CASE Flushed
    BY <1>5 DEF Flushed, Seen
  <1>6. CASE ConfigSettles \/ WindowPasses \/ TimerFires \/ UNCHANGED vars
    BY <1>6 DEF ConfigSettles, WindowPasses, TimerFires, vars, Seen
  <1> QED BY <1>1, <1>2, <1>3, <1>4, <1>5, <1>6

\* The engine keeps the contract its drivers (routes/batch.ts, worker.ts) are
\* modelled with: outcomes only accumulate, it settles only with all of them.
THEOREM EngineImplementsContract == Spec => ContractSpec
  <1>1. Init => Contract!Init
    BY DEF Init, Contract!Init
  <1>2. IInv /\ IInv' /\ [Next]_vars => [Contract!Next]_Seen
    <2> SUFFICES ASSUME IInv, IInv', [Next]_vars PROVE Contract!Next \/ UNCHANGED Seen
      OBVIOUS
    <2>1. ASSUME NEW r \in Row, MapRow(r) \/ RowGetsConfig(r) \/ RowSigned(r) \/ RowReturns(r)
          PROVE  Contract!Next \/ UNCHANGED Seen
      BY <2>1, RowStepsRefine DEF Contract!Next
    <2> QED BY <2>1, OtherStepsRefine DEF Next
  <1> QED BY <1>1, <1>2, EngineInvariant, PTL DEF Spec, ContractSpec, Contract!Spec, Seen

----------------------------------------------------------------------------
(* Order of the frames *)

\* The frame that waits for the timer has the completed count of the moment,
\* and nothing newer was handed out.
Ordered ==
    /\ pending # NoFrame => pending.completed = progress.completed
    /\ delivered # NoFrame => delivered.completed <= progress.completed

\* Where frames come from.  The completed count moves only in a turn that ends
\* with a frame, which replaces the one that waits or is itself handed out;
\* the timer hands out the one that waits.
Emitted ==
    /\ \/ pending' \in {NoFrame, progress'}
       \/ pending' = pending /\ progress'.completed = progress.completed
    /\ \/ delivered' \in {delivered, progress'}
       \/ delivered' = pending /\ pending # NoFrame /\ progress' = progress

\* A turn that ends with scheduleProgressEmit has emitted its own frame; one
\* without observers has none that waits.
LEMMA ScheduledIsEmitted ==
    ASSUME ScheduleEmit(progress'), ~observed => pending = NoFrame
    PROVE  Emitted
  <1>1. CASE UNCHANGED emission /\ ~observed
    BY <1>1 DEF emission, Emitted
  <1>2. CASE delivered' = progress' /\ pending' = NoFrame
    BY <1>2 DEF Emitted
  <1>3. CASE pending' = progress' /\ delivered' = delivered
    BY <1>3 DEF Emitted
  <1> QED BY <1>1, <1>2, <1>3 DEF ScheduleEmit

\* Without observers no frame ever waits.
Unseen == ~observed => pending = NoFrame

\* Every step emits this way, and the completed count never goes back.
LEMMA StepEmits ==
    ASSUME TypeOK, Unseen, [Next]_vars
    PROVE  /\ Unseen' /\ Emitted
           /\ progress.completed \in Nat /\ progress'.completed \in Nat
           /\ progress'.completed >= progress.completed
  <1>0. ScheduleEmit(progress') => Unseen' /\ Emitted
    <2> SUFFICES ASSUME ScheduleEmit(progress') PROVE Unseen' /\ Emitted
      OBVIOUS
    <2>1. Emitted
      BY ScheduledIsEmitted DEF Unseen
    <2>2. observed' = observed /\ (~observed => pending' = pending)
      BY DEF ScheduleEmit, emission
    <2> QED BY <2>1, <2>2 DEF Unseen
  <1>1. progress \in Frames /\ progress.completed \in Nat
    BY RowsAssumption DEF TypeOK, Frames
  <1>2. CASE \E r \in Row : MapRow(r)
    <2> PICK r \in Row : MapRow(r)
      BY <1>2
    <2>1. CASE /\ progress' = [progress EXCEPT !.total = @ + 1, !.skippedCount = @ + 1,
                                                !.completed = @ + 1]
               /\ ScheduleEmit(progress')
      <3>1. progress'.completed = progress.completed + 1
        BY <1>1, <2>1 DEF Frames
      <3> QED BY <1>0, <1>1, <2>1, <3>1
    <2>2. CASE /\ \/ progress' = [progress EXCEPT !.total = @ + 1]
                  \/ progress' = [progress EXCEPT !.total = @ + 1, !.errorCount = @ + 1]
               /\ UNCHANGED emission
      <3>1. progress'.completed = progress.completed
        BY <1>1, <2>2 DEF Frames
      <3> QED BY <1>1, <2>2, <3>1 DEF Unseen, emission, Emitted
    <2> QED BY <2>1, <2>2 DEF MapRow
  <1>3. CASE \E r \in Row : RowReturns(r)
    <2>1. ScheduleEmit(progress') /\ progress' = [progress EXCEPT !.completed = @ + 1]
      BY <1>3 DEF RowReturns
    <2>2. progress'.completed = progress.completed + 1
      BY <1>1, <2>1 DEF Frames
    <2> QED BY <1>0, <1>1, <2>1, <2>2
  <1>4. CASE \E r \in Row : RowGetsConfig(r) \/ RowSigned(r)
    BY <1>1, <1>4 DEF RowGetsConfig, RowSigned, Frames, emission, Unseen, Emitted
  <1>5. CASE Start \/ Cancel \/ Flushed \/ ConfigSettles \/ WindowPasses \/ UNCHANGED vars
    <2>1. UNCHANGED <<observed, pending, delivered>>
      BY <1>5 DEF Start, Cancel, Flushed, ConfigSettles, WindowPasses, vars, emission
    <2>2. progress'.completed = progress.completed
      BY <1>1, <1>5 DEF Start, Cancel, Flushed, ConfigSettles, WindowPasses, vars, Frames
    <2> QED BY <1>1, <2>1, <2>2 DEF Unseen, Emitted
  <1>6. CASE Finish \/ Fail
    BY <1>1, <1>6 DEF Finish, Fail, Frames, Unseen, Emitted
  <1>7. CASE TimerFires
    BY <1>1, <1>7 DEF TimerFires, Unseen, Emitted
  <1> QED BY <1>2, <1>3, <1>4, <1>5, <1>6, <1>7 DEF Next

\* A step hands out no older frame than the last one.
LEMMA StepInOrder ==
    ASSUME TypeOK, Unseen, Ordered, [Next]_vars
    PROVE  /\ Unseen' /\ Ordered'
           /\ delivered # NoFrame => delivered'.completed >= delivered.completed
  <1>1. /\ delivered # NoFrame => delivered.completed \in Nat
        /\ pending # NoFrame => pending.completed \in Nat
    BY RowsAssumption DEF TypeOK, Frames
  <1> QED BY <1>1, StepEmits DEF Ordered, Emitted

\* Frames reach the observers in order, however the throttle and its timer
\* fall between the turns of concurrent rows, and also when the source fails
\* (batch-engine.ts, scheduleProgressEmit and flushProgress).
THEOREM FramesStayInOrder == Spec => FramesInOrder
  <1>1. Init => Unseen /\ Ordered
    BY DEF Init, Unseen, Ordered
  <1>2. TypeOK /\ Unseen /\ Ordered /\ [Next]_vars =>
            /\ Unseen' /\ Ordered'
            /\ [delivered # NoFrame => delivered'.completed >= delivered.completed]_delivered
    BY StepInOrder
  <1> QED BY <1>1, <1>2, EngineTypeCorrect, PTL DEF Spec, FramesInOrder
=============================================================================
