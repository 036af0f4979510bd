----------------------- MODULE RevocationQueueProofs -----------------------
(***************************************************************************)
(* For any number of items, publish runs, attempts and restarts: an item   *)
(* shown as published is revoked, no call to DeDi goes uncounted, the      *)
(* retry budget holds, and but for the batch engine a credential is        *)
(* revoked only if the user asked for it.                                  *)
(***************************************************************************)
EXTENDS RevocationQueue, FiniteSetTheorems, TLAPS

\* An item a run lists or holds is in the queue, in both of its copies, and a run
\* does not list the item it holds.
Present ==
    \A r \in Runs : /\ \A i \in todo[r] : file[i] # NoItem /\ known[i] # NoItem
                    /\ now[r] # NoItem => file[now[r]] # NoItem /\ known[now[r]] # NoItem
                    /\ now[r] \notin todo[r]

\* An answer is about the item the run holds, and "ok" says the item is live.
AnswersHold ==
    \A r \in Runs : /\ answer[r] # "none" => now[r] # NoItem
                    /\ answer[r] = "ok" => CredentialOf[now[r]] \in live

Base == TypeOK /\ Present /\ AnswersHold /\ PublishedIsLive

\* Runs that list an item, that hold it, and that are about to call DeDi for it.
Listing(i) == {r \in Runs : i \in todo[r]}
Holding(i) == {r \in Runs : now[r] = i}
Ahead(i)   == {r \in Runs : now[r] = i /\ answer[r] = "none"}

\* The counter leads the calls by the runs about to make one; and each run that
\* lists the item may still count two attempts, each that holds it one.
Counts(i) ==
    file[i] # NoItem =>
        /\ sent[i] + Cardinality(Ahead(i)) <= file[i].attemptCount
        /\ file[i].attemptCount + 2 * Cardinality(Listing(i)) + Cardinality(Holding(i))
              <= MaxPublishAttempts - 1 + 2 * Cardinality(Runs)

IInv == Base /\ \A i \in Items : Counts(i)

----------------------------------------------------------------------------
(* What the operations on the store do *)

\* The status is set, the attempt counted, and the other items left alone.
LEMMA SetStatusEffect ==
    ASSUME NEW q \in Queues, NEW i \in Items, NEW status \in Statuses, q[i] # NoItem
    PROVE  /\ SetStatus(q, i, status) \in Queues
           /\ SetStatus(q, i, status)[i].status = status
           /\ SetStatus(q, i, status)[i].attemptCount = q[i].attemptCount + 1
           /\ \A j \in Items \ {i} : SetStatus(q, i, status)[j] = q[j]
           /\ \A j \in Items : SetStatus(q, i, status)[j] = NoItem <=> q[j] = NoItem
  <1>1. SetStatus(q, i, status)[i] \in Queued
    BY DEF SetStatus, Queues, Queued
  <1> QED BY <1>1, NoItemAssumption DEF SetStatus, Queues, Queued

\* A queue that holds the item is changed, and written when the store works.
LEMMA UpdateEffect ==
    ASSUME TypeOK, NEW q \in Queues, NEW mode \in {"up", "full", "down"}, NEW i \in Items,
           NEW status \in Statuses, q[i] # NoItem, Update(mode, q, i, status)
    PROVE  /\ known' = SetStatus(q, i, status) /\ known' \in Queues
           /\ file' = (IF mode = "up" THEN SetStatus(q, i, status) ELSE file)
           /\ file' \in Queues
  BY SetStatusEffect DEF Update, Save, TypeOK

\* The next item is marked in the file, or the run is over.
LEMMA MarkEffect ==
    ASSUME TypeOK, Present, NEW r \in Runs, Mark(r)
    PROVE  /\ known' \in Queues
           /\ \A j \in Items : known'[j] = NoItem => file[j] = NoItem \/ known[j] = NoItem
           /\ \E i \in todo[r] :
                 \/ file' = file /\ Abort(r)
                 \/ /\ file' = SetStatus(file, i, "publishing")
                    /\ todo' = [todo EXCEPT ![r] = @ \ {i}]
                    /\ now' = [now EXCEPT ![r] = i]
  <1>1. PICK i \in todo[r] \cap Hashed, mode \in Modes :
          /\ Update(mode, Loaded(mode), i, "publishing")
          /\ IF Throws(mode, i) THEN Abort(r)
             ELSE todo' = [todo EXCEPT ![r] = @ \ {i}] /\ now' = [now EXCEPT ![r] = i]
    BY DEF Mark
  <1>2. /\ i \in Items /\ mode \in {"up", "full", "down"}
        /\ Loaded(mode) \in Queues /\ Loaded(mode)[i] # NoItem
    BY DEF TypeOK, Modes, Loaded, Present
  <1>3. /\ known' = SetStatus(Loaded(mode), i, "publishing") /\ known' \in Queues
        /\ file' = IF mode = "up" THEN SetStatus(Loaded(mode), i, "publishing") ELSE file
    BY <1>1, <1>2, UpdateEffect DEF Statuses
  <1>4. \A j \in Items : known'[j] = NoItem <=> Loaded(mode)[j] = NoItem
    BY <1>2, <1>3, SetStatusEffect DEF Statuses
  <1> QED BY <1>1, <1>2, <1>3, <1>4 DEF Throws, Loaded

\* An item without a hash is marked and recorded in the file, or the run is over.
LEMMA MarkHashlessEffect ==
    ASSUME TypeOK, Present, NEW r \in Runs, MarkHashless(r)
    PROVE  /\ known' \in Queues
           /\ \A j \in Items : known'[j] = NoItem => file[j] = NoItem \/ known[j] = NoItem
           /\ \E i \in todo[r] :
                 \/ file' = file /\ Abort(r)
                 \/ /\ file' = SetStatus(SetStatus(file, i, "publishing"), i, "failed")
                    /\ todo' = [todo EXCEPT ![r] = @ \ {i}]
                    /\ now' = now
  <1>1. PICK i \in todo[r] \ Hashed, mode \in Modes :
          LET q == Loaded(mode) IN
          IF Throws(mode, i)
          THEN Update(mode, q, i, "publishing") /\ Abort(r)
          ELSE /\ Update(mode, IF q[i] = NoItem THEN q ELSE SetStatus(q, i, "publishing"),
                         i, "failed")
               /\ todo' = [todo EXCEPT ![r] = @ \ {i}]
               /\ UNCHANGED now
    BY DEF MarkHashless
  <1>2. /\ i \in Items /\ mode \in {"up", "full", "down"}
        /\ Loaded(mode) \in Queues /\ Loaded(mode)[i] # NoItem
        /\ "publishing" \in Statuses /\ "failed" \in Statuses
    BY DEF TypeOK, Modes, Loaded, Present, Statuses
  <1> DEFINE marked == SetStatus(Loaded(mode), i, "publishing")
  <1>3. /\ marked \in Queues /\ marked[i] # NoItem
        /\ \A j \in Items : marked[j] = NoItem <=> Loaded(mode)[j] = NoItem
    BY <1>2, SetStatusEffect
  <1>4. CASE Throws(mode, i)
    <2>1. Update(mode, Loaded(mode), i, "publishing") /\ Abort(r) /\ mode # "up"
      BY <1>1, <1>4 DEF Throws
    <2>2. known' = marked /\ file' = file
      BY <1>2, <2>1, UpdateEffect
    <2> QED BY <1>2, <1>3, <2>1, <2>2 DEF Loaded
  <1>5. CASE ~Throws(mode, i)
    <2>1. /\ Update(mode, marked, i, "failed") /\ mode = "up"
          /\ todo' = [todo EXCEPT ![r] = @ \ {i}] /\ now' = now
      BY <1>1, <1>2, <1>5 DEF Throws
    <2> HIDE DEF marked
    <2>2. known' = SetStatus(marked, i, "failed") /\ known' \in Queues /\ file' = known'
      BY <1>2, <1>3, <2>1, UpdateEffect
    <2>3. \A j \in Items : known'[j] = NoItem <=> marked[j] = NoItem
      BY <1>2, <1>3, <2>2, SetStatusEffect
    <2> USE DEF marked
    <2> QED BY <1>3, <2>1, <2>2, <2>3 DEF Loaded
  <1> QED BY <1>4, <1>5

\* The outcome is written to the file, or the run is over.
LEMMA RecordEffect ==
    ASSUME TypeOK, Present, AnswersHold, NEW r \in Runs, Record(r)
    PROVE  /\ now[r] \in Items
           /\ known' \in Queues
           /\ \A j \in Items : known'[j] = NoItem => file[j] = NoItem \/ known[j] = NoItem
           /\ \/ file' = file /\ Abort(r)
              \/ /\ file' = SetStatus(file, now[r],
                                IF answer[r] = "ok" THEN "published" ELSE "failed")
                 /\ todo' = todo
                 /\ now' = [now EXCEPT ![r] = NoItem]
  <1> DEFINE i == now[r]
             ok == answer[r] = "ok"
  <1>1. PICK mode \in Modes :
          IF Throws(mode, i)
          THEN /\ Abort(r)
               /\ Update(mode, IF ok /\ mode = "down" THEN SetStatus(known, i, "published")
                               ELSE Loaded(mode), i, "failed")
          ELSE /\ now' = [now EXCEPT ![r] = NoItem]
               /\ UNCHANGED todo
               /\ Update(mode, Loaded(mode), i, IF ok THEN "published" ELSE "failed")
    BY DEF Record
  <1>2. /\ i \in Items /\ mode \in {"up", "full", "down"}
        /\ Loaded(mode) \in Queues /\ Loaded(mode)[i] # NoItem
        /\ known \in Queues /\ known[i] # NoItem
        /\ "published" \in Statuses /\ "failed" \in Statuses
    BY DEF TypeOK, Modes, Loaded, Present, AnswersHold, Statuses, Record
  <1>3. CASE Throws(mode, i)
    <2> DEFINE q == IF ok /\ mode = "down" THEN SetStatus(known, i, "published") ELSE Loaded(mode)
    <2>1. /\ q \in Queues /\ q[i] # NoItem
          /\ \A j \in Items : q[j] = NoItem => file[j] = NoItem \/ known[j] = NoItem
      BY <1>2, SetStatusEffect DEF Loaded
    <2>2. Update(mode, q, i, "failed") /\ Abort(r) /\ mode # "up"
      BY <1>1, <1>3 DEF Throws
    <2> HIDE DEF q
    <2>3. known' = SetStatus(q, i, "failed") /\ known' \in Queues /\ file' = file
      BY <1>2, <2>1, <2>2, UpdateEffect
    <2>4. \A j \in Items : known'[j] = NoItem <=> q[j] = NoItem
      BY <1>2, <2>1, <2>3, SetStatusEffect
    <2> QED BY <1>2, <2>1, <2>2, <2>3, <2>4
  <1>4. CASE ~Throws(mode, i)
    <2> DEFINE status == IF ok THEN "published" ELSE "failed"
    <2>1. /\ status \in Statuses /\ mode = "up" /\ Update(mode, file, i, status)
          /\ now' = [now EXCEPT ![r] = NoItem] /\ todo' = todo
      BY <1>1, <1>2, <1>4 DEF Throws, Loaded
    <2>2. file \in Queues /\ file[i] # NoItem
      BY <1>2, <2>1 DEF Loaded
    <2>3. known' = SetStatus(file, i, status) /\ known' \in Queues /\ file' = known'
      BY <1>2, <2>1, <2>2, UpdateEffect
    <2>4. \A j \in Items : known'[j] = NoItem <=> file[j] = NoItem
      BY <1>2, <2>1, <2>2, <2>3, SetStatusEffect
    <2> QED BY <1>2, <2>1, <2>3, <2>4
  <1> QED BY <1>3, <1>4

----------------------------------------------------------------------------
(* Types, and what is published *)
\* What a new item does to the queue.
LEMMA EnqueueEffect ==
    ASSUME TypeOK, NEW i \in Items, Enqueue(i)
    PROVE  /\ file' \in Queues /\ known' \in Queues
           /\ file[i] = NoItem /\ sent[i] = 0 /\ Listing(i) = {} /\ Holding(i) = {}
           /\ \A j \in Items \ {i} : file'[j] = file[j]
           /\ file'[i] = NoItem \/ file'[i] = [status |-> "pending", attemptCount |-> 0]
           /\ \A j \in Items : known'[j] = NoItem => file[j] = NoItem \/ known[j] = NoItem
           /\ \A j \in Items : file'[j] = NoItem => file[j] = NoItem
  <1>1. PICK mode \in Modes :
          Save(mode, [Loaded(mode) EXCEPT ![i] = [status |-> "pending", attemptCount |-> 0]])
    BY DEF Enqueue
  <1>2. mode \in {"up", "full", "down"} /\ Loaded(mode) \in Queues
    BY DEF Modes, Loaded, TypeOK
  <1>3. [status |-> "pending", attemptCount |-> 0] \in Queued
    BY DEF Queued, Statuses
  <1>4. [Loaded(mode) EXCEPT ![i] = [status |-> "pending", attemptCount |-> 0]] \in Queues
    BY <1>2, <1>3 DEF Queues
  <1>5. /\ known' \in Queues
        /\ known' = [Loaded(mode) EXCEPT ![i] = [status |-> "pending", attemptCount |-> 0]]
        /\ file' = IF mode = "up" THEN known' ELSE file
    BY <1>1, <1>4 DEF Save
  <1>6. file[i] = NoItem /\ known[i] = NoItem /\ sent[i] = 0 /\ Listing(i) = {} /\ Holding(i) = {}
    BY DEF Enqueue, Listing, Holding
  <1> QED BY <1>2, <1>3, <1>5, <1>6, NoItemAssumption DEF Loaded, TypeOK, Queues

\* A step of a publish run writes no "published" that is not true.
LEMMA BaseStep ==
    ASSUME Base, Next
    PROVE  Base'
  <1> USE DEF Base
  <1>1. ASSUME NEW i \in Items, QueueRequest(i) \/ IssueRow(i)
        PROVE  Base'
    <2>1. Enqueue(i) /\ UNCHANGED <<todo, now, answer, live, late, outage, sent, crashes>>
      BY <1>1 DEF QueueRequest, IssueRow, run, dedi
    <2>2. wanted' \subseteq Credentials
      BY <1>1, ItemsAssumption DEF QueueRequest, IssueRow, TypeOK
    <2>3. TypeOK'
      BY <2>1, <2>2, EnqueueEffect DEF TypeOK
    <2>4. Present' /\ AnswersHold'
      BY <2>1, EnqueueEffect DEF Present, AnswersHold, TypeOK
    <2>5. PublishedIsLive'
      BY <2>1, EnqueueEffect DEF PublishedIsLive
    <2> QED BY <2>3, <2>4, <2>5
  <1>2. ASSUME NEW r \in Runs, Begin(r)
        PROVE  Base'
    <2> USE <1>2 DEF Begin, dedi
    <2>1. Listed(file) \subseteq Items /\ \A i \in Listed(file) : file[i] # NoItem
      BY DEF Listed
    <2>2. TypeOK'
      BY <2>1 DEF TypeOK
    <2>3. Present'
      BY <2>1, NoItemAssumption DEF TypeOK, Present, Idle
    <2>4. AnswersHold' /\ PublishedIsLive'
      BY DEF AnswersHold, PublishedIsLive
    <2> QED BY <2>2, <2>3, <2>4
  <1>3. ASSUME NEW r \in Runs, Mark(r)
        PROVE  Base'
    <2> USE NoItemAssumption
    <2>1. UNCHANGED <<answer, live, late, outage, wanted, sent, crashes>> /\ now[r] = NoItem
      BY <1>3 DEF Mark, dedi
    <2>2. PICK i \in todo[r] :
             \/ file' = file /\ Abort(r)
             \/ /\ file' = SetStatus(file, i, "publishing")
                /\ todo' = [todo EXCEPT ![r] = @ \ {i}]
                /\ now' = [now EXCEPT ![r] = i]
      BY <1>3, MarkEffect
    <2>3. i \in Items /\ file[i] # NoItem /\ file \in Queues
      BY DEF TypeOK, Present
    <2>4. /\ known' \in Queues
          /\ \A j \in Items : known'[j] = NoItem => file[j] = NoItem \/ known[j] = NoItem
      BY <1>3, MarkEffect
    <2>5. /\ file' \in Queues
          /\ \A j \in Items : file'[j] = NoItem => file[j] = NoItem
          /\ \A j \in Items : file'[j] = file[j] \/ file'[j].status = "publishing"
      BY SMTT(60), <2>2, <2>3, SetStatusEffect DEF Statuses
    <2>6. TypeOK'
      BY <2>1, <2>2, <2>3, <2>4, <2>5 DEF TypeOK, Abort
    <2>7. Present'
      BY <2>1, <2>2, <2>3, <2>4, <2>5 DEF Present, TypeOK, Abort
    <2>8. AnswersHold'
      BY <2>1, <2>2, <2>3 DEF AnswersHold, Abort, TypeOK
    <2>9. PublishedIsLive'
      BY <2>1, <2>5 DEF PublishedIsLive
    <2> QED BY <2>6, <2>7, <2>8, <2>9
  <1>4. ASSUME NEW r \in Runs, MarkHashless(r)
        PROVE  Base'
    <2> USE NoItemAssumption
    <2>1. UNCHANGED <<answer, live, late, outage, wanted, sent, crashes>> /\ now[r] = NoItem
      BY <1>4 DEF MarkHashless, dedi
    <2>2. PICK i \in todo[r] :
             \/ file' = file /\ Abort(r)
             \/ /\ file' = SetStatus(SetStatus(file, i, "publishing"), i, "failed")
                /\ todo' = [todo EXCEPT ![r] = @ \ {i}]
                /\ now' = now
      BY <1>4, MarkHashlessEffect
    <2>3. i \in Items /\ file[i] # NoItem /\ file \in Queues
      BY DEF TypeOK, Present
    <2>4. /\ known' \in Queues
          /\ \A j \in Items : known'[j] = NoItem => file[j] = NoItem \/ known[j] = NoItem
      BY <1>4, MarkHashlessEffect
    <2> DEFINE marked == SetStatus(file, i, "publishing")
    <2>5. /\ marked \in Queues /\ marked[i] # NoItem
          /\ \A j \in Items : marked[j] = NoItem => file[j] = NoItem
          /\ \A j \in Items \ {i} : marked[j] = file[j]
      BY <2>3, SetStatusEffect DEF Statuses
    <2> HIDE DEF marked
    <2>6. /\ SetStatus(marked, i, "failed") \in Queues
          /\ \A j \in Items : SetStatus(marked, i, "failed")[j] = NoItem => file[j] = NoItem
          /\ SetStatus(marked, i, "failed")[i].status = "failed"
          /\ \A j \in Items \ {i} : SetStatus(marked, i, "failed")[j] = file[j]
      BY <2>3, <2>5, SetStatusEffect DEF Statuses
    <2>7. /\ file' \in Queues
          /\ \A j \in Items : file'[j] = NoItem => file[j] = NoItem
          /\ \A j \in Items : file'[j] = file[j] \/ file'[j].status = "failed"
      BY <2>2, <2>3, <2>6 DEF marked
    <2>8. TypeOK'
      BY <2>1, <2>2, <2>3, <2>4, <2>7 DEF TypeOK, Abort
    <2>9. Present'
      BY <2>1, <2>2, <2>3, <2>4, <2>7 DEF Present, TypeOK, Abort
    <2>10. AnswersHold'
      BY <2>1, <2>2, <2>3 DEF AnswersHold, Abort, TypeOK
    <2>11. PublishedIsLive'
      BY <2>1, <2>7 DEF PublishedIsLive
    <2> QED BY <2>8, <2>9, <2>10, <2>11
  <1>5. ASSUME NEW r \in Runs, Publish(r)
        PROVE  Base'
    <2>1. /\ now[r] \in Items /\ answer[r] = "none"
          /\ sent' = [sent EXCEPT ![now[r]] = @ + 1]
          /\ UNCHANGED <<file, known, todo, now, outage, wanted, crashes>>
      BY <1>5 DEF Publish, TypeOK, queue
    <2> DEFINE c == CredentialOf[now[r]]
    <2>2. c \in Credentials
      BY <2>1, ItemsAssumption
    <2>3. /\ live \subseteq live' /\ live' \subseteq live \cup {c}
          /\ late' \subseteq late \cup {c}
          /\ \/ answer' = [answer EXCEPT ![r] = "ok"] /\ c \in live'
             \/ answer' = [answer EXCEPT ![r] = "error"]
      BY <1>5 DEF Publish, dedi
    <2> HIDE DEF c
    <2>4. TypeOK'
      BY <2>1, <2>2, <2>3 DEF TypeOK
    <2>5. Present'
      BY <2>1 DEF Present
    <2>6. AnswersHold'
      BY <2>1, <2>3, NoItemAssumption DEF AnswersHold, TypeOK, c
    <2>7. PublishedIsLive'
      BY <2>1, <2>3 DEF PublishedIsLive
    <2> QED BY <2>4, <2>5, <2>6, <2>7
  <1>6. ASSUME NEW r \in Runs, Record(r)
        PROVE  Base'
    <2> USE NoItemAssumption
    <2>1. /\ answer' = [answer EXCEPT ![r] = "none"]
          /\ UNCHANGED <<live, late, outage, wanted, sent, crashes>>
      BY <1>6 DEF Record, dedi
    <2> DEFINE status == IF answer[r] = "ok" THEN "published" ELSE "failed"
    <2>2. /\ now[r] \in Items /\ known' \in Queues
          /\ \A j \in Items : known'[j] = NoItem => file[j] = NoItem \/ known[j] = NoItem
          /\ \/ file' = file /\ Abort(r)
             \/ /\ file' = SetStatus(file, now[r], status)
                /\ todo' = todo /\ now' = [now EXCEPT ![r] = NoItem]
      BY <1>6, RecordEffect
    <2>3. file[now[r]] # NoItem /\ file \in Queues /\ status \in Statuses
      BY <2>2 DEF TypeOK, Present, Statuses
    <2>4. /\ file' \in Queues
          /\ \A j \in Items : file'[j] = NoItem => file[j] = NoItem
          /\ \A j \in Items : file'[j] = file[j] \/ (j = now[r] /\ file'[j].status = status)
      BY <2>2, <2>3, SetStatusEffect
    <2>5. TypeOK'
      BY <2>1, <2>2, <2>4 DEF TypeOK, Abort
    <2>6. Present'
      BY <2>1, <2>2, <2>4 DEF Present, TypeOK, Abort
    <2>7. AnswersHold'
      BY <2>1, <2>2 DEF AnswersHold, TypeOK, Abort
    <2>8. PublishedIsLive'
      BY <2>1, <2>4 DEF PublishedIsLive, AnswersHold
    <2> QED BY <2>5, <2>6, <2>7, <2>8
  <1>7. CASE Show \/ LateWrite \/ Recover
    <2>1. TypeOK'
      BY <1>7 DEF Show, LateWrite, Recover, TypeOK, queue, run, dedi
    <2>2. Present'
      BY <1>7 DEF Show, LateWrite, Recover, Present, queue, run
    <2>3. AnswersHold' /\ PublishedIsLive'
      BY <1>7 DEF Show, LateWrite, Recover, AnswersHold, PublishedIsLive, queue, run, dedi
    <2> QED BY <2>1, <2>2, <2>3
  <1>8. CASE Crash
    <2>1. TypeOK'
      BY <1>8, BoundsAssumption DEF Crash, TypeOK, Empty, Queues, dedi
    <2>2. Present' /\ AnswersHold' /\ PublishedIsLive'
      BY <1>8, NoItemAssumption DEF Crash, Present, AnswersHold, PublishedIsLive, dedi
    <2> QED BY <2>1, <2>2
  <1> QED BY <1>1, <1>2, <1>3, <1>4, <1>5, <1>6, <1>7, <1>8 DEF Next, Go
----------------------------------------------------------------------------
(* Counting *)

\* Cardinalities of sets of runs.
LEMMA RunSets ==
    /\ \A S \in SUBSET Runs : IsFiniteSet(S) /\ Cardinality(S) \in Nat
    /\ \A S, T \in SUBSET Runs : S \subseteq T => Cardinality(S) <= Cardinality(T)
    /\ \A S \in SUBSET Runs : \A r \in S : Cardinality(S \ {r}) = Cardinality(S) - 1
    /\ \A S \in SUBSET Runs : \A r \in Runs \ S : Cardinality(S \cup {r}) = Cardinality(S) + 1
    /\ \A S, T \in SUBSET Runs : S \cap T = {} => Cardinality(S) + Cardinality(T) <= Cardinality(Runs)
    /\ Cardinality({}) = 0
  <1>1. \A S \in SUBSET Runs : IsFiniteSet(S) /\ Cardinality(S) \in Nat
    BY RunsAssumption, FS_Subset, FS_CardinalityType
  <1>2. \A S, T \in SUBSET Runs : S \subseteq T => Cardinality(S) <= Cardinality(T)
    BY <1>1, FS_Subset
  <1>3. \A S \in SUBSET Runs : \A r \in S : Cardinality(S \ {r}) = Cardinality(S) - 1
    BY <1>1, FS_RemoveElement
  <1>4. \A S \in SUBSET Runs : \A r \in Runs \ S : Cardinality(S \cup {r}) = Cardinality(S) + 1
    BY <1>1, FS_AddElement
  <1>5. ASSUME NEW S \in SUBSET Runs, NEW T \in SUBSET Runs, S \cap T = {}
        PROVE  Cardinality(S) + Cardinality(T) <= Cardinality(Runs)
    <2>1. Cardinality(S \cup T) = Cardinality(S) + Cardinality(T) - Cardinality({})
      BY <1>1, <1>5, FS_Union
    <2>2. Cardinality({}) = 0
      BY FS_EmptySet
    <2>3. Cardinality(S \cup T) <= Cardinality(Runs)
      BY <1>2
    <2> QED BY <1>1, <2>1, <2>2, <2>3
  <1> QED BY <1>1, <1>2, <1>3, <1>4, <1>5, FS_EmptySet

\* The numbers the invariant speaks of are numbers.
LEMMA CountTypes ==
    ASSUME TypeOK, NEW i \in Items, file[i] # NoItem
    PROVE  /\ file[i].attemptCount \in Nat /\ sent[i] \in Nat
           /\ Cardinality(Listing(i)) \in Nat /\ Cardinality(Holding(i)) \in Nat
           /\ Cardinality(Ahead(i)) \in Nat /\ Cardinality(Runs) \in Nat
           /\ MaxPublishAttempts \in Nat
           /\ Listing(i) \in SUBSET Runs /\ Holding(i) \in SUBSET Runs /\ Ahead(i) \in SUBSET Runs
  <1>1. file[i] \in Queued
    BY DEF TypeOK, Queues
  <1>2. Listing(i) \in SUBSET Runs /\ Holding(i) \in SUBSET Runs /\ Ahead(i) \in SUBSET Runs
    BY DEF Listing, Holding, Ahead
  <1> QED BY <1>1, <1>2, RunSets, BoundsAssumption DEF TypeOK, Queued

\* An item that is not touched, by runs that at most let go of it.
LEMMA CountsShrink ==
    ASSUME TypeOK, NEW i \in Items, Counts(i), file'[i] = file[i], sent'[i] = sent[i],
           Listing(i)' \subseteq Listing(i), Holding(i)' \subseteq Holding(i),
           Ahead(i)' \subseteq Ahead(i)
    PROVE  Counts(i)'
  <1>1. SUFFICES ASSUME file[i] # NoItem
                 PROVE  Counts(i)'
    BY DEF Counts
  <1> DEFINE l == Cardinality(Listing(i))
             h == Cardinality(Holding(i))
             a == Cardinality(Ahead(i))
             l2 == Cardinality(Listing(i)')
             h2 == Cardinality(Holding(i)')
             a2 == Cardinality(Ahead(i)')
             n == file[i].attemptCount
             b == Cardinality(Runs)
  <1>2. l2 <= l /\ h2 <= h /\ a2 <= a /\ {l2, h2, a2} \subseteq Nat
    BY <1>1, CountTypes, RunSets
  <1>3. {n, sent[i], l, h, a, b, MaxPublishAttempts} \subseteq Nat
    BY <1>1, CountTypes
  <1>4. sent[i] + a <= n /\ n + 2 * l + h <= MaxPublishAttempts - 1 + 2 * b
    BY <1>1 DEF Counts
  <1> HIDE DEF l, h, a, l2, h2, a2, n, b
  <1>5. sent[i] + a2 <= n /\ n + 2 * l2 + h2 <= MaxPublishAttempts - 1 + 2 * b
    BY <1>2, <1>3, <1>4
  <1> QED BY <1>5 DEF Counts, l2, h2, a2, n, b

\* An item that a run moves along: what is counted is paid for.
LEMMA CountsMove ==
    ASSUME TypeOK, TypeOK', NEW i \in Items, Counts(i), file[i] # NoItem, file'[i] # NoItem,
           file'[i].attemptCount + 2 * Cardinality(Listing(i)') + Cardinality(Holding(i)')
             <= file[i].attemptCount + 2 * Cardinality(Listing(i)) + Cardinality(Holding(i)),
           sent'[i] + Cardinality(Ahead(i)') + file[i].attemptCount
             <= sent[i] + Cardinality(Ahead(i)) + file'[i].attemptCount
    PROVE  Counts(i)'
  <1> DEFINE l == Cardinality(Listing(i))
             h == Cardinality(Holding(i))
             a == Cardinality(Ahead(i))
             l2 == Cardinality(Listing(i)')
             h2 == Cardinality(Holding(i)')
             a2 == Cardinality(Ahead(i)')
             n == file[i].attemptCount
             n2 == file'[i].attemptCount
             b == Cardinality(Runs)
  <1>1. Listing(i)' \in SUBSET Runs /\ Holding(i)' \in SUBSET Runs /\ Ahead(i)' \in SUBSET Runs
    BY DEF Listing, Holding, Ahead
  <1>2. l2 \in Nat /\ h2 \in Nat /\ a2 \in Nat
    BY <1>1, RunSets
  <1>3. n2 \in Nat /\ sent'[i] \in Nat
    BY DEF TypeOK, Queues, Queued
  <1>4. {n, sent[i], l, h, a, b, MaxPublishAttempts} \subseteq Nat
    BY CountTypes
  <1>5. sent[i] + a <= n /\ n + 2 * l + h <= MaxPublishAttempts - 1 + 2 * b
    BY DEF Counts
  <1>6. n2 + 2 * l2 + h2 <= n + 2 * l + h /\ sent'[i] + a2 + n <= sent[i] + a + n2
    OBVIOUS
  <1> HIDE DEF l, h, a, l2, h2, a2, n, n2, b
  <1>7. sent'[i] + a2 <= n2 /\ n2 + 2 * l2 + h2 <= MaxPublishAttempts - 1 + 2 * b
    BY <1>2, <1>3, <1>4, <1>5, <1>6
  <1> QED BY <1>7 DEF Counts, l2, h2, a2, n2, b

\* A run is over: whatever it listed and held, it lets go of.
LEMMA AbortLetsGo ==
    ASSUME TypeOK, Present, NEW r \in Runs, NEW i \in Items, Abort(r), answer'[r] = "none" \/ answer' = answer
    PROVE  /\ Listing(i)' \subseteq Listing(i)
           /\ Holding(i)' \subseteq Holding(i)
  BY NoItemAssumption DEF Abort, TypeOK, Listing, Holding

\* Every step pays for what it counts.
LEMMA CountsStep ==
    ASSUME Base, Base', \A i \in Items : Counts(i), Next
    PROVE  \A i \in Items : Counts(i)'
  <1> SUFFICES ASSUME NEW i \in Items
               PROVE  Counts(i)'
    OBVIOUS
  <1> USE NoItemAssumption DEF Base
  <1>1. ASSUME NEW j \in Items, QueueRequest(j) \/ IssueRow(j)
        PROVE  Counts(i)'
    <2>1. Enqueue(j) /\ UNCHANGED <<todo, now, answer, sent>>
      BY <1>1 DEF QueueRequest, IssueRow, run
    <2>2. Listing(i)' = Listing(i) /\ Holding(i)' = Holding(i) /\ Ahead(i)' = Ahead(i)
      BY <2>1 DEF Listing, Holding, Ahead
    <2>3. CASE i # j
      <3>1. file'[i] = file[i]
        BY <2>1, <2>3, EnqueueEffect
      <3> QED BY <2>1, <2>2, <3>1, CountsShrink
    <2>4. CASE i = j
      <3>1. /\ sent[i] = 0 /\ Listing(i) = {} /\ Holding(i) = {} /\ Ahead(i) = {}
            /\ file'[i] # NoItem => file'[i].attemptCount = 0
        BY <2>1, <2>4, EnqueueEffect DEF Holding, Ahead
      <3>2. Cardinality({}) = 0 /\ Cardinality(Runs) \in Nat
        BY RunSets
      <3>3. 0 <= MaxPublishAttempts - 1 + 2 * Cardinality(Runs)
        BY <3>2, BoundsAssumption
      <3> QED BY <2>1, <2>2, <3>1, <3>2, <3>3 DEF Counts
    <2> QED BY <2>3, <2>4
  <1>2. ASSUME NEW r \in Runs, Begin(r)
        PROVE  Counts(i)'
    <2>1. /\ UNCHANGED <<file, now, answer, sent>> /\ Idle(r)
          /\ todo' = [todo EXCEPT ![r] = Listed(file)]
      BY <1>2 DEF Begin
    <2>2. Holding(i)' = Holding(i) /\ Ahead(i)' = Ahead(i)
      BY <2>1 DEF Holding, Ahead
    <2>3. CASE i \notin Listed(file)
      <3>1. Listing(i)' \subseteq Listing(i)
        BY <2>1, <2>3 DEF Listing, TypeOK
      <3> QED BY <2>1, <2>2, <3>1, CountsShrink
    <2>4. CASE i \in Listed(file)
      <3> DEFINE l2 == Cardinality(Listing(i)')
                 h  == Cardinality(Holding(i))
                 n  == file[i].attemptCount
                 b  == Cardinality(Runs)
      <3>1. Listing(i)' \cap Holding(i) = {}
        BY <2>1 DEF Listing, Holding, TypeOK, Present, Idle
      <3>2. Listing(i)' \in SUBSET Runs /\ Holding(i) \in SUBSET Runs
        BY DEF Listing, Holding
      <3>3. l2 + h <= b /\ l2 \in Nat /\ h \in Nat /\ b \in Nat
        BY <3>1, <3>2, RunSets
      <3>4. file[i] # NoItem /\ n < MaxPublishAttempts
        BY <2>4 DEF Listed
      <3>5. n \in Nat
        BY <3>4, CountTypes
      <3>6. sent[i] + Cardinality(Ahead(i)) <= n
        BY <3>4 DEF Counts
      <3> HIDE DEF l2, h, n, b
      <3>7. n + 2 * l2 + h <= MaxPublishAttempts - 1 + 2 * b
        BY <3>3, <3>4, <3>5, BoundsAssumption
      <3> QED BY <2>1, <2>2, <3>6, <3>7 DEF Counts, l2, h, n, b
    <2> QED BY <2>3, <2>4
  <1>3. ASSUME NEW r \in Runs, Mark(r)
        PROVE  Counts(i)'
    <2>1. UNCHANGED <<answer, sent>> /\ now[r] = NoItem
      BY <1>3 DEF Mark
    <2>2. PICK j \in todo[r] :
             \/ file' = file /\ Abort(r)
             \/ /\ file' = SetStatus(file, j, "publishing")
                /\ todo' = [todo EXCEPT ![r] = @ \ {j}]
                /\ now' = [now EXCEPT ![r] = j]
      BY <1>3, MarkEffect
    <2>3. j \in Items /\ file[j] # NoItem /\ file \in Queues /\ answer[r] = "none"
      BY <2>1 DEF TypeOK, Present, AnswersHold
    <2>4. CASE file' = file /\ Abort(r)
      <3>1. Listing(i)' \subseteq Listing(i) /\ Holding(i)' \subseteq Holding(i)
        BY <2>1, <2>4, AbortLetsGo
      <3>2. Ahead(i)' \subseteq Ahead(i)
        BY <2>1, <2>4 DEF Ahead, Abort, TypeOK
      <3> QED BY <2>1, <2>4, <3>1, <3>2, CountsShrink
    <2>5. CASE ~(file' = file /\ Abort(r)) /\ i # j
      <3>1. file'[i] = file[i]
        BY <2>2, <2>3, <2>5, SetStatusEffect DEF Statuses
      <3>2. Listing(i)' \subseteq Listing(i) /\ Holding(i)' \subseteq Holding(i) /\ Ahead(i)' \subseteq Ahead(i)
        BY <2>1, <2>2, <2>5 DEF Listing, Holding, Ahead, TypeOK
      <3> QED BY <2>1, <3>1, <3>2, CountsShrink
    <2>6. CASE ~(file' = file /\ Abort(r)) /\ i = j
      <3>1. file'[i] # NoItem /\ file'[i].attemptCount = file[i].attemptCount + 1
        BY <2>2, <2>3, <2>6, SetStatusEffect DEF Statuses
      <3>2. /\ Listing(i)' = Listing(i) \ {r} /\ r \in Listing(i)
            /\ Holding(i)' = Holding(i) \cup {r} /\ r \notin Holding(i)
            /\ Ahead(i)' = Ahead(i) \cup {r} /\ r \notin Ahead(i)
        BY <2>1, <2>2, <2>3, <2>6 DEF Listing, Holding, Ahead, TypeOK
      <3>3. /\ Cardinality(Listing(i)') = Cardinality(Listing(i)) - 1
            /\ Cardinality(Holding(i)') = Cardinality(Holding(i)) + 1
            /\ Cardinality(Ahead(i)') = Cardinality(Ahead(i)) + 1
        BY <2>3, <2>6, <3>2, RunSets, CountTypes
      <3>4. /\ file[i].attemptCount \in Nat /\ sent[i] \in Nat /\ Cardinality(Listing(i)) \in Nat
            /\ Cardinality(Holding(i)) \in Nat /\ Cardinality(Ahead(i)) \in Nat
        BY <2>3, <2>6, CountTypes
      <3> QED BY <2>1, <2>3, <2>6, <3>1, <3>3, <3>4, CountsMove
    <2> QED BY <2>4, <2>5, <2>6
  <1>4. ASSUME NEW r \in Runs, MarkHashless(r)
        PROVE  Counts(i)'
    <2>1. UNCHANGED <<answer, sent>> /\ now[r] = NoItem
      BY <1>4 DEF MarkHashless
    <2>2. PICK j \in todo[r] :
             \/ file' = file /\ Abort(r)
             \/ /\ file' = SetStatus(SetStatus(file, j, "publishing"), j, "failed")
                /\ todo' = [todo EXCEPT ![r] = @ \ {j}]
                /\ now' = now
      BY <1>4, MarkHashlessEffect
    <2>3. j \in Items /\ file[j] # NoItem /\ file \in Queues
      BY DEF TypeOK, Present
    <2>4. CASE file' = file /\ Abort(r)
      <3>1. Listing(i)' \subseteq Listing(i) /\ Holding(i)' \subseteq Holding(i)
        BY <2>1, <2>4, AbortLetsGo
      <3>2. Ahead(i)' \subseteq Ahead(i)
        BY <2>1, <2>4 DEF Ahead, Abort, TypeOK
      <3> QED BY <2>1, <2>4, <3>1, <3>2, CountsShrink
    <2> DEFINE marked == SetStatus(file, j, "publishing")
    <2>5. /\ marked \in Queues /\ marked[j] # NoItem
          /\ marked[j].attemptCount = file[j].attemptCount + 1
          /\ \A k \in Items \ {j} : marked[k] = file[k]
      BY <2>3, SetStatusEffect DEF Statuses
    <2>6. CASE ~(file' = file /\ Abort(r))
      <3> HIDE DEF marked
      <3>1. file' = SetStatus(marked, j, "failed") /\ todo' = [todo EXCEPT ![r] = @ \ {j}] /\ now' = now
        BY <2>2, <2>6 DEF marked
      <3>2. /\ file'[j] # NoItem
            /\ file'[j].attemptCount = marked[j].attemptCount + 1
            /\ \A k \in Items \ {j} : file'[k] = file[k]
        BY <2>3, <2>5, <3>1, SetStatusEffect DEF Statuses
      <3>3. CASE i # j
        <4>1. Listing(i)' \subseteq Listing(i) /\ Holding(i)' \subseteq Holding(i) /\ Ahead(i)' \subseteq Ahead(i)
          BY <2>1, <3>1 DEF Listing, Holding, Ahead, TypeOK
        <4> QED BY <2>1, <3>2, <3>3, <4>1, CountsShrink
      <3>4. CASE i = j
        <4>1. /\ Listing(i)' = Listing(i) \ {r} /\ r \in Listing(i)
              /\ Holding(i)' = Holding(i) /\ Ahead(i)' = Ahead(i)
          BY <2>1, <2>2, <3>1, <3>4 DEF Listing, Holding, Ahead, TypeOK
        <4>2. Cardinality(Listing(i)') = Cardinality(Listing(i)) - 1
          BY <2>3, <3>4, <4>1, RunSets, CountTypes
        <4>3. /\ file[i].attemptCount \in Nat /\ sent[i] \in Nat /\ Cardinality(Listing(i)) \in Nat
              /\ Cardinality(Holding(i)) \in Nat /\ Cardinality(Ahead(i)) \in Nat
          BY <2>3, <3>4, CountTypes
        <4>4. file'[i].attemptCount = file[i].attemptCount + 2
          BY <2>5, <3>2, <3>4, <4>3
        <4>5. /\ Cardinality(Holding(i)') = Cardinality(Holding(i))
              /\ Cardinality(Ahead(i)') = Cardinality(Ahead(i))
          BY <4>1
        <4> QED BY <2>1, <2>3, <3>2, <3>4, <4>2, <4>3, <4>4, <4>5, CountsMove
      <3> QED BY <3>3, <3>4
    <2> QED BY <2>4, <2>6
  <1>5. ASSUME NEW r \in Runs, Publish(r)
        PROVE  Counts(i)'
    <2>1. /\ now[r] \in Items /\ answer[r] = "none"
          /\ sent' = [sent EXCEPT ![now[r]] = @ + 1]
          /\ UNCHANGED <<file, todo, now>>
          /\ answer' = [answer EXCEPT ![r] = "ok"] \/ answer' = [answer EXCEPT ![r] = "error"]
      BY <1>5 DEF Publish, TypeOK, queue
    <2>2. Listing(i)' = Listing(i) /\ Holding(i)' = Holding(i)
      BY <2>1 DEF Listing, Holding
    <2>3. CASE i # now[r]
      <3>1. Ahead(i)' \subseteq Ahead(i) /\ sent'[i] = sent[i]
        BY <2>1, <2>3 DEF Ahead, TypeOK
      <3> QED BY <2>1, <2>2, <3>1, CountsShrink
    <2>4. CASE i = now[r]
      <3>1. file[i] # NoItem
        BY <2>1, <2>4 DEF Present
      <3>2. Ahead(i)' = Ahead(i) \ {r} /\ r \in Ahead(i) /\ sent'[i] = sent[i] + 1
        BY <2>1, <2>4 DEF Ahead, TypeOK
      <3>3. Cardinality(Ahead(i)') = Cardinality(Ahead(i)) - 1
        BY <3>1, <3>2, RunSets, CountTypes
      <3>4. /\ file[i].attemptCount \in Nat /\ sent[i] \in Nat /\ Cardinality(Listing(i)) \in Nat
            /\ Cardinality(Holding(i)) \in Nat /\ Cardinality(Ahead(i)) \in Nat
        BY <3>1, CountTypes
      <3>5. /\ Cardinality(Listing(i)') = Cardinality(Listing(i))
            /\ Cardinality(Holding(i)') = Cardinality(Holding(i))
            /\ file'[i] # NoItem /\ file'[i].attemptCount = file[i].attemptCount
        BY <2>1, <2>2, <3>1
      <3>6. sent'[i] = sent[i] + 1
        BY <3>2
      <3>7. sent'[i] + Cardinality(Ahead(i)') + file[i].attemptCount
               <= sent[i] + Cardinality(Ahead(i)) + file'[i].attemptCount
        BY <3>3, <3>4, <3>5, <3>6
      <3>8. file'[i].attemptCount + 2 * Cardinality(Listing(i)') + Cardinality(Holding(i)')
               <= file[i].attemptCount + 2 * Cardinality(Listing(i)) + Cardinality(Holding(i))
        BY <3>4, <3>5
      <3> QED BY <3>1, <3>5, <3>7, <3>8, CountsMove
    <2> QED BY <2>3, <2>4
  <1>6. ASSUME NEW r \in Runs, Record(r)
        PROVE  Counts(i)'
    <2>1. answer[r] # "none" /\ answer' = [answer EXCEPT ![r] = "none"] /\ UNCHANGED sent
      BY <1>6 DEF Record
    <2> DEFINE status == IF answer[r] = "ok" THEN "published" ELSE "failed"
    <2>2. /\ now[r] \in Items
          /\ \/ file' = file /\ Abort(r)
             \/ /\ file' = SetStatus(file, now[r], status)
                /\ todo' = todo /\ now' = [now EXCEPT ![r] = NoItem]
      BY <1>6, RecordEffect
    <2>3. file[now[r]] # NoItem /\ file \in Queues /\ status \in Statuses
      BY <2>2 DEF TypeOK, Present, Statuses
    <2>4. Ahead(i)' \subseteq Ahead(i) /\ Holding(i)' \subseteq Holding(i) /\ Listing(i)' \subseteq Listing(i)
      BY <2>1, <2>2 DEF Ahead, Holding, Listing, Abort, TypeOK
    <2>5. CASE file'[i] = file[i]
      BY <2>1, <2>4, <2>5, CountsShrink
    <2>6. CASE file'[i] # file[i]
      <3>1. i = now[r] /\ file' = SetStatus(file, i, status) /\ now' = [now EXCEPT ![r] = NoItem] /\ todo' = todo
        BY <2>2, <2>3, <2>6, SetStatusEffect
      <3>2. file'[i] # NoItem /\ file'[i].attemptCount = file[i].attemptCount + 1
        BY <2>3, <3>1, SetStatusEffect
      <3>3. Holding(i)' = Holding(i) \ {r} /\ r \in Holding(i) /\ Ahead(i)' = Ahead(i) /\ Listing(i)' = Listing(i)
        BY <2>1, <3>1 DEF Holding, Ahead, Listing, TypeOK
      <3>4. Cardinality(Holding(i)') = Cardinality(Holding(i)) - 1
        BY <2>3, <3>1, <3>3, RunSets, CountTypes
      <3>5. /\ file[i].attemptCount \in Nat /\ sent[i] \in Nat /\ Cardinality(Listing(i)) \in Nat
            /\ Cardinality(Holding(i)) \in Nat /\ Cardinality(Ahead(i)) \in Nat
        BY <2>3, <3>1, CountTypes
      <3>6. /\ Cardinality(Listing(i)') = Cardinality(Listing(i))
            /\ Cardinality(Ahead(i)') = Cardinality(Ahead(i))
        BY <3>3
      <3> QED BY <2>1, <2>3, <3>1, <3>2, <3>4, <3>5, <3>6, CountsMove
    <2> QED BY <2>5, <2>6
  <1>7. CASE Show \/ LateWrite \/ Recover
    <2>1. UNCHANGED <<file, todo, now, answer, sent>>
      BY <1>7 DEF Show, LateWrite, Recover, queue, run
    <2> QED BY <2>1 DEF Counts, Listing, Holding, Ahead
  <1>8. CASE Crash
    <2>1. /\ UNCHANGED <<file, sent>> /\ todo' = [r \in Runs |-> {}]
          /\ now' = [r \in Runs |-> NoItem]
      BY <1>8 DEF Crash
    <2>2. Listing(i)' = {} /\ Holding(i)' = {} /\ Ahead(i)' = {}
      BY <2>1 DEF Listing, Holding, Ahead
    <2> QED BY <2>1, <2>2, CountsShrink
  <1> QED BY <1>1, <1>2, <1>3, <1>4, <1>5, <1>6, <1>7, <1>8 DEF Next, Go

----------------------------------------------------------------------------
(* The theorems *)

\* The inductive invariant holds in every state of the revocation queue.
THEOREM QueueInvariant == Spec => []IInv
  <1>1. Init => IInv
    <2> SUFFICES ASSUME Init PROVE IInv
      OBVIOUS
    <2>1. TypeOK
      BY BoundsAssumption DEF Init, TypeOK, Empty, Queues
    <2>2. Present /\ AnswersHold /\ PublishedIsLive
      BY NoItemAssumption DEF Init, Present, AnswersHold, PublishedIsLive, Empty
    <2>3. \A i \in Items : Counts(i)
      BY DEF Init, Counts, Empty
    <2> QED BY <2>1, <2>2, <2>3 DEF IInv, Base
  <1>2. IInv /\ [Next]_vars => IInv'
    <2> SUFFICES ASSUME IInv, [Next]_vars PROVE IInv'
      OBVIOUS
    <2>1. CASE Next
      BY <2>1, BaseStep, CountsStep DEF IInv
    <2>2. CASE UNCHANGED vars
      BY ZenonT(60), <2>2 DEF IInv, Base, TypeOK, Present, AnswersHold, PublishedIsLive,
                  Counts, Listing, Holding, Ahead, vars, queue, run, dedi
    <2> QED BY <2>1, <2>2
  <1> QED BY <1>1, <1>2, PTL DEF Spec

\* What is stored has the type the code gives it.
THEOREM QueueTypeCorrect == Spec => []TypeOK
  <1>1. IInv => TypeOK
    BY DEF IInv, Base
  <1> QED BY <1>1, QueueInvariant, PTL

\* An item shown as published is revoked: whatever runs overlap, whichever saves
\* and loads fail, and wherever the application is restarted.
THEOREM PublishedIsLiveAlways == Spec => []PublishedIsLive
  <1>1. IInv => PublishedIsLive
    BY DEF IInv, Base
  <1> QED BY <1>1, QueueInvariant, PTL

\* No call to DeDi is made that the stored counter does not show.
THEOREM SendsCountedAlways == Spec => []SendsCounted
  <1>1. IInv => SendsCounted
    <2> SUFFICES ASSUME IInv, NEW i \in Items, file[i] # NoItem
                 PROVE  sent[i] <= file[i].attemptCount
      BY DEF SendsCounted
    <2>1. sent[i] + Cardinality(Ahead(i)) <= file[i].attemptCount
      BY DEF IInv, Counts
    <2>2. file[i].attemptCount \in Nat /\ sent[i] \in Nat /\ Cardinality(Ahead(i)) \in Nat
      BY CountTypes DEF IInv, Base
    <2> QED BY <2>1, <2>2
  <1> QED BY <1>1, QueueInvariant, PTL

\* However many runs overlap, each takes an item at most two counts past the
\* budget it was listed under.
THEOREM AttemptsBoundedAlways == Spec => []AttemptsBounded
  <1>1. IInv => AttemptsBounded
    <2> SUFFICES ASSUME IInv, NEW i \in Items, file[i] # NoItem
                 PROVE  file[i].attemptCount <= MaxPublishAttempts - 1 + 2 * Cardinality(Runs)
      BY DEF AttemptsBounded
    <2> DEFINE l == Cardinality(Listing(i))
               h == Cardinality(Holding(i))
               n == file[i].attemptCount
               b == Cardinality(Runs)
    <2>1. n + 2 * l + h <= MaxPublishAttempts - 1 + 2 * b
      BY DEF IInv, Counts
    <2>2. n \in Nat /\ l \in Nat /\ h \in Nat /\ b \in Nat /\ MaxPublishAttempts \in Nat
      BY CountTypes DEF IInv, Base
    <2> HIDE DEF l, h, n, b
    <2>3. n <= MaxPublishAttempts - 1 + 2 * b
      BY <2>1, <2>2
    <2> QED BY <2>3 DEF n, b
  <1> QED BY <1>1, QueueInvariant, PTL
-----------------------------------------------------------------------------
(* Who asks for a revocation                                                *)

\* Nothing anywhere is about the credential c.
Untouched(c) ==
    /\ c \notin live /\ c \notin late
    /\ \A i \in Items : CredentialOf[i] = c =>
          /\ file[i] = NoItem /\ known[i] = NoItem
          /\ \A r \in Runs : i \notin todo[r] /\ now[r] # i

AskedFor(c) == c \in wanted \/ Untouched(c)

\* No item comes into the queue by a change of status.
LEMMA UpdateAdmitsNone ==
    ASSUME TypeOK, NEW q \in Queues, NEW mode \in {"up", "full", "down"}, NEW i \in Items,
           NEW status \in Statuses, Update(mode, q, i, status),
           NEW j \in Items, file[j] = NoItem, q[j] = NoItem
    PROVE  file'[j] = NoItem /\ known'[j] = NoItem
  <1>1. CASE q[i] = NoItem
    BY <1>1 DEF Update
  <1>2. CASE q[i] # NoItem
    <2>1. /\ known' = SetStatus(q, i, status)
          /\ file' = (IF mode = "up" THEN SetStatus(q, i, status) ELSE file)
      BY <1>2, UpdateEffect
    <2>2. SetStatus(q, i, status)[j] = NoItem
      BY <1>2, SetStatusEffect
    <2> QED BY <2>1, <2>2
  <1> QED BY <1>1, <1>2

LEMMA LoadedNone ==
    ASSUME TypeOK, NEW mode \in Modes, NEW j \in Items, file[j] = NoItem, known[j] = NoItem
    PROVE  mode \in {"up", "full", "down"} /\ Loaded(mode) \in Queues /\ Loaded(mode)[j] = NoItem
  BY DEF TypeOK, Modes, Loaded

\* A run adds no item to what the queue and the runs are about.
LEMMA RunAdmitsNone ==
    ASSUME TypeOK, Present, AnswersHold, NEW r \in Runs, Begin(r) \/ Mark(r) \/ MarkHashless(r) \/ Record(r),
           NEW j \in Items, file[j] = NoItem, known[j] = NoItem,
           \A s \in Runs : j \notin todo[s] /\ now[s] # j
    PROVE  /\ file'[j] = NoItem /\ known'[j] = NoItem
           /\ \A s \in Runs : j \notin todo'[s] /\ now'[s] # j
  <1> USE NoItemAssumption
  <1>1. CASE Begin(r)
    <2>1. j \notin Listed(file)
      BY DEF Listed
    <2> QED BY <1>1, <2>1 DEF Begin, TypeOK
  <1>2. CASE Mark(r)
    <2>1. PICK i \in todo[r] \cap Hashed, mode \in Modes :
            /\ Update(mode, Loaded(mode), i, "publishing")
            /\ IF Throws(mode, i) THEN Abort(r)
               ELSE todo' = [todo EXCEPT ![r] = @ \ {i}] /\ now' = [now EXCEPT ![r] = i]
      BY <1>2 DEF Mark
    <2>2. i \in Items /\ "publishing" \in Statuses /\ i # j
      BY DEF TypeOK, Statuses
    <2>3. file'[j] = NoItem /\ known'[j] = NoItem
      BY <2>1, <2>2, LoadedNone, UpdateAdmitsNone
    <2> QED BY <2>1, <2>2, <2>3 DEF Abort, TypeOK
  <1>3. CASE MarkHashless(r)
    <2>1. PICK i \in todo[r] \ Hashed, mode \in Modes :
            LET q == Loaded(mode) IN
            IF Throws(mode, i)
            THEN Update(mode, q, i, "publishing") /\ Abort(r)
            ELSE /\ Update(mode, IF q[i] = NoItem THEN q ELSE SetStatus(q, i, "publishing"),
                           i, "failed")
                 /\ todo' = [todo EXCEPT ![r] = @ \ {i}]
                 /\ UNCHANGED now
      BY <1>3 DEF MarkHashless
    <2>2. /\ i \in Items /\ "publishing" \in Statuses /\ "failed" \in Statuses
          /\ mode \in {"up", "full", "down"} /\ Loaded(mode) \in Queues /\ Loaded(mode)[j] = NoItem
      BY LoadedNone DEF TypeOK, Statuses
    <2>3. PICK q \in Queues :
            /\ q = IF Loaded(mode)[i] = NoItem THEN Loaded(mode)
                   ELSE SetStatus(Loaded(mode), i, "publishing")
            /\ q[j] = NoItem
      BY <2>2, SetStatusEffect
    <2>4. file'[j] = NoItem /\ known'[j] = NoItem
      BY <2>1, <2>2, <2>3, UpdateAdmitsNone
    <2>5. Abort(r) \/ (todo' = [todo EXCEPT ![r] = @ \ {i}] /\ now' = now)
      BY <2>1
    <2> QED BY <2>4, <2>5 DEF Abort, TypeOK
  <1>4. CASE Record(r)
    <2> DEFINE i == now[r]
    <2>1. PICK mode \in Modes :
            IF Throws(mode, i)
            THEN /\ Abort(r)
                 /\ Update(mode, IF answer[r] = "ok" /\ mode = "down" THEN SetStatus(known, i, "published")
                                 ELSE Loaded(mode), i, "failed")
            ELSE /\ now' = [now EXCEPT ![r] = NoItem]
                 /\ UNCHANGED todo
                 /\ Update(mode, Loaded(mode), i, IF answer[r] = "ok" THEN "published" ELSE "failed")
      BY <1>4 DEF Record
    <2>2. /\ i \in Items /\ "published" \in Statuses /\ "failed" \in Statuses
          /\ mode \in {"up", "full", "down"} /\ Loaded(mode) \in Queues /\ Loaded(mode)[j] = NoItem
          /\ known \in Queues /\ known[i] # NoItem
      <3>1. i \in Items /\ known[i] # NoItem /\ known \in Queues
        <4>1. answer[r] # "none"
          BY <1>4 DEF Record
        <4>2. now[r] # NoItem
          BY <4>1 DEF AnswersHold
        <4> QED BY <4>2 DEF TypeOK, Present
      <3> QED BY <3>1, LoadedNone DEF Statuses
    <2>3. \E q \in Queues, status \in Statuses : q[j] = NoItem /\ Update(mode, q, i, status)
      <3>1. SetStatus(known, i, "published") \in Queues /\ SetStatus(known, i, "published")[j] = NoItem
        BY <2>2, SetStatusEffect
      <3> QED BY <2>1, <2>2, <3>1
    <2>4. file'[j] = NoItem /\ known'[j] = NoItem
      BY <2>2, <2>3, UpdateAdmitsNone
    <2>5. Abort(r) \/ (now' = [now EXCEPT ![r] = NoItem] /\ todo' = todo)
      BY <2>1
    <2> QED BY <2>4, <2>5 DEF Abort, TypeOK
  <1> QED BY <1>1, <1>2, <1>3, <1>4

\* Only a request of the user, or a row of a batch, is about a new credential.
LEMMA AskedForStep ==
    ASSUME NEW c \in Credentials, TypeOK, Present, AnswersHold, [Next]_vars, AskedFor(c),
           \A i \in Items : IssueRow(i) => CredentialOf[i] # c \/ c \in wanted
    PROVE  AskedFor(c)'
  <1>1. wanted \subseteq wanted'
    BY DEF Next, vars, QueueRequest, IssueRow, Begin, Go, Mark, MarkHashless, Publish, Record,
           Show, LateWrite, Recover, Crash
  <1> SUFFICES ASSUME Untouched(c), c \notin wanted' PROVE Untouched(c)'
    BY <1>1 DEF AskedFor
  <1> USE ItemsAssumption, NoItemAssumption
  <1>2. ASSUME NEW i \in Items, QueueRequest(i) \/ IssueRow(i)
        PROVE  Untouched(c)'
    <2>1. CredentialOf[i] # c
      BY <1>1, <1>2 DEF QueueRequest
    <2>2. PICK mode \in Modes : Save(mode, [Loaded(mode) EXCEPT ![i] = [status |-> "pending", attemptCount |-> 0]])
      BY <1>2 DEF QueueRequest, IssueRow, Enqueue
    <2>3. UNCHANGED <<todo, now, live, late>>
      BY <1>2 DEF QueueRequest, IssueRow, run, dedi
    <2>4. ASSUME NEW j \in Items, CredentialOf[j] = c
          PROVE  file'[j] = NoItem /\ known'[j] = NoItem
      <3>1. file[j] = NoItem /\ known[j] = NoItem /\ j # i
        BY <2>1, <2>4 DEF Untouched
      <3>2. Loaded(mode) \in Queues /\ Loaded(mode)[j] = NoItem
        BY <3>1, LoadedNone
      <3> QED BY <2>2, <3>1, <3>2 DEF Save, Queues
    <2> QED BY <2>3, <2>4 DEF Untouched
  <1>3. ASSUME NEW r \in Runs, Begin(r) \/ Mark(r) \/ MarkHashless(r) \/ Record(r)
        PROVE  Untouched(c)'
    <2>1. UNCHANGED <<live, late>>
      BY <1>3 DEF Begin, Mark, MarkHashless, Record, dedi
    <2>2. ASSUME NEW j \in Items, CredentialOf[j] = c
          PROVE  /\ file'[j] = NoItem /\ known'[j] = NoItem
                 /\ \A s \in Runs : j \notin todo'[s] /\ now'[s] # j
      BY <1>3, <2>2, RunAdmitsNone DEF Untouched
    <2> QED BY <2>1, <2>2 DEF Untouched
  <1>4. ASSUME NEW r \in Runs, Publish(r)
        PROVE  Untouched(c)'
    <2>1. now[r] \in Items /\ UNCHANGED <<file, known, todo, now>>
      BY <1>4 DEF Publish, TypeOK, queue
    <2>2. CredentialOf[now[r]] # c
      BY <2>1 DEF Untouched
    <2>3. live' \subseteq live \cup {CredentialOf[now[r]]} /\ late' \subseteq late \cup {CredentialOf[now[r]]}
      BY <1>4 DEF Publish, dedi
    <2> QED BY <2>1, <2>2, <2>3 DEF Untouched
  <1>5. CASE LateWrite \/ Show \/ Recover \/ UNCHANGED vars
    BY <1>5 DEF LateWrite, Show, Recover, vars, queue, run, dedi, Untouched
  <1>6. CASE Crash
    BY <1>6 DEF Crash, Untouched, Empty, dedi
  <1> QED BY <1>2, <1>3, <1>4, <1>5, <1>6 DEF Next, Go

(* The batch engine is the one way a credential is revoked that the user    *)
(* did not ask to revoke (processRow, batch-engine.ts:177-190): if it       *)
(* queues nothing for it, no overlap of runs, lost answer, failing save or  *)
(* restart revokes it (publishPendingRevocations).                          *)
THEOREM OnlyBatchRevokesUnasked ==
    ASSUME NEW c \in Credentials
    PROVE  /\ Spec
           /\ [][\A i \in Items : IssueRow(i) => CredentialOf[i] # c \/ c \in wanted]_vars
           => [](c \in live => c \in wanted)
  <1> DEFINE Elsewhere == \A i \in Items : IssueRow(i) => CredentialOf[i] # c \/ c \in wanted
  <1>1. Init => AskedFor(c)
    BY NoItemAssumption DEF Init, AskedFor, Untouched, Empty
  <1>2. IInv /\ AskedFor(c) /\ [Next]_vars /\ [Elsewhere]_vars => AskedFor(c)'
    <2> SUFFICES ASSUME IInv, AskedFor(c), [Next]_vars, [Elsewhere]_vars PROVE AskedFor(c)'
      OBVIOUS
    <2>1. CASE UNCHANGED vars
      BY <2>1 DEF AskedFor, Untouched, vars, queue, run, dedi
    <2>2. CASE Elsewhere
      BY <2>2, AskedForStep DEF IInv, Base
    <2> QED BY <2>1, <2>2
  <1>3. AskedFor(c) => (c \in live => c \in wanted)
    BY DEF AskedFor, Untouched
  <1> HIDE DEF Elsewhere
  <1>4. Spec /\ [][Elsewhere]_vars => [](c \in live => c \in wanted)
    BY <1>1, <1>2, <1>3, QueueInvariant, PTL DEF Spec
  <1> QED BY <1>4 DEF Elsewhere
=============================================================================
