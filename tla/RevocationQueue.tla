-------------------------- MODULE RevocationQueue --------------------------
(***************************************************************************)
(* The desktop application's revocation queue: a list of items in a store  *)
(* on disk, loaded, changed and saved as a whole by synchronous code, and  *)
(* publish runs that walk over the items one DeDi call at a time.  A user  *)
(* queues revocations from the revocation page; the batch engine queues    *)
(* an item for every credential it issues.                                 *)
(*                                                                         *)
(* A call of publishRevocationHash makes the hash LIVE and returns, finds  *)
(* it LIVE and throws, or throws with the write carried out, still to come *)
(* (`late`), or lost; the run learns the outcome in a later step.  The     *)
(* code records an outcome and marks the next item without an await: they  *)
(* are steps of their own here because the process may die between them.   *)
(*                                                                         *)
(* In one turn of the event loop the store works ("up"), can be read but   *)
(* not written ("full"), or neither ("down": electron-store reads the file *)
(* before it writes it).                                                   *)
(***************************************************************************)
EXTENDS Naturals, FiniteSets

CONSTANTS
    Items,        \* queueIds
    Credentials,
    CredentialOf, \* the credential each item revokes
    Hashed,       \* the items that carry a revocation hash
    Runs,         \* publish runs that may be in progress at once
    NoItem,       \* no such item
    MaxPublishAttempts,  \* 5 in the code
    MaxCrashes    \* bound: restarts of the application

ASSUME ItemsAssumption  == CredentialOf \in [Items -> Credentials] /\ Hashed \subseteq Items
ASSUME RunsAssumption   == IsFiniteSet(Runs)
ASSUME BoundsAssumption == MaxPublishAttempts \in Nat \ {0} /\ MaxCrashes \in Nat

VARIABLES
    file,     \* the queue in the store
    known,    \* lastKnownQueue
    todo,     \* per run: the items it has listed and not yet come to
    now,      \* per run: the item it is publishing
    answer,   \* per run: what DeDi answered to the call for that item
    live,     \* credentials revoked at DeDi
    late,     \* credentials whose write may still be carried out
    outage,   \* DeDi calls and store accesses may fail
    wanted,   \* credentials the user has asked to revoke
    sent,     \* per item: calls made to DeDi
    crashes

queue == <<file, known>>
run   == <<todo, now, answer>>
dedi  == <<live, late>>
vars  == <<queue, run, dedi, outage, wanted, sent, crashes>>

Statuses == {"pending", "publishing", "published", "failed"}
Queued   == [status : Statuses, attemptCount : Nat]

ASSUME NoItemAssumption == NoItem \notin Items /\ NoItem \notin Queued

Queues   == [Items -> Queued \cup {NoItem}]
Empty    == [i \in Items |-> NoItem]

TypeOK ==
    /\ file \in Queues /\ known \in Queues
    /\ todo \in [Runs -> SUBSET Items]
    /\ now \in [Runs -> Items \cup {NoItem}]
    /\ answer \in [Runs -> {"none", "ok", "error"}]
    /\ live \subseteq Credentials /\ late \subseteq Credentials
    /\ outage \in BOOLEAN
    /\ wanted \subseteq Credentials
    /\ sent \in [Items -> Nat]
    /\ crashes \in 0..MaxCrashes

Init ==
    /\ file = Empty /\ known = Empty
    /\ todo = [r \in Runs |-> {}]
    /\ now = [r \in Runs |-> NoItem]
    /\ answer = [r \in Runs |-> "none"]
    /\ live = {} /\ late = {}
    /\ outage = TRUE
    /\ wanted = {}
    /\ sent = [i \in Items |-> 0]
    /\ crashes = 0

----------------------------------------------------------------------------
(* The store *)

Modes == IF outage THEN {"up", "full", "down"} ELSE {"up"}

\* loadQueue falls back to the last known queue.
Loaded(mode) == IF mode = "down" THEN known ELSE file

\* saveQueue.  The array changed in memory is the last known one either way.
Save(mode, q) ==
    /\ known' = q
    /\ file' = IF mode = "up" THEN q ELSE file

\* Every change of status counts as an attempt.
SetStatus(q, i, status) ==
    [q EXCEPT ![i] = [status |-> status, attemptCount |-> @.attemptCount + 1]]

\* updateQueueItemStatus: an item that is not in the queue is left alone, and
\* nothing is saved.
Update(mode, q, i, status) ==
    IF q[i] = NoItem THEN known' = q /\ UNCHANGED file
    ELSE Save(mode, SetStatus(q, i, status))

Throws(mode, i) == Loaded(mode)[i] # NoItem /\ mode # "up"

----------------------------------------------------------------------------
(* Items enter *)

\* queueRevocation, for a random id: one that is nowhere yet.
Enqueue(i) ==
    /\ file[i] = NoItem /\ known[i] = NoItem /\ sent[i] = 0
    /\ \A r \in Runs : i \notin todo[r] \cup {now[r]}
    /\ \E mode \in Modes :
          Save(mode, [Loaded(mode) EXCEPT ![i] = [status |-> "pending", attemptCount |-> 0]])

\* REVOCATION_QUEUE.  The revocation page sends no hash; the channel takes one.
QueueRequest(i) ==
    /\ Enqueue(i)
    /\ wanted' = wanted \cup {CredentialOf[i]}
    /\ UNCHANGED <<run, dedi, outage, sent, crashes>>

\* The batch engine has signed a credential that names a revocation registry.
IssueRow(i) ==
    /\ i \in Hashed
    /\ Enqueue(i)
    /\ UNCHANGED <<run, dedi, outage, wanted, sent, crashes>>

----------------------------------------------------------------------------
(* publishPendingRevocations *)

Idle(r) == todo[r] = {} /\ now[r] = NoItem

\* (fault) the budget is not looked at
ListedForever(q) ==
    {i \in Items : q[i] # NoItem /\ q[i].status \in {"pending", "failed"}}

\* The items that wait or have failed, and have attempts left.
Listed(q) ==
    {i \in Items : q[i] # NoItem /\ q[i].status \in {"pending", "failed"}
                   /\ q[i].attemptCount < MaxPublishAttempts}

\* The list is made before the first await.  Without a store, a namespace or a
\* network the run ends there and changes nothing.
Begin(r) ==
    /\ Idle(r)
    /\ known' = file
    /\ todo' = [todo EXCEPT ![r] = Listed(file)]
    /\ UNCHANGED <<file, now, answer, dedi, outage, wanted, sent, crashes>>

\* REVOCATION_STATUS loads the queue to show it.
Show ==
    /\ known' = file
    /\ UNCHANGED <<file, run, dedi, outage, wanted, sent, crashes>>

\* What is thrown outside of the try block ends the run.
Abort(r) == /\ todo' = [todo EXCEPT ![r] = {}]
            /\ now' = [now EXCEPT ![r] = NoItem]

\* The next item, in any order, is marked; then it is sent.
Mark(r) ==
    /\ now[r] = NoItem
    /\ \E i \in todo[r] \cap Hashed, mode \in Modes :
          /\ Update(mode, Loaded(mode), i, "publishing")
          /\ IF Throws(mode, i) THEN Abort(r)
             ELSE todo' = [todo EXCEPT ![r] = @ \ {i}] /\ now' = [now EXCEPT ![r] = i]
    /\ UNCHANGED <<answer, dedi, outage, wanted, sent, crashes>>


\* The next item has no hash: it is marked and fails in the same turn.
MarkHashless(r) ==
    /\ now[r] = NoItem
    /\ \E i \in todo[r] \ Hashed, mode \in Modes :
          LET q == Loaded(mode) IN
          IF Throws(mode, i)
          THEN Update(mode, q, i, "publishing") /\ Abort(r)
          ELSE /\ Update(mode, IF q[i] = NoItem THEN q ELSE SetStatus(q, i, "publishing"),
                         i, "failed")
               /\ todo' = [todo EXCEPT ![r] = @ \ {i}]
               /\ UNCHANGED now
    /\ UNCHANGED <<answer, dedi, outage, wanted, sent, crashes>>

\* publishRevocationHash for the item under way.
Publish(r) ==
    /\ now[r] # NoItem /\ answer[r] = "none"
    /\ sent' = [sent EXCEPT ![now[r]] = @ + 1]
    /\ LET c == CredentialOf[now[r]]
           Answer(a) == answer' = [answer EXCEPT ![r] = a] IN
       \/ c \notin live /\ live' = live \cup {c} /\ UNCHANGED late /\ Answer("ok")
       \/ c \in live /\ UNCHANGED dedi /\ Answer("error")
       \/ outage /\ Answer("error")
          /\ \/ live' = live \cup {c} /\ UNCHANGED late
             \/ late' = late \cup {c} /\ UNCHANGED live
             \/ UNCHANGED dedi
    /\ UNCHANGED <<queue, todo, now, outage, wanted, crashes>>

\* (fault) an answer of DeDi is a success, whatever it says
RecordPublished(r) ==
    /\ answer[r] # "none"
    /\ answer' = [answer EXCEPT ![r] = "none"]
    /\ now' = [now EXCEPT ![r] = NoItem]
    /\ Update("up", file, now[r], "published")
    /\ UNCHANGED <<todo, dedi, outage, wanted, sent, crashes>>

\* The outcome is written to the queue.  A "published" that cannot be saved is
\* caught and turned into a "failed", which cannot be saved either and is thrown.
Record(r) ==
    /\ answer[r] # "none"
    /\ answer' = [answer EXCEPT ![r] = "none"]
    /\ \E mode \in Modes :
          LET i  == now[r]
              ok == answer[r] = "ok" IN
          IF Throws(mode, i)
          THEN /\ Abort(r)
               /\ Update(mode, IF ok /\ mode = "down" THEN SetStatus(known, i, "published")
                               ELSE Loaded(mode), i, "failed")
          ELSE /\ now' = [now EXCEPT ![r] = NoItem]
               /\ UNCHANGED todo
               /\ Update(mode, Loaded(mode), i, IF ok THEN "published" ELSE "failed")
    /\ UNCHANGED <<dedi, outage, wanted, sent, crashes>>

----------------------------------------------------------------------------
(* The world *)

LateWrite ==
    /\ \E c \in late : live' = live \cup {c} /\ late' = late \ {c}
    /\ UNCHANGED <<queue, run, outage, wanted, sent, crashes>>

\* From now on DeDi answers and the store works.
Recover ==
    /\ outage
    /\ outage' = FALSE
    /\ UNCHANGED <<queue, run, dedi, wanted, sent, crashes>>

Crash ==
    /\ crashes < MaxCrashes
    /\ crashes' = crashes + 1
    /\ known' = Empty
    /\ todo' = [r \in Runs |-> {}]
    /\ now' = [r \in Runs |-> NoItem]
    /\ answer' = [r \in Runs |-> "none"]
    /\ UNCHANGED <<file, dedi, outage, wanted, sent>>

Go(r) == Mark(r) \/ MarkHashless(r) \/ Publish(r) \/ Record(r)

Next == \/ \E i \in Items : QueueRequest(i) \/ IssueRow(i)
        \/ \E r \in Runs : Begin(r) \/ Go(r)
        \/ Show \/ LateWrite \/ Recover \/ Crash

\* A run that has been begun goes on.  Nothing in the application begins one:
\* REVOCATION_PUBLISH is exposed to the renderer, which never invokes it.  So no
\* fairness is asked of Begin.
Spec == /\ Init /\ [][Next]_vars
        /\ \A r \in Runs : WF_vars(Go(r))

----------------------------------------------------------------------------
(* Properties *)

\* The application shows an item as published only when verifiers see the
\* credential revoked, whatever runs overlap and whichever saves fail.
PublishedIsLive ==
    \A i \in Items : file[i] # NoItem /\ file[i].status = "published" => CredentialOf[i] \in live

\* No call to DeDi goes uncounted: the counter in the store, which ends the
\* retries, never lags the calls made, across failing saves, overlapping runs
\* and restarts.
SendsCounted ==
    \A i \in Items : file[i] # NoItem => sent[i] <= file[i].attemptCount

\* The retry budget holds for whole runs, whatever they overlap with: an item is
\* listed below the budget, then marked and recorded once by each run.
AttemptsBounded ==
    \A i \in Items : file[i] # NoItem =>
        file[i].attemptCount <= MaxPublishAttempts - 1 + 2 * Cardinality(Runs)

\* Listed by the run, and not sent to DeDi by it yet.
NotSentYet(r, i) == i \in todo[r] \/ (now[r] = i /\ answer[r] = "none")


\* (module comment) a credential is revoked when the user revokes it
OnlyWantedRevoked == live \subseteq wanted
=============================================================================
