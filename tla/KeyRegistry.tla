---------------------------- MODULE KeyRegistry ----------------------------
(***************************************************************************)
(* The signing keys of one did:web issuer in DeDi's key registry: publish, *)
(* rotate and revoke, which read a record, merge and write it back whole,  *)
(* and the did.json that is kept as a snapshot on the records.             *)
(*                                                                         *)
(* A key is its index n of #key-<n>.  A did.json is the set of keys it     *)
(* lists and the set of those its relationships refer to (`usable`); the   *)
(* key material is left out, and so is the did.json a revocation answers,  *)
(* which is for the operator alone.                                        *)
(*                                                                         *)
(* DeDi is external: a write is answered, or its answer is lost, and then  *)
(* it was carried out, never is, or may be at any time later (`late`).     *)
(***************************************************************************)
EXTENDS Naturals, Sequences, FiniteSets

CONSTANTS
    Servers,     \* replicas: each has a chain of writes for every key
    Requests,    \* slots, each serves one request after the other
    Host,        \* the server a slot belongs to
    LastKey,     \* bound: keys 0..LastKey
    Provided,    \* documents the operator may pass as currentDidDocument
    MaxLate      \* bound: writes that DeDi may carry out late

ASSUME HostAssumption  == Host \in [Requests -> Servers]
ASSUME ProvidedAssumption ==
    Provided \subseteq [listed : SUBSET (0..LastKey), usable : SUBSET (0..LastKey)]
ASSUME BoundAssumption == LastKey \in Nat /\ MaxLate \in Nat

VARIABLES
    at, status, doc,   \* per key: its record at DeDi
    late,              \* writes that may still be carried out
    pc, op, key, prev, \* per slot: its place, the request, the keys it names
    built,             \* per slot: the did.json of its answer
    stored,            \* per slot: hostDidDoc, then didDocumentStored
    seen,              \* per slot: what resolveKey read
    chain,             \* keyStatusWrites, per server and key
    served, revoked    \* history: keys whose rotation was answered with
                       \* didDocumentStored, whose revocation was answered

registry == <<at, status, doc>>
slot     == <<pc, op, key, prev, built, stored, seen>>
history  == <<served, revoked>>
vars     == <<registry, late, slot, chain, history>>

Keys  == 0..LastKey
NoKey == LastKey + 1  \* previousVerificationMethod left out

DidDocs == [listed : SUBSET Keys, usable : SUBSET Keys]
NoDoc   == [listed |-> {}, usable |-> {}]
Snapshot(listed, usable) == [listed |-> listed, usable |-> usable]

Statuses == {"active", "rotated", "revoked"}
KEY_STATUS_RANK == [s \in Statuses |-> CASE s = "active"  -> 0
                                         [] s = "rotated" -> 1
                                         [] s = "revoked" -> 2]

Places == {"idle", "save", "publish", "attach", "attaching", "status", "changing"}
Writes == [kind : {"draft", "publish", "update"}, key : Keys, status : Statuses, doc : DidDocs]
Reads  == [status : Statuses, doc : DidDocs]
Unread == [status |-> "active", doc |-> NoDoc]

TypeOK ==
    /\ at \in [Keys -> {"absent", "draft", "live"}]
    /\ status \in [Keys -> Statuses]
    /\ doc \in [Keys -> DidDocs]
    /\ late \subseteq Writes
    /\ pc \in [Requests -> Places]
    /\ op \in [Requests -> {"none", "publish", "rotate", "revoke"}]
    /\ key \in [Requests -> Keys]
    /\ prev \in [Requests -> Keys \cup {NoKey}]
    /\ built \in [Requests -> DidDocs]
    /\ \A r \in Requests : built[r].usable \subseteq built[r].listed
    /\ stored \in [Requests -> BOOLEAN]
    /\ seen \in [Requests -> Reads]
    /\ chain \in [Servers \X Keys -> Seq(Requests)]
    /\ served \subseteq Keys /\ revoked \subseteq Keys

Init ==
    /\ at = [k \in Keys |-> "absent"]
    /\ status = [k \in Keys |-> "active"]
    /\ doc = [k \in Keys |-> NoDoc]
    /\ late = {}
    /\ pc = [r \in Requests |-> "idle"]
    /\ op = [r \in Requests |-> "none"]
    /\ key = [r \in Requests |-> 0]
    /\ prev = [r \in Requests |-> NoKey]
    /\ built = [r \in Requests |-> NoDoc]
    /\ stored = [r \in Requests |-> FALSE]
    /\ seen = [r \in Requests |-> Unread]
    /\ chain = [c \in Servers \X Keys |-> <<>>]
    /\ served = {} /\ revoked = {}

----------------------------------------------------------------------------
(* DeDi *)

Draft(k, d)     == [kind |-> "draft", key |-> k, status |-> "active", doc |-> d]
Publish(k)      == [kind |-> "publish", key |-> k, status |-> "active", doc |-> NoDoc]
Update(k, s, d) == [kind |-> "update", key |-> k, status |-> s, doc |-> d]

Duplicate(w) == w.kind = "draft" /\ at[w.key] # "absent"

\* The records after a write: update-record replaces the whole payload.
Applied(w) ==
    \/ /\ w.kind = "draft" /\ at[w.key] = "absent"
       /\ at' = [at EXCEPT ![w.key] = "draft"]
       /\ doc' = [doc EXCEPT ![w.key] = w.doc]
       /\ status' = [status EXCEPT ![w.key] = w.status]
    \/ /\ w.kind = "publish" /\ at[w.key] = "draft"
       /\ at' = [at EXCEPT ![w.key] = "live"]
       /\ UNCHANGED <<status, doc>>
    \/ /\ w.kind = "update" /\ at[w.key] = "live"
       /\ doc' = [doc EXCEPT ![w.key] = w.doc]
       /\ status' = [status EXCEPT ![w.key] = w.status]
       /\ UNCHANGED at

Answered(w) == Applied(w) /\ UNCHANGED late

\* No answer within the timeout, or an error.
Lost(w) ==
    \/ Applied(w) /\ UNCHANGED late
    \/ UNCHANGED <<registry, late>>
    \/ /\ Cardinality(late) < MaxLate
       /\ late' = late \cup {w}
       /\ UNCHANGED registry

LateWrite ==
    /\ \E w \in late : Applied(w)
    /\ UNCHANGED <<late, slot, chain, history>>

Live == {k \in Keys : at[k] = "live"}

\* resolveDidWebDocument: the snapshot of the highest active key that carries
\* one, or of the highest key at all.
Projection ==
    LET candidates == {k \in Live : doc[k] # NoDoc}
        active     == {k \in candidates : status[k] = "active"}
        pool       == IF active # {} THEN active ELSE candidates
    IN IF pool = {} THEN NoDoc ELSE doc[CHOOSE k \in pool : \A j \in pool : j <= k]

----------------------------------------------------------------------------
(* The chain of writes per key *)

Chained(ch, r, k) == [ch EXCEPT ![<<Host[r], k>>] = Append(@, r)]
Unchained(ch, r, k) == [ch EXCEPT ![<<Host[r], k>>] = Tail(@)]

\* (fault) a write does not wait for the one before it
FirstAlways(r, k) == TRUE

First(r, k) == chain[<<Host[r], k>>] # <<>> /\ Head(chain[<<Host[r], k>>]) = r

----------------------------------------------------------------------------
(* How a request begins and ends *)

Begin(r, o, k, p, d, hosting, place) ==
    /\ pc[r] = "idle"
    /\ pc' = [pc EXCEPT ![r] = place]
    /\ op' = [op EXCEPT ![r] = o]
    /\ key' = [key EXCEPT ![r] = k]
    /\ prev' = [prev EXCEPT ![r] = p]
    /\ built' = [built EXCEPT ![r] = d]
    /\ stored' = [stored EXCEPT ![r] = hosting]
    /\ UNCHANGED <<registry, late, seen, history>>

\* The slot is free again.
Reset(r) ==
    /\ pc' = [pc EXCEPT ![r] = "idle"]
    /\ op' = [op EXCEPT ![r] = "none"]
    /\ key' = [key EXCEPT ![r] = 0]
    /\ prev' = [prev EXCEPT ![r] = NoKey]
    /\ built' = [built EXCEPT ![r] = NoDoc]
    /\ stored' = [stored EXCEPT ![r] = FALSE]
    /\ seen' = [seen EXCEPT ![r] = Unread]

\* An error, or 409.
Fail(r) == Reset(r) /\ UNCHANGED history

\* 200; kept is didDocumentStored.
Answer(r, kept) ==
    /\ Reset(r)
    /\ served' = IF op[r] = "rotate" /\ kept THEN served \cup {key[r]} ELSE served
    /\ revoked' = IF op[r] = "revoke" THEN revoked \cup {prev[r]} ELSE revoked

Move(r, place, kept) ==
    /\ pc' = [pc EXCEPT ![r] = place]
    /\ stored' = [stored EXCEPT ![r] = kept]
    /\ UNCHANGED <<op, key, prev, built, history>>

\* rotate has published the new key: setKeyStatus for the previous one; ch is
\* what the chains are by then.
Retire(r, ch, kept) ==
    IF prev[r] = NoKey
    THEN Answer(r, kept) /\ chain' = ch
    ELSE Move(r, "status", kept) /\ chain' = Chained(ch, r, prev[r]) /\ UNCHANGED seen

----------------------------------------------------------------------------
(* Requests *)

\* POST /keys/publish, or the auto-publish of a server that starts, whose
\* configured index is k: only #key-0 comes with a document.
PublishKey(r, k, hosting) ==
    /\ hosting => k = 0
    /\ Begin(r, "publish", k, NoKey, Snapshot({k}, {k}), hosting, "save")
    /\ UNCHANGED chain

\* Every listed key is carried forward, as revoked if nothing refers to it.
WithKey(d, n) == Snapshot(d.listed \cup {n}, (d.usable \cap d.listed) \cup {n})

\* POST /keys/rotate after its guards; p is the key to retire, current the
\* did.json that was passed or projected.
Rotate(r, n, p, current, hosting) ==
    /\ current # NoDoc /\ n \notin current.listed
    /\ Begin(r, "rotate", n, p, WithKey(current, n), hosting, "save")
    /\ UNCHANGED chain

\* POST /keys/revoke
Revoke(r, k) ==
    /\ Begin(r, "revoke", 0, k, NoDoc, FALSE, "status")
    /\ chain' = Chained(chain, r, k)

\* (fault) a record that exists already counts as published with its document
ExistsIsStored(r) ==
    IF op[r] = "publish" THEN Fail(r) /\ UNCHANGED chain ELSE Retire(r, chain, stored[r])

\* DeDiRecordExistsError: rotate attaches its document to the record.
Exists(r) ==
    CASE op[r] = "publish" -> Fail(r) /\ UNCHANGED chain
      [] op[r] = "rotate" /\ stored[r] ->
            /\ Move(r, "attach", stored[r])
            /\ chain' = Chained(chain, r, key[r])
            /\ UNCHANGED seen
      [] OTHER -> Retire(r, chain, stored[r])

\* save-record-as-draft
Save(r) ==
    LET w == Draft(key[r], IF stored[r] THEN built[r] ELSE NoDoc) IN
    /\ pc[r] = "save"
    /\ \/ Answered(w) /\ Move(r, "publish", stored[r]) /\ UNCHANGED <<seen, chain>>
       \/ Duplicate(w) /\ Exists(r) /\ UNCHANGED <<registry, late>>
       \/ Lost(w) /\ Fail(r) /\ UNCHANGED chain

\* publish-records
Go(r) ==
    LET w == Publish(key[r]) IN
    /\ pc[r] = "publish"
    /\ \/ /\ Answered(w)
          /\ IF op[r] = "rotate" THEN Retire(r, chain, stored[r])
                                 ELSE Answer(r, FALSE) /\ UNCHANGED chain
       \/ Lost(w) /\ Fail(r) /\ UNCHANGED chain

----------------------------------------------------------------------------
(* resolveKey and update-record, first in the chain of their key *)

\* The record is read; a draft is not found.
Read(r, k, place) ==
    /\ k \in Live
    /\ seen' = [seen EXCEPT ![r] = [status |-> status[k], doc |-> doc[k]]]
    /\ Move(r, place, stored[r])
    /\ UNCHANGED <<registry, late, chain>>

\* setKeyDocument, begun; an error is logged and the rotation goes on.
Attach(r) ==
    /\ pc[r] = "attach" /\ First(r, key[r])
    /\ \/ Read(r, key[r], "attaching")
       \/ Retire(r, Unchained(chain, r, key[r]), FALSE) /\ UNCHANGED <<registry, late>>

AttachWrite(r) ==
    LET w    == Update(key[r], seen[r].status, built[r])
        left == Unchained(chain, r, key[r])
    IN
    /\ pc[r] = "attaching"
    /\ \/ Answered(w) /\ Retire(r, left, TRUE)
       \/ Lost(w) /\ Retire(r, left, FALSE)

Wanted(r) == IF op[r] = "revoke" THEN "revoked" ELSE "rotated"

StatusDone(r) == Answer(r, stored[r]) /\ chain' = Unchained(chain, r, prev[r])

StatusThrows(r) == Fail(r) /\ chain' = Unchained(chain, r, prev[r])

\* (fault) only the same status is a no-op
AdvancesBlindly(from, to) == to # from

Advances(from, to) == KEY_STATUS_RANK[to] > KEY_STATUS_RANK[from]

\* setKeyStatus, begun: a status already reached or passed is left alone.
ReadStatus(r) ==
    /\ pc[r] = "status" /\ First(r, prev[r])
    /\ \/ Advances(status[prev[r]], Wanted(r)) /\ Read(r, prev[r], "changing")
       \/ /\ prev[r] \in Live /\ ~Advances(status[prev[r]], Wanted(r))
          /\ StatusDone(r)
          /\ UNCHANGED <<registry, late>>
       \/ StatusThrows(r) /\ UNCHANGED <<registry, late>>

\* The blind overwrite.
WriteStatus(r) ==
    LET w == Update(prev[r], Wanted(r), seen[r].doc) IN
    /\ pc[r] = "changing"
    /\ \/ Answered(w) /\ StatusDone(r)
       \/ Lost(w) /\ StatusThrows(r)

----------------------------------------------------------------------------
Step(r) ==
    \/ Save(r) \/ Go(r) \/ Attach(r) \/ AttachWrite(r)
    \/ ReadStatus(r) \/ WriteStatus(r)

Next ==
    \/ \E r \in Requests :
         \/ \E k \in Keys, hosting \in BOOLEAN : PublishKey(r, k, hosting)
         \/ \E n \in Keys, p \in Keys \cup {NoKey}, current \in Provided \cup {Projection}, hosting \in BOOLEAN :
               Rotate(r, n, p, current, hosting)
         \/ \E k \in Keys : Revoke(r, k)
         \/ Step(r)
    \/ LateWrite

Spec == Init /\ [][Next]_vars

----------------------------------------------------------------------------
(* checkKeyStatus: what a verifier that reaches DeDi says of a credential  *)
(* signed with the key.                                                    *)
KeyCheck(k) == IF at[k] = "live" /\ status[k] = "revoked" THEN "REVOKED" ELSE "passed"

(* No update of the record has lost its answer: one that is carried out    *)
(* later can undo anything.                                                *)
Untroubled(k) == \A w \in late : w.kind = "update" => w.key # k

(* Whatever requests of one server read and write a record at the same     *)
(* time, no status goes back, no published record disappears, and a        *)
(* document that was attached is not dropped by a write that had read the  *)
(* record before.                                                          *)
NothingLost ==
    [][\A k \in Live : Untroubled(k) =>
          /\ at'[k] = "live"
          /\ KEY_STATUS_RANK[status'[k]] >= KEY_STATUS_RANK[status[k]]
          /\ doc[k] # NoDoc => doc'[k] # NoDoc]_registry

(* Once a revocation was answered, verifiers reject what the key signed,   *)
(* for good.                                                               *)
RevokedRejected == \A k \in revoked : Untroubled(k) => KeyCheck(k) = "REVOKED"

(* A rotation that reports its document as stored has it on a record that  *)
(* lookups find, also when the record was there before, as a draft or      *)
(* without document.                                                       *)
StoredIsServed ==
    \A k \in served : Untroubled(k) => at[k] = "live" /\ k \in doc[k].usable

(* Whoever is first in the chain of a key is at work on that key: a write  *)
(* that fails holds nobody up.                                             *)
ChainAlive ==
    \A s \in Servers, k \in Keys : chain[<<s, k>>] # <<>> =>
        LET r == Head(chain[<<s, k>>]) IN
        /\ Host[r] = s
        /\ \/ pc[r] \in {"attach", "attaching"} /\ key[r] = k
           \/ pc[r] \in {"status", "changing"} /\ prev[r] = k
=============================================================================
