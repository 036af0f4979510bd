---------------------------- MODULE Revocation ----------------------------
(***************************************************************************)
(* Revoking one credential through the server: POST /credentials/revoke,   *)
(* the background driver it falls back to, and the two-step publish        *)
(* (save-record-as-draft, then publish-records) both go through.           *)
(*                                                                         *)
(* DeDi is external.  A write is answered, refused, or its answer is lost: *)
(* then it has been carried out, will be later, or never is.  Writes that  *)
(* may still be carried out wait in `late`, as a set of kinds, for two     *)
(* writes of one kind have the effect of one.                              *)
(*                                                                         *)
(* All requests name one hash.  A request's namespace is its spelling of   *)
(* one and the same registry ("" and the default namespace's own name).    *)
(***************************************************************************)
EXTENDS Naturals

CONSTANTS
    Posts,        \* revoke requests
    Spellings,    \* namespace values that resolve to the same namespace
    MaxRetries,   \* maxRetries of publishRevocationHash: 1
    MaxAttempts,  \* attempts of a driver: 12 in the code
    MaxCrashes    \* bound: restarts of the server

ASSUME CallersAssumption == Posts \cap Spellings = {}
ASSUME BoundsAssumption  == /\ MaxRetries \in Nat /\ MaxCrashes \in Nat
                            /\ MaxAttempts \in Nat \ {0}

Callers == Posts \cup Spellings  \* a driver is named by the spelling in its key

VARIABLES
    record,    \* the record at DeDi
    late,      \* kinds of writes that may still be carried out
    slow,      \* DeDi may still lose answers
    at,        \* per caller: the call it is about to make
    tries,     \* per caller: failed tries of withRetry
    attempt,   \* per driver: its attempt
    answer,    \* per request: the HTTP status
    inFlight,  \* keys of the drivers' guard set
    polled,    \* what the last status poll said, since DeDi or the server came back
    crashes

dedi == <<record, late, slow>>
vars == <<dedi, at, tries, attempt, answer, inFlight, polled, crashes>>

Kinds   == {"draft", "publish"}
Places  == {"new", "check", "save", "publish", "lookup", "heal", "sleep", "off"}
Results == {"published", "exists", "timeout", "down", "refused"}
Unanswered == 0
Lost       == 1  \* the server went down with the request open
Answers    == {Unanswered, Lost, 200, 202, 409, 502}

TypeOK ==
    /\ record \in {"absent", "draft", "live"}
    /\ late \subseteq Kinds
    /\ slow \in BOOLEAN
    /\ at \in [Callers -> Places]
    /\ tries \in [Callers -> 0..MaxRetries]
    /\ attempt \in [Spellings -> 0..MaxAttempts]
    /\ answer \in [Posts -> Answers]
    /\ inFlight \subseteq Spellings
    /\ polled \in {"never", "pending", "revoked"}
    /\ crashes \in 0..MaxCrashes

Init ==
    /\ record = "absent"
    /\ late = {}
    /\ slow = TRUE
    /\ at = [c \in Callers |-> IF c \in Posts THEN "new" ELSE "off"]
    /\ tries = [c \in Callers |-> 0]
    /\ attempt = [s \in Spellings |-> 0]
    /\ answer = [p \in Posts |-> Unanswered]
    /\ inFlight = {}
    /\ polled = "never"
    /\ crashes = 0

----------------------------------------------------------------------------
(* DeDi *)

\* The record after a write of this kind.
After(kind) == CASE kind = "draft"   -> IF record = "absent" THEN "draft" ELSE record
                 [] kind = "publish" -> IF record = "draft" THEN "live" ELSE record

\* What a write is answered.
Reply(kind) == IF kind = "draft" /\ record # "absent" THEN "duplicate" ELSE "done"

\* One request of a write: its reply, and what becomes of the record.
Write(kind, reply) ==
    /\ \/ reply = Reply(kind) /\ record' = After(kind) /\ UNCHANGED late
       \/ slow /\ reply \in {"timeout", "down"}
          /\ \/ record' = After(kind) /\ UNCHANGED late
             \/ late' = late \cup {kind} /\ UNCHANGED record
             \/ UNCHANGED <<record, late>>
       \/ slow /\ reply = "refused" /\ UNCHANGED <<record, late>>
    /\ UNCHANGED slow

\* A write whose caller has given up on it is carried out.
LateWrite ==
    /\ \E kind \in late :
          /\ record' = After(kind)
          /\ late' \in {late, late \ {kind}}
    /\ UNCHANGED <<slow, at, tries, attempt, answer, inFlight, polled, crashes>>

\* From now on every answer arrives.
Recover ==
    /\ slow
    /\ slow' = FALSE
    /\ polled' = "never"
    /\ UNCHANGED <<record, late, at, tries, attempt, answer, inFlight, crashes>>

----------------------------------------------------------------------------
(* Where a call of publishRevocationHash leaves its caller *)

Go(c, place) ==
    /\ at' = [at EXCEPT ![c] = place]
    /\ UNCHANGED <<attempt, answer, inFlight>>

\* driveRevocationToLive(s), the caller p going on to `off`.
DriveFor(p, s) ==
    IF s \in inFlight
    THEN at' = [at EXCEPT ![p] = "off"] /\ UNCHANGED <<attempt, inFlight>>
    ELSE /\ inFlight' = inFlight \cup {s}
         /\ at' = [at EXCEPT ![p] = "off", ![s] = "check"]
         /\ attempt' = [attempt EXCEPT ![s] = 1]

Status(result) ==
    CASE result = "published" -> 200
      [] result = "exists"    -> 409
      [] result = "timeout"   -> 202
      [] OTHER                -> 502  \* the error handler's status

\* The route: a timeout is accepted and driven in the background, under the
\* namespace as this request spells it.
Respond(p, result) ==
    /\ answer' = [answer EXCEPT ![p] = Status(result)]
    /\ IF result = "timeout" THEN \E s \in Spellings : DriveFor(p, s)
       ELSE at' = [at EXCEPT ![p] = "off"] /\ UNCHANGED <<attempt, inFlight>>

\* (fault) the key outlives the driver
ReturnKeepsKey(s) == Go(s, "off")

\* The driver's loop ends, and its finally.
Return(s) ==
    /\ at' = [at EXCEPT ![s] = "off"]
    /\ inFlight' = inFlight \ {s}
    /\ UNCHANGED <<attempt, answer>>

\* The rest of an attempt: a record found LIVE ends the loop, all else sleeps.
EndAttempt(s, result) ==
    IF result = "exists" \/ attempt[s] = MaxAttempts THEN Return(s) ELSE Go(s, "sleep")

Settle(c, result) ==
    /\ tries' = [tries EXCEPT ![c] = 0]
    /\ IF c \in Posts THEN Respond(c, result) ELSE EndAttempt(c, result)

\* withRetry around the two steps: transient failures run both again.
Retry(c, reply) ==
    IF reply \in {"timeout", "down"} /\ tries[c] < MaxRetries
    THEN Go(c, "save") /\ tries' = [tries EXCEPT ![c] = @ + 1]
    ELSE Settle(c, reply)

----------------------------------------------------------------------------
(* publishRevocationHash *)

\* (fault) a record that exists is taken for a revocation
TrustDuplicate(c) == Settle(c, "exists")

\* A duplicate may be a stranded draft: look it up.
OnDuplicate(c) == Go(c, "lookup") /\ UNCHANGED tries

\* publishRecord, first step.
SaveDraft(c) ==
    /\ at[c] = "save"
    /\ \E reply \in {"done", "duplicate", "timeout", "down", "refused"} :
          /\ Write("draft", reply)
          /\ CASE reply = "done"      -> Go(c, "publish") /\ UNCHANGED tries
               [] reply = "duplicate" -> OnDuplicate(c)
               [] OTHER               -> Retry(c, reply)
    /\ UNCHANGED <<polled, crashes>>

\* publishRecord, second step.
PublishDraft(c) ==
    /\ at[c] = "publish"
    /\ \E reply \in {"done", "timeout", "down", "refused"} :
          /\ Write("publish", reply)
          /\ IF reply = "done" THEN Settle(c, "published") ELSE Retry(c, reply)
    /\ UNCHANGED <<polled, crashes>>

\* The record exists: is it LIVE?  A failed lookup fails the whole call.
Lookup(c) ==
    /\ at[c] = "lookup"
    /\ \/ IF record = "live" THEN Settle(c, "exists") ELSE Go(c, "heal") /\ UNCHANGED tries
       \/ slow /\ \E reply \in {"timeout", "down", "refused"} : Settle(c, reply)
    /\ UNCHANGED <<dedi, polled, crashes>>

\* A stranded draft is published, outside of withRetry.
Heal(c) ==
    /\ at[c] = "heal"
    /\ \E reply \in {"done", "timeout", "down", "refused"} :
          /\ Write("publish", reply)
          /\ Settle(c, IF reply = "done" THEN "published" ELSE reply)
    /\ UNCHANGED <<polled, crashes>>

PublishRevocation(c) == SaveDraft(c) \/ PublishDraft(c) \/ Lookup(c) \/ Heal(c)

----------------------------------------------------------------------------
(* The route and the driver *)

Post(p) ==
    /\ at[p] = "new"
    /\ Go(p, "save")
    /\ UNCHANGED <<dedi, tries, polled, crashes>>

\* The lookup at the top of an attempt; when it fails the attempt goes on.
Check(s) ==
    /\ at[s] = "check"
    /\ \/ IF record = "live" THEN Return(s) ELSE Go(s, "save")
       \/ slow /\ Go(s, "save")
    /\ UNCHANGED <<dedi, tries, polled, crashes>>

\* The delay between attempts is over.
WakeUp(s) ==
    /\ at[s] = "sleep"
    /\ at' = [at EXCEPT ![s] = "check"]
    /\ attempt' = [attempt EXCEPT ![s] = @ + 1]
    /\ UNCHANGED <<dedi, tries, answer, inFlight, polled, crashes>>

\* POST /credentials/revocation-status looks the record up, and that is all.
Poll ==
    /\ polled' = IF record = "live" THEN "revoked" ELSE "pending"
    /\ UNCHANGED <<dedi, at, tries, attempt, answer, inFlight, crashes>>

\* The process dies and is started again: drivers and open requests are gone.
Crash ==
    /\ crashes < MaxCrashes
    /\ crashes' = crashes + 1
    /\ at' = [c \in Callers |-> IF at[c] = "new" THEN "new" ELSE "off"]
    /\ answer' = [p \in Posts |-> IF at[p] \in {"new", "off"} THEN answer[p] ELSE Lost]
    /\ tries' = [c \in Callers |-> 0]
    /\ attempt' = [s \in Spellings |-> 0]
    /\ inFlight' = {}
    /\ polled' = "never"
    /\ UNCHANGED dedi

Drive(s) == Check(s) \/ WakeUp(s) \/ PublishRevocation(s)
Handle(p) == Post(p) \/ PublishRevocation(p)

Next == \/ \E p \in Posts : Handle(p)
        \/ \E s \in Spellings : Drive(s)
        \/ LateWrite \/ Recover \/ Poll \/ Crash

\* Every call of the client is bounded by its timeout, so callers go on.
Spec == /\ Init /\ [][Next]_vars
        /\ \A p \in Posts : WF_vars(PublishRevocation(p))
        /\ \A s \in Spellings : WF_vars(Drive(s))

----------------------------------------------------------------------------
(* Properties *)

Working(c) == at[c] \notin {"new", "off"}

\* 200 (published now) and 409 (published before) are only answered for a
\* credential verifiers see revoked: a draft is never taken for a revocation,
\* whichever writes were lost, late or another caller's.
AnswersTrue ==
    \A p \in Posts : answer[p] \in {200, 409} => record = "live"

\* A key is in the guard set exactly while its driver runs: none is left behind
\* to make later requests no-ops, and no driver runs unguarded.
InFlightIsDriven ==
    \A s \in Spellings : s \in inFlight <=> Working(s)

\* Once DeDi's answers arrive, whatever caller is at work publishes the
\* revocation, whatever record earlier failures have left; only a restart of
\* the server interrupts it.
SelfHeals ==
    \A c \in Callers, n \in 0..MaxCrashes :
        (Working(c) /\ ~slow /\ crashes = n) ~> (record = "live" \/ crashes > n)

=============================================================================
