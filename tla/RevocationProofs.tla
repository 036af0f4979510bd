------------------------- MODULE RevocationProofs -------------------------
(***************************************************************************)
(* For any number of requests, spellings, retries, attempts and restarts:  *)
(* what the server answers about a revocation is true, and the guard set   *)
(* names exactly the drivers that run.                                     *)
(*                                                                         *)
(* And of the DeDi client's calls, for any number of callers, failures and *)
(* retries: the breaker's state is what its counter says, which is the     *)
(* number of failures since the last success; no call sends more than its  *)
(* attempts; and an acquisition that fails leaves the session it was to    *)
(* replace.                                                                *)
(***************************************************************************)
EXTENDS Revocation, DediCalls, TLAPS

\* A caller that is about to publish or to look up has seen the record exist.
Drafted ==
    \A c \in Callers : at[c] \in {"publish", "lookup", "heal"} => record # "absent"

\* Drivers start at their first lookup, and one that sleeps has an attempt left.
DriversPaced ==
    \A s \in Spellings : at[s] # "new" /\ (at[s] = "sleep" => attempt[s] < MaxAttempts)

IInv == TypeOK /\ AnswersTrue /\ InFlightIsDriven /\ Drafted /\ DriversPaced

\* What a write does to the record, whatever becomes of its answer.
LEMMA WriteEffect ==
    ASSUME TypeOK, NEW kind \in Kinds, NEW reply, Write(kind, reply)
    PROVE  /\ record' \in {"absent", "draft", "live"}
           /\ late' \subseteq Kinds
           /\ slow' \in BOOLEAN
           /\ record = "live" => record' = "live"
           /\ record # "absent" => record' # "absent"
           /\ kind = "draft" /\ reply \in {"done", "duplicate"} => record' # "absent"
           /\ kind = "publish" /\ reply = "done" /\ record # "absent" => record' = "live"
  BY DEF TypeOK, Write, After, Reply, Kinds

\* The part of the invariant that the end of a call can disturb.
CallerInv ==
    /\ at \in [Callers -> Places]
    /\ tries \in [Callers -> 0..MaxRetries]
    /\ attempt \in [Spellings -> 0..MaxAttempts]
    /\ answer \in [Posts -> Answers]
    /\ inFlight \subseteq Spellings
    /\ InFlightIsDriven
    /\ DriversPaced

\* A caller at work that moves on to another call.
LEMMA GoKeeps ==
    ASSUME CallerInv, NEW c \in Callers, Working(c),
           NEW place \in Places \ {"new", "off", "sleep"},
           Go(c, place), tries' \in [Callers -> 0..MaxRetries]
    PROVE  CallerInv' /\ answer' = answer
  BY BoundsAssumption DEF CallerInv, Go, Working, InFlightIsDriven, DriversPaced, Callers

\* A driver whose attempt is over ends or sleeps.
LEMMA EndAttemptKeeps ==
    ASSUME CallerInv, NEW s \in Spellings, Working(s), NEW result,
           EndAttempt(s, result), tries' \in [Callers -> 0..MaxRetries]
    PROVE  /\ CallerInv' /\ answer' = answer
           /\ \A d \in Callers : at'[d] = at[d] \/ at'[d] \in {"sleep", "off"}
  <1>1. CASE Return(s)
    BY <1>1, CallersAssumption DEF CallerInv, Return, Working, InFlightIsDriven, DriversPaced,
       Callers, Places
  <1>2. CASE Go(s, "sleep") /\ attempt[s] # MaxAttempts
    <2>1. attempt[s] \in 0..MaxAttempts /\ attempt[s] < MaxAttempts
      BY <1>2, BoundsAssumption DEF CallerInv
    <2> QED BY <1>2, <2>1, CallersAssumption
            DEF CallerInv, Go, Working, InFlightIsDriven, DriversPaced, Callers, Places
  <1> QED BY <1>1, <1>2 DEF EndAttempt

\* A request that is answered starts at most one driver, and an idle one.
LEMMA RespondKeeps ==
    ASSUME CallerInv, NEW p \in Posts, Working(p), NEW result,
           Respond(p, result), tries' \in [Callers -> 0..MaxRetries]
    PROVE  /\ CallerInv'
           /\ answer' = [answer EXCEPT ![p] = Status(result)]
           /\ \A d \in Callers : at'[d] = at[d] \/ at'[d] \in {"check", "off"}
  <1>1. p \notin Spellings /\ p \in Callers /\ 1 \in 0..MaxAttempts
    BY CallersAssumption, BoundsAssumption DEF Callers
  <1>2. answer' \in [Posts -> Answers] /\ answer' = [answer EXCEPT ![p] = Status(result)]
    BY DEF Respond, CallerInv, Status, Answers
  <1>3. ASSUME NEW s \in Spellings, s \notin inFlight, DriveFor(p, s)
        PROVE  /\ CallerInv'
               /\ \A d \in Callers : at'[d] = at[d] \/ at'[d] \in {"check", "off"}
    <2>1. /\ inFlight' = inFlight \cup {s}
          /\ at' = [at EXCEPT ![p] = "off", ![s] = "check"]
          /\ attempt' = [attempt EXCEPT ![s] = 1]
          /\ s # p /\ s \in Callers
      BY <1>1, <1>3 DEF DriveFor, Callers
    <2> QED BY <1>1, <1>2, <2>1 DEF CallerInv, Working, InFlightIsDriven, DriversPaced,
           Callers, Places
  <1>4. CASE at' = [at EXCEPT ![p] = "off"] /\ UNCHANGED <<attempt, inFlight>>
    BY <1>1, <1>2, <1>4 DEF CallerInv, Working, InFlightIsDriven, DriversPaced, Callers, Places
  <1> QED BY <1>2, <1>3, <1>4 DEF Respond, DriveFor

\* The end of a call of publishRevocationHash, for either kind of caller.
LEMMA SettleKeeps ==
    ASSUME CallerInv, AnswersTrue, NEW c \in Callers, Working(c), NEW result \in Results,
           Settle(c, result),
           result \in {"published", "exists"} => record' = "live",
           record = "live" => record' = "live"
    PROVE  /\ CallerInv' /\ AnswersTrue'
           /\ \A d \in Callers : at'[d] = at[d] \/ at'[d] \in {"check", "sleep", "off"}
  <1>1. tries' \in [Callers -> 0..MaxRetries]
    BY BoundsAssumption DEF Settle, CallerInv
  <1>2. CASE c \in Posts
    <2>1. Respond(c, result)
      BY <1>2 DEF Settle
    <2>2. /\ CallerInv'
          /\ answer' = [answer EXCEPT ![c] = Status(result)]
          /\ \A d \in Callers : at'[d] = at[d] \/ at'[d] \in {"check", "off"}
      BY <1>1, <1>2, <2>1, RespondKeeps
    <2>3. AnswersTrue'
      BY <1>2, <2>2 DEF AnswersTrue, Status, CallerInv, Results
    <2> QED BY <2>2, <2>3
  <1>3. CASE c \notin Posts
    <2>1. c \in Spellings /\ EndAttempt(c, result)
      BY <1>3 DEF Settle, Callers
    <2>2. /\ CallerInv' /\ answer' = answer
          /\ \A d \in Callers : at'[d] = at[d] \/ at'[d] \in {"sleep", "off"}
      BY <1>1, <2>1, EndAttemptKeeps
    <2>3. AnswersTrue'
      BY <2>2 DEF AnswersTrue
    <2> QED BY <2>2, <2>3
  <1> QED BY <1>2, <1>3

\* A failed call of the two steps is tried again, or is the end.
LEMMA RetryKeeps ==
    ASSUME CallerInv, AnswersTrue, NEW c \in Callers, Working(c),
           NEW reply \in {"timeout", "down", "refused"},
           Retry(c, reply),
           record = "live" => record' = "live"
    PROVE  /\ CallerInv' /\ AnswersTrue'
           /\ \A d \in Callers : at'[d] = at[d] \/ at'[d] \in {"save", "check", "sleep", "off"}
  <1>1. CASE Settle(c, reply)
    BY <1>1, SettleKeeps DEF Results
  <1>2. CASE ~Settle(c, reply)
    <2>1. Go(c, "save") /\ tries' = [tries EXCEPT ![c] = @ + 1] /\ tries[c] < MaxRetries
      BY <1>2 DEF Retry
    <2>2. tries' \in [Callers -> 0..MaxRetries]
      BY <2>1, BoundsAssumption DEF CallerInv
    <2>3. CallerInv' /\ answer' = answer
      BY <2>1, <2>2, GoKeeps DEF Places
    <2>4. \A d \in Callers : at'[d] = at[d] \/ at'[d] = "save"
      BY <2>1 DEF Go, CallerInv
    <2>5. AnswersTrue'
      BY <2>3 DEF AnswersTrue
    <2> QED BY <2>3, <2>4, <2>5
  <1> QED BY <1>1, <1>2

\* The invariant, sorted by what a step can disturb.
LEMMA InvSplit == IInv <=> /\ CallerInv /\ AnswersTrue /\ Drafted
                           /\ record \in {"absent", "draft", "live"} /\ late \subseteq Kinds
                           /\ slow \in BOOLEAN /\ polled \in {"never", "pending", "revoked"}
                           /\ crashes \in 0..MaxCrashes
  BY DEF IInv, TypeOK, CallerInv

----------------------------------------------------------------------------
(* The steps *)

\* The invariant after a step that ends no caller's claim on the record.
LEMMA StepInv ==
    ASSUME IInv, CallerInv', AnswersTrue', Drafted',
           record' \in {"absent", "draft", "live"}, late' \subseteq Kinds,
           slow' \in BOOLEAN, polled' = polled, crashes' = crashes
    PROVE  IInv'
  BY InvSplit DEF IInv, TypeOK, CallerInv

\* No caller but those that come to rest or begin again leaves the record's
\* existence in doubt.
LEMMA DraftedKept ==
    ASSUME CallerInv', Drafted, record # "absent" => record' # "absent",
           \A d \in Callers : at'[d] = at[d] \/ at'[d] \in {"save", "check", "sleep", "off"}
    PROVE  Drafted'
  BY DEF Drafted

LEMMA PublishRevocationInv ==
    ASSUME IInv, NEW c \in Callers, PublishRevocation(c)
    PROVE  IInv'
  <1>0. CallerInv /\ AnswersTrue /\ Drafted /\ TypeOK
    BY InvSplit DEF IInv
  <1>1. CASE SaveDraft(c)
    <2>1. PICK reply \in {"done", "duplicate", "timeout", "down", "refused"} :
             /\ Write("draft", reply)
             /\ CASE reply = "done"      -> Go(c, "publish") /\ UNCHANGED tries
                  [] reply = "duplicate" -> OnDuplicate(c)
                  [] OTHER               -> Retry(c, reply)
      BY <1>1 DEF SaveDraft
    <2>2. /\ record' \in {"absent", "draft", "live"} /\ late' \subseteq Kinds /\ slow' \in BOOLEAN
          /\ record = "live" => record' = "live"
          /\ record # "absent" => record' # "absent"
          /\ reply \in {"done", "duplicate"} => record' # "absent"
      BY <1>0, <2>1, WriteEffect DEF Kinds
    <2>3. Working(c) /\ at[c] = "save" /\ polled' = polled /\ crashes' = crashes
      BY <1>1 DEF SaveDraft, Working
    <2>4. CASE reply \in {"done", "duplicate"}
      <3>1. PICK place \in {"publish", "lookup"} : Go(c, place) /\ UNCHANGED tries
        BY <2>1, <2>4 DEF OnDuplicate
      <3>2. tries' \in [Callers -> 0..MaxRetries]
        BY <1>0, <3>1 DEF CallerInv
      <3>3. CallerInv' /\ answer' = answer
        BY <1>0, <2>3, <3>1, <3>2, GoKeeps DEF Places
      <3>4. AnswersTrue'
        BY <1>0, <2>2, <3>3 DEF AnswersTrue
      <3>5. Drafted'
        BY <2>2, <2>4 DEF Drafted
      <3> QED BY <2>2, <2>3, <3>3, <3>4, <3>5, StepInv
    <2>5. CASE reply \notin {"done", "duplicate"}
      <3>1. Retry(c, reply) /\ reply \in {"timeout", "down", "refused"}
        BY <2>1, <2>5
      <3>2. /\ CallerInv' /\ AnswersTrue'
            /\ \A d \in Callers : at'[d] = at[d] \/ at'[d] \in {"save", "check", "sleep", "off"}
        BY <1>0, <2>2, <2>3, <3>1, RetryKeeps
      <3>3. Drafted'
        BY <1>0, <2>2, <3>2, DraftedKept
      <3> QED BY <2>2, <2>3, <3>2, <3>3, StepInv
    <2> QED BY <2>4, <2>5
  <1>2. CASE PublishDraft(c) \/ Heal(c)
    <2>1. PICK reply \in {"done", "timeout", "down", "refused"} :
             /\ Write("publish", reply)
             /\ \/ reply = "done" /\ Settle(c, "published")
                \/ reply # "done" /\ (Settle(c, reply) \/ Retry(c, reply))
      BY <1>2 DEF PublishDraft, Heal
    <2>2. Working(c) /\ at[c] \in {"publish", "heal"} /\ polled' = polled /\ crashes' = crashes
      BY <1>2 DEF PublishDraft, Heal, Working
    <2>3. record # "absent"
      BY <1>0, <2>2 DEF Drafted
    <2>4. /\ record' \in {"absent", "draft", "live"} /\ late' \subseteq Kinds /\ slow' \in BOOLEAN
          /\ record = "live" => record' = "live"
          /\ record' # "absent"
          /\ reply = "done" => record' = "live"
      BY <1>0, <2>1, <2>3, WriteEffect DEF Kinds
    <2>5. /\ CallerInv' /\ AnswersTrue'
          /\ \A d \in Callers : at'[d] = at[d] \/ at'[d] \in {"save", "check", "sleep", "off"}
      <3>1. CASE reply = "done"
        BY <1>0, <2>1, <2>2, <2>4, <3>1, SettleKeeps DEF Results
      <3>2. CASE reply # "done" /\ Settle(c, reply)
        BY <1>0, <2>2, <2>4, <3>2, SettleKeeps DEF Results
      <3>3. CASE reply # "done" /\ Retry(c, reply)
        BY <1>0, <2>2, <2>4, <3>3, RetryKeeps
      <3> QED BY <2>1, <3>1, <3>2, <3>3
    <2>6. Drafted'
      BY <2>4 DEF Drafted
    <2> QED BY <2>2, <2>4, <2>5, <2>6, StepInv
  <1>3. CASE Lookup(c)
    <2>1. Working(c) /\ at[c] = "lookup" /\ record # "absent" /\ UNCHANGED <<dedi, polled, crashes>>
      BY <1>0, <1>3 DEF Lookup, Working, Drafted
    <2>2. record' = record /\ late' = late /\ slow' = slow
      BY <2>1 DEF dedi
    <2>3. Drafted'
      BY <2>1, <2>2 DEF Drafted
    <2>4. CallerInv' /\ AnswersTrue'
      <3>1. CASE Go(c, "heal") /\ UNCHANGED tries
        <4>1. tries' \in [Callers -> 0..MaxRetries]
          BY <1>0, <3>1 DEF CallerInv
        <4>2. CallerInv' /\ answer' = answer
          BY <1>0, <2>1, <3>1, <4>1, GoKeeps DEF Places
        <4> QED BY <1>0, <2>2, <4>2 DEF AnswersTrue
      <3>2. CASE record = "live" /\ Settle(c, "exists")
        BY <1>0, <2>1, <2>2, <3>2, SettleKeeps DEF Results
      <3>3. CASE \E reply \in {"timeout", "down", "refused"} : Settle(c, reply)
        BY <1>0, <2>1, <2>2, <3>3, SettleKeeps DEF Results
      <3> QED BY <1>3, <3>1, <3>2, <3>3 DEF Lookup
    <2> QED BY <1>0, <2>1, <2>2, <2>3, <2>4, StepInv DEF TypeOK
  <1> QED BY <1>1, <1>2, <1>3 DEF PublishRevocation

LEMMA DriveInv ==
    ASSUME IInv, NEW s \in Spellings, Check(s) \/ WakeUp(s)
    PROVE  IInv'
  <1>0. CallerInv /\ AnswersTrue /\ Drafted /\ TypeOK /\ s \in Callers /\ s \notin Posts
    BY InvSplit, CallersAssumption DEF IInv, Callers
  <1>1. /\ Working(s) /\ UNCHANGED <<record, late, slow, tries, answer, polled, crashes>>
        /\ at' = [at EXCEPT ![s] = at'[s]] /\ at'[s] \in {"check", "save", "off"}
    BY <1>0 DEF Check, WakeUp, Go, Return, Working, dedi, CallerInv
  <1>2. Drafted' /\ AnswersTrue'
    BY <1>0, <1>1 DEF Drafted, AnswersTrue, CallerInv
  <1>3. CallerInv'
    <2>1. CASE Check(s)
      <3>1. CASE Return(s)
        BY <1>0, <1>1, <3>1, CallersAssumption
           DEF CallerInv, Return, Working, InFlightIsDriven, DriversPaced, Callers, Places
      <3>2. CASE Go(s, "save")
        BY <1>0, <1>1, <3>2, GoKeeps DEF CallerInv, Places
      <3> QED BY <2>1, <3>1, <3>2 DEF Check
    <2>2. CASE WakeUp(s)
      <3>1. /\ at[s] = "sleep" /\ attempt' = [attempt EXCEPT ![s] = @ + 1] /\ inFlight' = inFlight
            /\ at' = [at EXCEPT ![s] = "check"]
        BY <2>2 DEF WakeUp
      <3>2. attempt[s] \in 0..MaxAttempts /\ attempt[s] < MaxAttempts
        BY <1>0, <3>1 DEF CallerInv, DriversPaced
      <3>3. attempt' \in [Spellings -> 0..MaxAttempts]
        BY <1>0, <3>1, <3>2, BoundsAssumption DEF CallerInv
      <3>4. InFlightIsDriven' /\ DriversPaced' /\ at' \in [Callers -> Places]
        BY <1>0, <3>1, CallersAssumption
           DEF CallerInv, Working, InFlightIsDriven, DriversPaced, Callers, Places
      <3> QED BY <1>0, <1>1, <3>1, <3>3, <3>4 DEF CallerInv
    <2> QED BY <2>1, <2>2
  <1> QED BY <1>0, <1>1, <1>2, <1>3, StepInv DEF TypeOK

LEMMA OtherInv ==
    ASSUME IInv,
           (\E p \in Posts : Post(p)) \/ LateWrite \/ Recover \/ Poll \/ Crash \/ UNCHANGED vars
    PROVE  IInv'
  <1>0. CallerInv /\ AnswersTrue /\ Drafted /\ TypeOK
    BY InvSplit DEF IInv
  <1>1. ASSUME NEW p \in Posts, Post(p) PROVE IInv'
    <2>1. /\ at' = [at EXCEPT ![p] = "save"] /\ p \in Callers /\ p \notin Spellings
          /\ UNCHANGED <<record, late, slow, tries, attempt, answer, inFlight, polled, crashes>>
      BY <1>1, CallersAssumption DEF Post, Go, dedi, Callers
    <2>2. CallerInv'
      BY <1>0, <2>1, CallersAssumption DEF CallerInv, InFlightIsDriven, DriversPaced, Working,
         Callers, Places
    <2>3. Drafted' /\ AnswersTrue'
      BY <1>0, <2>1 DEF Drafted, AnswersTrue, CallerInv
    <2> QED BY <1>0, <2>1, <2>2, <2>3, StepInv DEF TypeOK
  <1>2. CASE LateWrite
    <2>1. PICK kind \in late : record' = After(kind) /\ late' \in {late, late \ {kind}}
      BY <1>2 DEF LateWrite
    <2>2. kind \in {"draft", "publish"}
      BY <1>0, <2>1 DEF TypeOK, Kinds
    <2>3. /\ record' \in {"absent", "draft", "live"}
          /\ record = "live" => record' = "live"
          /\ record # "absent" => record' # "absent"
      BY <1>0, <2>1, <2>2 DEF After, TypeOK
    <2>4. late' \subseteq Kinds /\ UNCHANGED <<slow, at, tries, attempt, answer, inFlight, polled, crashes>>
      BY <1>0, <1>2, <2>1 DEF LateWrite, TypeOK
    <2>5. CallerInv' /\ Drafted' /\ AnswersTrue'
      BY <1>0, <2>3, <2>4 DEF CallerInv, InFlightIsDriven, DriversPaced, Working, Drafted,
         AnswersTrue
    <2> QED BY <1>0, <2>3, <2>4, <2>5, StepInv DEF TypeOK
  <1>3. CASE Recover \/ Poll \/ UNCHANGED vars
    <2>1. /\ UNCHANGED <<record, late, at, tries, attempt, answer, inFlight, crashes>>
          /\ slow' \in BOOLEAN /\ polled' \in {"never", "pending", "revoked"}
      BY <1>0, <1>3 DEF Recover, Poll, vars, dedi, TypeOK
    <2> QED BY <1>0, <2>1 DEF IInv, TypeOK, CallerInv, InFlightIsDriven, DriversPaced, Working,
           Drafted, AnswersTrue
  <1>4. CASE Crash
    <2>1. /\ crashes' \in 0..MaxCrashes
          /\ at' = [c \in Callers |-> IF at[c] = "new" THEN "new" ELSE "off"]
          /\ answer' = [p \in Posts |-> IF at[p] \in {"new", "off"} THEN answer[p] ELSE Lost]
          /\ tries' = [c \in Callers |-> 0]
          /\ attempt' = [s \in Spellings |-> 0]
          /\ inFlight' = {} /\ polled' = "never"
          /\ UNCHANGED <<record, late, slow>>
      BY <1>0, <1>4, BoundsAssumption DEF Crash, dedi, TypeOK
    <2>2. at' \in [Callers -> Places] /\ tries' \in [Callers -> 0..MaxRetries]
          /\ attempt' \in [Spellings -> 0..MaxAttempts] /\ answer' \in [Posts -> Answers]
      BY <1>0, <2>1, BoundsAssumption DEF CallerInv, Places, Answers, Lost
    <2>3. InFlightIsDriven' /\ DriversPaced'
      BY <1>0, <2>1 DEF CallerInv, InFlightIsDriven, DriversPaced, Working, Callers
    <2>4. Drafted' /\ AnswersTrue'
      BY <1>0, <2>1 DEF Drafted, AnswersTrue, Lost
    <2> QED BY <1>0, <2>1, <2>2, <2>3, <2>4 DEF IInv, TypeOK
  <1> QED BY <1>1, <1>2, <1>3, <1>4

----------------------------------------------------------------------------
(* The theorems *)

\* The inductive invariant holds in every reachable state.
THEOREM RevocationInvariant == Spec => []IInv
  <1>1. Init => IInv
    <2> SUFFICES ASSUME Init PROVE IInv
      OBVIOUS
    <2>1. TypeOK
      BY BoundsAssumption DEF Init, TypeOK, Places, Kinds, Answers, Unanswered
    <2>2. \A c \in Callers : at[c] \in {"new", "off"}
      BY DEF Init
    <2>3. \A s \in Spellings : s \in Callers /\ s \notin Posts /\ at[s] = "off"
      BY CallersAssumption DEF Init, Callers
    <2>4. AnswersTrue
      BY DEF Init, AnswersTrue, Unanswered
    <2>5. InFlightIsDriven
      BY <2>2, <2>3 DEF Init, InFlightIsDriven, Working
    <2>6. Drafted /\ DriversPaced
      BY <2>2, <2>3 DEF Drafted, DriversPaced
    <2> QED BY <2>1, <2>4, <2>5, <2>6 DEF IInv
  <1>2. IInv /\ [Next]_vars => IInv'
    <2> SUFFICES ASSUME IInv, [Next]_vars PROVE IInv'
      OBVIOUS
    <2>1. ASSUME NEW p \in Posts, Handle(p) PROVE IInv'
      BY <2>1, PublishRevocationInv, OtherInv DEF Handle, Callers
    <2>2. ASSUME NEW s \in Spellings, Drive(s) PROVE IInv'
      BY <2>2, PublishRevocationInv, DriveInv DEF Drive, Callers
    <2>3. CASE LateWrite \/ Recover \/ Poll \/ Crash \/ UNCHANGED vars
      BY <2>3, OtherInv
    <2> QED BY <2>1, <2>2, <2>3 DEF Next
  <1> QED BY <1>1, <1>2, PTL DEF Spec

\* Every state is well-typed: no attempt or retry beyond its budget.
THEOREM RevocationTypeCorrect == Spec => []TypeOK
  <1>1. IInv => TypeOK
    BY DEF IInv
  <1> QED BY <1>1, RevocationInvariant, PTL

\* The server answers 200 or 409 to a revoke request only when the record is
\* LIVE, hence visible to verifiers: no lost, late or concurrent write makes it
\* take a stranded draft for a revocation (client.ts, publishRevocationHash).
THEOREM AnswersTrueAlways == Spec => []AnswersTrue
  <1>1. IInv => AnswersTrue
    BY DEF IInv
  <1> QED BY <1>1, RevocationInvariant, PTL

\* The guard set of revocation-worker.ts holds exactly the keys of the drivers
\* that run.
THEOREM InFlightIsDrivenAlways == Spec => []InFlightIsDriven
  <1>1. IInv => InFlightIsDriven
    BY DEF IInv
  <1> QED BY <1>1, RevocationInvariant, PTL

-----------------------------------------------------------------------------
(* The calls these requests are made of (module DediCalls, whose clients and *)
(* retries are its own: a driver's are another thing).                       *)

\* The counter is the history it stands for, and decides between the states.
Counted == /\ streak = failureCount
           /\ state = "CLOSED" <=> failureCount < Threshold

\* Requests sent by a call, against its attempts: one for each attempt before
\* this one, and one for this one once it is past the tokens.
Paced ==
    \A c \in Clients :
      /\ pc[c] \in {"fetching", "waiting", "backoff"} => sends[c] <= tried[c]
      /\ pc[c] \in {"sent", "caught", "stuck"} => sends[c] <= tried[c] + 1
      /\ pc[c] = "idle" => sends[c] = 0 /\ tried[c] = 0
      /\ c \notin Retryable => tried[c] = 0

CallInv == CallsTypeOK /\ Counted /\ Paced

LEMMA CallInit ==
    ASSUME CallsInit
    PROVE  CallInv
  <1>1. CallsTypeOK
    <2>1. 0 \in 0..Threshold /\ 0 \in 0..RetryLimit /\ 0 \in 0..(RetryLimit + 1)
      BY NumberAssumption
    <2>2. /\ pc \in [Clients -> CallPlaces] /\ err \in [Clients -> ErrorKinds \cup {"none"}]
          /\ tried \in [Clients -> 0..RetryLimit] /\ sends \in [Clients -> 0..(RetryLimit + 1)]
          /\ outcome \in [Clients -> {"none", "ok", "failed"}]
      BY <2>1 DEF CallsInit, CallPlaces
    <2> QED BY <2>1, <2>2 DEF CallsInit, CallsTypeOK
  <1>2. Counted /\ Paced
    BY NumberAssumption DEF CallsInit, Counted, Paced
  <1> QED BY <1>1, <1>2 DEF CallInv

\* Callers that wait for a token, or one that has it, go on.
LEMMA ReleasedKeeps ==
    ASSUME CallInv, NEW who \in SUBSET Clients, NEW where \in {"sent", "caught", "waiting"},
           \A c \in who : pc[c] \in {"fetching", "waiting"},
           Released(who, where), UNCHANGED tried
    PROVE  /\ pc' \in [Clients -> CallPlaces]
           /\ sends' \in [Clients -> 0..(RetryLimit + 1)]
           /\ Paced'
  <1>1. pc' \in [Clients -> CallPlaces]
    BY DEF Released, CallInv, CallsTypeOK, CallPlaces
  <1>2. \A c \in Clients : sends[c] \in 0..(RetryLimit + 1) /\ tried[c] \in 0..RetryLimit
    BY DEF CallInv, CallsTypeOK
  <1>3. \A c \in who : sends[c] <= tried[c]
    BY DEF CallInv, Paced
  <1>4. sends' \in [Clients -> 0..(RetryLimit + 1)]
    BY NumberAssumption, <1>2, <1>3 DEF Released
  <1>5. Paced'
    <2> SUFFICES ASSUME NEW c \in Clients
                 PROVE  /\ pc'[c] \in {"fetching", "waiting", "backoff"} => sends'[c] <= tried[c]
                        /\ pc'[c] \in {"sent", "caught", "stuck"} => sends'[c] <= tried[c] + 1
                        /\ pc'[c] = "idle" => sends'[c] = 0 /\ tried[c] = 0
                        /\ c \notin Retryable => tried[c] = 0
      BY DEF Paced
    <2>1. CASE c \in who
      BY NumberAssumption, <2>1, <1>2, <1>3 DEF Released, CallInv, Paced
    <2>2. CASE c \notin who
      BY NumberAssumption, <2>2, <1>2 DEF Released, CallInv, Paced
    <2> QED BY <2>1, <2>2
  <1> QED BY <1>1, <1>4, <1>5

\* A call that returns or throws.
LEMMA EndedKeeps ==
    ASSUME CallInv, NEW c \in Clients, NEW how \in {"ok", "failed"}, Ended(c, how)
    PROVE  /\ pc' \in [Clients -> CallPlaces]
           /\ err' \in [Clients -> ErrorKinds \cup {"none"}]
           /\ tried' \in [Clients -> 0..RetryLimit]
           /\ sends' \in [Clients -> 0..(RetryLimit + 1)]
           /\ outcome' \in [Clients -> {"none", "ok", "failed"}]
           /\ Paced'
  BY NumberAssumption DEF CallInv, CallsTypeOK, Ended, CallPlaces, Paced

\* The breaker after a failure that counts, and after a success.
LEMMA BreakerKeeps ==
    ASSUME CallsTypeOK, Counted
    PROVE  /\ OnSuccess /\ streak' = 0 =>
                Counted' /\ state' = "CLOSED" /\ failureCount' = 0 /\ cooled' = FALSE
           /\ OnFailure /\ streak' = Capped(streak + 1) =>
                /\ Counted' /\ state' \in {"CLOSED", "OPEN", "HALF_OPEN"}
                /\ failureCount' \in 0..Threshold /\ cooled' = FALSE
  BY NumberAssumption DEF CallsTypeOK, Counted, OnSuccess, OnFailure, Capped

LEMMA CallKeeps ==
    ASSUME CallInv, NEW c \in Clients, Call(c)
    PROVE  CallInv'
  <1>1. CallsTypeOK'
    BY DEF CallInv, CallsTypeOK, Call, auth, env, breaker, CallPlaces
  <1>2. Counted'
    BY DEF CallInv, Counted, Call, breaker
  <1>3. Paced'
    BY DEF CallInv, CallsTypeOK, Paced, Call
  <1> QED BY <1>1, <1>2, <1>3 DEF CallInv

LEMMA FetchKeeps ==
    ASSUME CallInv, NEW c \in Clients, Fetch(c)
    PROVE  CallInv'
  <1>1. PICK where \in {"sent", "caught", "waiting"} : Released({c}, where)
    BY DEF Fetch
  <1>2. pc[c] = "fetching" /\ UNCHANGED <<breaker, token, refused, tried, outcome, env, streak>>
    BY DEF Fetch
  <1>3. pc' \in [Clients -> CallPlaces] /\ sends' \in [Clients -> 0..(RetryLimit + 1)] /\ Paced'
    BY <1>1, <1>2, ReleasedKeeps
  <1>4. err' \in [Clients -> ErrorKinds \cup {"none"}] /\ pending' \in {"none", "login", "refresh"}
    BY DEF Fetch, CallInv, CallsTypeOK, ErrorKinds
  <1>5. Counted'
    BY <1>2 DEF CallInv, Counted, breaker
  <1> QED BY <1>2, <1>3, <1>4, <1>5 DEF CallInv, CallsTypeOK, breaker, env

LEMMA AuthKeeps ==
    ASSUME CallInv, AuthAnswers
    PROVE  CallInv'
  <1>1. Waiting \in SUBSET Clients /\ \A c \in Waiting : pc[c] \in {"fetching", "waiting"}
    BY DEF Waiting
  <1>2. CASE Authenticated
    <2>1. pc' \in [Clients -> CallPlaces] /\ sends' \in [Clients -> 0..(RetryLimit + 1)] /\ Paced'
      BY <1>1, <1>2, ReleasedKeeps DEF Authenticated
    <2>2. Counted'
      BY <1>2 DEF CallInv, Counted, Authenticated, breaker
    <2> QED BY <1>2, <2>1, <2>2 DEF CallInv, CallsTypeOK, Authenticated, breaker
  <1>3. CASE RefreshRefused
    BY <1>3 DEF CallInv, CallsTypeOK, Counted, Paced, RefreshRefused, breaker,
       call
  <1>4. ASSUME NEW k \in ErrorKinds, AuthFails(k)
        PROVE  CallInv'
    <2>1. pc' \in [Clients -> CallPlaces] /\ sends' \in [Clients -> 0..(RetryLimit + 1)] /\ Paced'
      BY <1>1, <1>4, ReleasedKeeps DEF AuthFails
    <2>2. Counted'
      BY <1>4 DEF CallInv, Counted, AuthFails, breaker
    <2>3. err' \in [Clients -> ErrorKinds \cup {"none"}]
      BY <1>4 DEF CallInv, CallsTypeOK, AuthFails
    <2> QED BY <1>4, <2>1, <2>2, <2>3 DEF CallInv, CallsTypeOK, AuthFails, breaker
  <1> QED BY <1>2, <1>3, <1>4 DEF AuthAnswers

LEMMA SucceedKeeps ==
    ASSUME CallInv, NEW c \in Clients, Succeed(c)
    PROVE  CallInv'
  <1>1. Counted' /\ state' = "CLOSED" /\ failureCount' = 0 /\ cooled' = FALSE
    BY BreakerKeeps DEF Succeed, CallInv
  <1>2. streak' \in 0..Threshold
    BY NumberAssumption DEF Succeed
  <1> QED BY NumberAssumption, <1>1, <1>2, EndedKeeps DEF CallInv, CallsTypeOK, Succeed, auth

LEMMA GiveUpKeeps ==
    ASSUME CallInv, NEW c \in Clients, GiveUp(c)
    PROVE  CallInv'
  <1>1. /\ Counted' /\ state' \in {"CLOSED", "OPEN", "HALF_OPEN"}
        /\ failureCount' \in 0..Threshold /\ cooled' \in BOOLEAN /\ streak' \in 0..Threshold
    <2>1. CASE err[c] = "broken"
      BY <2>1, BreakerKeeps DEF GiveUp, CallInv, Counted
    <2>2. CASE err[c] # "broken"
      BY <2>2 DEF GiveUp, CallInv, CallsTypeOK, Counted, breaker
    <2> QED BY <2>1, <2>2
  <1> QED BY <1>1, EndedKeeps DEF CallInv, CallsTypeOK, GiveUp, auth, env

\* The other steps of a call move it to a place where it may send no more.
LEMMA MoveKeeps ==
    ASSUME CallInv, NEW c \in Clients,
           BodyStalls(c) \/ BackOff(c) \/ Wake(c) \/ \E k \in ErrorKinds : Fail(c, k)
    PROVE  CallInv'
  <1>1. CASE BodyStalls(c)
    BY <1>1 DEF CallInv, CallsTypeOK, Counted, Paced, BodyStalls, breaker,
       auth, env, CallPlaces
  <1>2. CASE Wake(c)
    BY <1>2 DEF CallInv, CallsTypeOK, Counted, Paced, Wake, breaker, auth,
       env, CallPlaces
  <1>3. CASE \E k \in ErrorKinds : Fail(c, k)
    BY <1>3 DEF CallInv, CallsTypeOK, Counted, Paced, Fail, breaker, auth,
       CallPlaces
  <1>4. CASE BackOff(c)
    <2>1. tried[c] \in 0..RetryLimit /\ tried[c] < RetryLimit /\ c \in Retryable
      BY <1>4 DEF BackOff, MayRetry, CallInv, CallsTypeOK
    <2>2. tried' \in [Clients -> 0..RetryLimit]
      BY NumberAssumption, <1>4, <2>1 DEF BackOff, CallInv, CallsTypeOK
    <2>3. CallsTypeOK' /\ Counted'
      BY <1>4, <2>2 DEF BackOff, CallInv, CallsTypeOK, Counted, breaker,
         auth, env, CallPlaces
    <2>4. Paced'
      BY <1>4, <2>1 DEF BackOff, CallInv, CallsTypeOK, Paced
    <2> QED BY <2>3, <2>4 DEF CallInv
  <1> QED BY <1>1, <1>2, <1>3, <1>4

LEMMA CallStep ==
    ASSUME CallInv, [CallsNext]_callsVars
    PROVE  CallInv'
  <1>1. CASE UNCHANGED callsVars
    BY <1>1 DEF callsVars, breaker, auth, call, env, CallInv,
       CallsTypeOK, Counted, Paced
  <1>2. ASSUME NEW c \in Clients,
               Call(c) \/ Fetch(c) \/ Answer(c) \/ BodyStalls(c) \/ BackOff(c) \/ Wake(c) \/ GiveUp(c)
        PROVE  CallInv'
    BY <1>2, CallKeeps, FetchKeeps, SucceedKeeps, MoveKeeps, GiveUpKeeps DEF Answer
  <1>3. CASE Cool \/ Expire \/ BecomesWell
    <2>1. CallsTypeOK'
      BY ZenonT(60), <1>3 DEF Cool, Expire, BecomesWell, auth, call, env,
         breaker, CallInv, CallsTypeOK
    <2> QED BY <2>1, <1>3 DEF Cool, Expire, BecomesWell, auth, call,
           env, breaker, CallInv, Counted, Paced
  <1>4. ASSUME NEW what \in Endings, Revoke(what)
        PROVE  CallInv'
    <2>1. what \subseteq {"access", "refresh", "barred"}
      BY DEF Endings
    <2> QED BY <1>4, <2>1 DEF Revoke, call, env, breaker, CallInv, CallsTypeOK, Counted, Paced
  <1> QED BY <1>1, <1>2, <1>3, <1>4, AuthKeeps DEF CallsNext

-----------------------------------------------------------------------------
\* Type correctness.
THEOREM DediCallsTypeCorrect == CallsSpec => []CallsTypeOK
  <1>1. CallInv => CallsTypeOK
    BY DEF CallInv
  <1> QED BY <1>1, CallInit, CallStep, PTL DEF CallsSpec

\* The breaker is shut exactly as long as fewer than Threshold calls have
\* failed since one succeeded (CircuitBreaker.onSuccess, onFailure).
THEOREM OpenHolds == CallsSpec => []OpenIsEarned
  <1>1. CallInv => OpenIsEarned
    BY DEF CallInv, Counted, OpenIsEarned
  <1> QED BY <1>1, CallInit, CallStep, PTL DEF CallsSpec

\* No call sends more requests than its attempts, and one that may not be
\* repeated sends one (withRetry, DeDiTokenManager.getToken).
THEOREM SendsHold == CallsSpec => []SendsBounded
  <1>1. CallInv => SendsBounded
    <2> SUFFICES ASSUME CallInv, NEW c \in Clients
                 PROVE  sends[c] <= IF c \in Retryable THEN RetryLimit + 1 ELSE 1
      BY DEF SendsBounded
    <2>1. sends[c] \in 0..(RetryLimit + 1) /\ tried[c] \in 0..RetryLimit /\ pc[c] \in CallPlaces
      BY DEF CallInv, CallsTypeOK
    <2>2. c \notin Retryable => sends[c] <= 1
      BY NumberAssumption, <2>1 DEF CallInv, Paced, CallPlaces
    <2> QED BY NumberAssumption, <2>1, <2>2
  <1> QED BY <1>1, CallInit, CallStep, PTL DEF CallsSpec

\* An acquisition that fails leaves the session (DeDiTokenManager.refresh).
THEOREM SessionHolds == CallsSpec => SessionKept
  <1>1. [CallsNext]_callsVars => [token # "none" => token' # "none"]_token
    BY DEF CallsNext, callsVars, breaker, auth, call, env,
       Call, Fetch, Answer, Succeed, Fail, BodyStalls,
       BackOff, Wake, GiveUp, AuthAnswers, Authenticated,
       RefreshRefused, AuthFails, Cool, Expire, BecomesWell,
       Revoke
  <1> QED BY <1>1, PTL DEF CallsSpec, SessionKept

\* What Recovers and Served except: once the refresh token of an expiring session
\* is answered with a 4xx other than 401 and 403, no login is made any more and no
\* request that waits for a token is sent, though DeDi is well (acquireToken,
\* auth.ts:69-88).
THEOREM BarredForGood ==
    CallsSpec => [][Barred => Barred' /\ \A c \in Clients : sends'[c] <= sends[c]]_callsVars
  <1> DEFINE Kept == Barred => Barred' /\ \A c \in Clients : sends'[c] <= sends[c]
  <1>1. CallInv /\ [CallsNext]_callsVars => [Kept]_callsVars
    <2> SUFFICES ASSUME CallInv, CallsNext, Barred
                 PROVE  Barred' /\ \A c \in Clients : sends'[c] <= sends[c]
      OBVIOUS
    <2>0. sends \in [Clients -> Nat]
      BY NumberAssumption DEF CallInv, CallsTypeOK
    <2>1. ASSUME NEW c \in Clients, Call(c) \/ BodyStalls(c) \/ BackOff(c) \/ Wake(c)
          PROVE  Barred' /\ UNCHANGED sends
      BY <2>1 DEF Call, BodyStalls, BackOff, Wake, Barred, auth, env
    <2>2. ASSUME NEW c \in Clients, Fetch(c)
          PROVE  Barred' /\ \A b \in Clients : sends'[b] = sends[b]
      BY <2>0, <2>2 DEF Fetch, Released, Barred, env
    <2>3. ASSUME NEW c \in Clients, Succeed(c) \/ GiveUp(c)
          PROVE  Barred' /\ sends' = [sends EXCEPT ![c] = 0]
      BY <2>3 DEF Succeed, GiveUp, Ended, Barred, auth, env
    <2>4. ASSUME NEW c \in Clients, NEW k \in ErrorKinds, Fail(c, k)
          PROVE  Barred' /\ UNCHANGED sends
      BY <2>4 DEF Fail, Barred, auth
    <2>5. CASE AuthAnswers
      <3>1. ~Authenticated /\ ~RefreshRefused
        BY DEF Authenticated, RefreshRefused, Barred, AuthMayFail, CallInv, CallsTypeOK
      <3>2. PICK k \in ErrorKinds : AuthFails(k)
        BY <2>5, <3>1 DEF AuthAnswers
      <3>3. Barred' /\ \A b \in Clients : sends'[b] = sends[b]
        BY <2>0, <3>2 DEF AuthFails, Released, Barred
      <3> QED BY <2>0, <3>3
    <2>6. CASE Cool \/ Expire \/ BecomesWell \/ \E what \in Endings : Revoke(what)
      BY <2>0, <2>6 DEF Cool, Expire, BecomesWell, Revoke, Barred, auth, call, env
    <2> QED BY <2>0, <2>1, <2>2, <2>3, <2>4, <2>5, <2>6 DEF CallsNext, Answer
  <1>2. CallsSpec => [][Kept]_callsVars
    BY <1>1, CallInit, CallStep, PTL DEF CallsSpec
  <1> QED BY <1>2
=============================================================================
