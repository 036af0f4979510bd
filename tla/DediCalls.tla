----------------------------- MODULE DediCalls -----------------------------
(***************************************************************************)
(* One DeDi client under concurrent calls: the circuit breaker every       *)
(* request goes through, the retry loop inside it, and the token manager   *)
(* that logs in or refreshes once for all callers that wait.               *)
(*                                                                         *)
(* A call is CircuitBreaker.execute(withRetry(fetch)).  An attempt checks  *)
(* the host, takes a token and sends one request; how it fails is a kind:  *)
(* "broken" (5xx, timeout, network, malformed answer), "throttled" (429)   *)
(* or "refused" (any other 4xx).                                           *)
(*                                                                         *)
(* Time: Cool is the end of the breaker's resetTimeoutMs, Expire the       *)
(* moment the access token has less than refreshBufferMs left.             *)
(***************************************************************************)
EXTENDS Naturals, FiniteSets

CONSTANTS
    Clients,      \* each makes one call after the other
    Retryable,    \* callers whose requests may be repeated; a POST that
                  \* creates something is sent with retryable: false
    Threshold,    \* failures that open the breaker: 5 in the server
    RetryLimit,   \* of an attempt: 3
    MaxStuck      \* bound: answers whose body never arrives

ASSUME CallerAssumption == Retryable \subseteq Clients /\ IsFiniteSet(Clients)
ASSUME NumberAssumption == Threshold \in Nat \ {0} /\ RetryLimit \in Nat /\ MaxStuck \in Nat

VARIABLES
    state, failureCount,  \* of the breaker; the count is only compared with
                          \* Threshold and kept at it
    cooled,               \* resetTimeoutMs has passed since the last failure
    token,                \* access and refresh token, as the manager sees them
    refused,              \* what DeDi no longer takes: the access token, the
                          \* refresh token ("refresh": with 401 or 403,
                          \* "barred": with another 4xx)
    pending,              \* pendingPromise: what the acquisition is doing
    pc, err, tried,       \* per caller: where its call is, the error caught,
                          \* attempts made before this one
    outcome,              \* per caller: how its last call ended
    health,               \* of DeDi; "well" for good
    early,                \* requests sent before DeDi was well
    sends, streak         \* history: requests of a call; calls that failed on
                          \* DeDi's account since the last that succeeded

breaker == <<state, failureCount, cooled>>
auth    == <<token, refused, pending>>
call    == <<pc, err, tried, outcome>>
env     == <<health, early>>
callsVars    == <<breaker, auth, call, env, sends, streak>>

ErrorKinds     == {"broken", "throttled", "refused"}
Transient == {"broken", "throttled"}
CallPlaces    == {"idle", "fetching", "waiting", "sent", "caught", "backoff", "stuck"}

CallsTypeOK ==
    /\ state \in {"CLOSED", "OPEN", "HALF_OPEN"}
    /\ failureCount \in 0..Threshold
    /\ cooled \in BOOLEAN
    /\ token \in {"none", "valid", "expiring"}
    /\ refused \subseteq {"access", "refresh", "barred"}
    /\ pending \in {"none", "login", "refresh"}
    /\ pc \in [Clients -> CallPlaces]
    /\ err \in [Clients -> ErrorKinds \cup {"none"}]
    /\ tried \in [Clients -> 0..RetryLimit]
    /\ outcome \in [Clients -> {"none", "ok", "failed"}]
    /\ health \in {"flaky", "well"}
    /\ early \subseteq Clients \cup {"auth"}
    /\ sends \in [Clients -> 0..(RetryLimit + 1)]
    /\ streak \in 0..Threshold

CallsInit ==
    /\ state = "CLOSED" /\ failureCount = 0 /\ cooled = FALSE
    /\ token = "none" /\ refused = {} /\ pending = "none"
    /\ pc = [c \in Clients |-> "idle"]
    /\ err = [c \in Clients |-> "none"]
    /\ tried = [c \in Clients |-> 0]
    /\ outcome = [c \in Clients |-> "none"]
    /\ health = "flaky" /\ early = {}
    /\ sends = [c \in Clients |-> 0] /\ streak = 0

Capped(n) == IF n > Threshold THEN Threshold ELSE n

----------------------------------------------------------------------------
(* CircuitBreaker *)

\* (fault) a success in HALF_OPEN starts a new count, but does not close
OnSuccessCountsOnly ==
    /\ failureCount' = 0 /\ UNCHANGED <<state, cooled>>

\* (fault) a success while CLOSED does not start a new count
OnSuccessKeepsCount ==
    /\ failureCount' = IF state = "CLOSED" THEN failureCount ELSE 0
    /\ state' = "CLOSED" /\ cooled' = FALSE

\* Also by a call that was admitted before the breaker opened.
OnSuccess ==
    /\ failureCount' = 0 /\ state' = "CLOSED" /\ cooled' = FALSE

OnFailure ==
    /\ failureCount' = Capped(failureCount + 1)
    /\ state' = IF state = "HALF_OPEN" \/ failureCount + 1 >= Threshold THEN "OPEN" ELSE state
    /\ cooled' = FALSE

\* execute() begins.  HALF_OPEN and CLOSED admit every caller.
Call(c) ==
    /\ pc[c] = "idle"
    /\ IF state = "OPEN" /\ ~cooled
       THEN /\ outcome' = [outcome EXCEPT ![c] = "failed"]
            /\ UNCHANGED <<breaker, pc>>
       ELSE /\ state' = IF state = "OPEN" THEN "HALF_OPEN" ELSE state
            /\ cooled' = FALSE
            /\ pc' = [pc EXCEPT ![c] = "fetching"]
            /\ UNCHANGED <<failureCount, outcome>>
    /\ UNCHANGED <<auth, err, tried, env, sends, streak>>

Cool ==
    /\ state = "OPEN" /\ ~cooled
    /\ cooled' = TRUE
    /\ UNCHANGED <<state, failureCount, auth, call, env, sends, streak>>

----------------------------------------------------------------------------
(* DeDiTokenManager *)

\* The callers in `who` go on with `where`; those that send, send.
Released(who, where) ==
    /\ pc' = [c \in Clients |-> IF c \in who THEN where ELSE pc[c]]
    /\ sends' = [c \in Clients |-> IF c \in who /\ where = "sent" THEN sends[c] + 1 ELSE sends[c]]

\* doFetch: the host does not resolve, or getToken answers from memory, joins
\* the acquisition in flight, or starts one: a refresh if there is a session.
Fetch(c) ==
    /\ pc[c] = "fetching"
    /\ \/ /\ health = "flaky"
          /\ err' = [err EXCEPT ![c] = "broken"]
          /\ Released({c}, "caught")
          /\ UNCHANGED pending
       \/ /\ token = "valid"
          /\ Released({c}, "sent")
          /\ UNCHANGED <<pending, err>>
       \/ /\ token # "valid"
          /\ pending' = IF pending # "none" THEN pending
                        ELSE IF token = "none" THEN "login" ELSE "refresh"
          /\ Released({c}, "waiting")
          /\ UNCHANGED err
    /\ UNCHANGED <<breaker, token, refused, tried, outcome, env, streak>>

Waiting == {c \in Clients : pc[c] = "waiting"}
AuthMayFail == health = "flaky" \/ "auth" \in early

\* The acquisition in flight may be answered with an error of this kind.
AuthRejects(k) ==
    /\ pending # "none"
    /\ AuthMayFail \/ (pending = "refresh" /\ "barred" \in refused /\ k = "refused")

\* New tokens: everybody who waits sends its request with them.
Authenticated ==
    /\ pending # "none"
    /\ pending = "refresh" => refused \cap {"refresh", "barred"} = {}
    /\ token' = "valid" /\ refused' = {} /\ pending' = "none"
    /\ Released(Waiting, "sent")
    /\ early' = early \ {"auth"}
    /\ UNCHANGED <<breaker, err, tried, outcome, health, streak>>

\* (fault) a refresh refused with 401 or 403 is an error like any other
RefreshRefusedFails ==
    /\ pending = "refresh"
    /\ AuthMayFail \/ "refresh" \in refused
    /\ pending' = "none"
    /\ err' = [c \in Clients |-> IF c \in Waiting THEN "refused" ELSE err[c]]
    /\ Released(Waiting, "caught")
    /\ early' = early \ {"auth"}
    /\ UNCHANGED <<breaker, token, refused, tried, outcome, health, streak>>

\* 401 or 403: the same acquisition goes on with a login.
RefreshRefused ==
    /\ pending = "refresh"
    /\ AuthMayFail \/ "refresh" \in refused
    /\ pending' = "login"
    /\ early' = early \ {"auth"}
    /\ UNCHANGED <<breaker, token, refused, call, health, sends, streak>>

\* Any other error, a refresh refused with 400 or 404 among them: everybody who
\* waits gets it, and the session stays, to be refreshed in the same way again.
AuthFails(k) ==
    /\ AuthRejects(k)
    /\ pending' = "none"
    /\ err' = [c \in Clients |-> IF c \in Waiting THEN k ELSE err[c]]
    /\ Released(Waiting, "caught")
    /\ early' = early \ {"auth"}
    /\ UNCHANGED <<breaker, token, refused, tried, outcome, health, streak>>

Expire ==
    /\ token = "valid"
    /\ token' = "expiring"
    /\ UNCHANGED <<breaker, refused, pending, call, env, sends, streak>>

\* What a session loses: its refresh token, with or without its access token.
Endings == {{r} \cup a : r \in {"refresh", "barred"}, a \in {{}, {"access"}}}

\* DeDi ends the session, or no longer knows the refresh token; the manager goes
\* by the expiry date alone.
Revoke(what) ==
    /\ health = "flaky" /\ token # "none"
    /\ refused' = refused \cup what
    /\ UNCHANGED <<breaker, token, pending, call, env, sends, streak>>

----------------------------------------------------------------------------
(* The request, and withRetry *)

\* execute() returns or throws.
Ended(c, how) ==
    /\ pc' = [pc EXCEPT ![c] = "idle"]
    /\ err' = [err EXCEPT ![c] = "none"]
    /\ tried' = [tried EXCEPT ![c] = 0]
    /\ sends' = [sends EXCEPT ![c] = 0]
    /\ outcome' = [outcome EXCEPT ![c] = how]

\* 2xx with its body.
Succeed(c) ==
    /\ pc[c] = "sent" /\ "access" \notin refused
    /\ OnSuccess
    /\ Ended(c, "ok")
    /\ early' = early \ {c}
    /\ streak' = 0
    /\ UNCHANGED <<auth, health>>

\* An answer that is an error, no answer within the timeout, or no connection.
Fail(c, k) ==
    /\ pc[c] = "sent"
    /\ \/ health = "flaky" \/ c \in early
       \/ k = "refused" /\ "access" \in refused
    /\ pc' = [pc EXCEPT ![c] = "caught"]
    /\ err' = [err EXCEPT ![c] = k]
    /\ early' = early \ {c}
    /\ UNCHANGED <<breaker, auth, tried, outcome, health, sends, streak>>

\* The headers came in time, which cleared the timer; the body never does.
BodyStalls(c) ==
    /\ pc[c] = "sent" /\ health = "flaky"
    /\ Cardinality({b \in Clients : pc[b] = "stuck"}) < MaxStuck
    /\ pc' = [pc EXCEPT ![c] = "stuck"]
    /\ UNCHANGED <<breaker, auth, err, tried, outcome, env, sends, streak>>

\* (fault) a transient error is retried whoever makes the request
MayRetryAlways(c) == err[c] \in Transient /\ tried[c] < RetryLimit

MayRetry(c) == c \in Retryable /\ err[c] \in Transient /\ tried[c] < RetryLimit

BackOff(c) ==
    /\ pc[c] = "caught" /\ MayRetry(c)
    /\ pc' = [pc EXCEPT ![c] = "backoff"]
    /\ err' = [err EXCEPT ![c] = "none"]
    /\ tried' = [tried EXCEPT ![c] = @ + 1]
    /\ UNCHANGED <<breaker, auth, outcome, env, sends, streak>>

\* The delay is over.  The breaker is not asked again.
Wake(c) ==
    /\ pc[c] = "backoff"
    /\ pc' = [pc EXCEPT ![c] = "fetching"]
    /\ UNCHANGED <<breaker, auth, err, tried, outcome, env, sends, streak>>

\* The error leaves withRetry and execute(); an error below 500 does not count
\* and leaves HALF_OPEN as it is.
GiveUp(c) ==
    /\ pc[c] = "caught" /\ ~MayRetry(c)
    /\ IF err[c] = "broken" THEN OnFailure /\ streak' = Capped(streak + 1)
                            ELSE UNCHANGED <<breaker, streak>>
    /\ Ended(c, "failed")
    /\ UNCHANGED <<auth, env>>

\* DeDi is well from now on; what is under way may still fail.
BecomesWell ==
    /\ health = "flaky"
    /\ health' = "well"
    /\ early' = {c \in Clients : pc[c] = "sent"} \cup (IF pending = "none" THEN {} ELSE {"auth"})
    /\ UNCHANGED <<breaker, auth, call, sends, streak>>

----------------------------------------------------------------------------
AuthAnswers == Authenticated \/ RefreshRefused \/ \E k \in ErrorKinds : AuthFails(k)
Answer(c)   == Succeed(c) \/ \E k \in ErrorKinds : Fail(c, k)

CallsNext ==
    \/ \E c \in Clients :
         \/ Call(c) \/ Fetch(c) \/ Answer(c) \/ BodyStalls(c)
         \/ BackOff(c) \/ Wake(c) \/ GiveUp(c)
    \/ AuthAnswers \/ Cool \/ Expire \/ BecomesWell
    \/ \E what \in Endings : Revoke(what)

(***************************************************************************)
(* Promises go on, requests are answered or time out, time passes, and the *)
(* callers keep calling.  That DeDi recovers is never required.            *)
(***************************************************************************)
Fairness ==
    /\ \A c \in Clients :
         /\ WF_callsVars(Call(c)) /\ WF_callsVars(Fetch(c)) /\ WF_callsVars(Answer(c))
         /\ WF_callsVars(BackOff(c)) /\ WF_callsVars(Wake(c)) /\ WF_callsVars(GiveUp(c))
    /\ WF_callsVars(AuthAnswers) /\ WF_callsVars(Cool) /\ WF_callsVars(Expire)

CallsSpec == CallsInit /\ [][CallsNext]_callsVars /\ Fairness

----------------------------------------------------------------------------
(* The breaker is shut exactly as long as fewer than Threshold calls have  *)
(* failed on DeDi's account since one succeeded, also when calls admitted  *)
(* in one of its states end in another.                                    *)
OpenIsEarned == state = "CLOSED" <=> streak < Threshold

(* A request that must not be repeated is sent once per call, and no call  *)
(* sends more than its attempts, whatever logins and refreshes it took.    *)
SendsBounded == \A c \in Clients : sends[c] <= IF c \in Retryable THEN RetryLimit + 1 ELSE 1

(* A login or refresh that fails, or answers nonsense, leaves the session  *)
(* it was to replace (comment auth.ts:160-172).                            *)
SessionKept == [][token # "none" => token' # "none"]_token

(* Once DeDi is well the breaker closes and stays so.  Excepted is a        *)
(* refresh token that DeDi answers with a 4xx other than 401 and 403:       *)
(* acquireToken (auth.ts:75-82) then asks with it for ever.                 *)
Recovers == (health = "well") ~> []("barred" \in refused \/ state = "CLOSED")

(* Once DeDi is well every caller ends up being served, also when the       *)
(* session was ended on DeDi's side meanwhile, with the same exception.     *)
Served ==
    (health = "well") ~>
        []("barred" \in refused \/ \A c \in Clients : pc[c] = "stuck" \/ outcome[c] = "ok")

(* The exception: DeDi is well, but the tokens must be refreshed and the    *)
(* refresh token is answered with 400 or 404.                               *)
Barred == /\ health = "well" /\ "auth" \notin early
          /\ token = "expiring" /\ pending # "login"
          /\ "barred" \in refused /\ "refresh" \notin refused
=============================================================================
