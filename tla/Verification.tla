---------------------------- MODULE Verification ----------------------------
(***************************************************************************)
(* The verification of one credential, presented again and again, while    *)
(* its issuer revokes it or its key and time passes: verifyCredential and  *)
(* the checks it waits for.  Verifications share no state, so one is under *)
(* way at a time and any number follow each other.                         *)
(*                                                                         *)
(* A credential is its format, the method of its issuer's DID, the status  *)
(* entry it was issued with and its certificate chain; every await is a    *)
(* step, and what it reads is the world at that step, or nothing when the  *)
(* call lapses (a refusal, an error, a timeout).  Signatures are exact.    *)
(***************************************************************************)
EXTENDS Naturals, FiniteSets

CONSTANTS
    Credentials,   \* the credentials that may be presented
    Registries,    \* the namespaces a verifier may be configured with
    Flaws          \* what may be wrong with a presentation

Formats   == {"data-integrity", "jws-2020", "jws", "vc-jwt", "sd-jwt-vc"}
Canonical == {"data-integrity", "jws-2020"}

\* enveloped: a vc-jwt wrapped in its JSON-LD credential, as it is issued.
Shapes == [format : Formats, enveloped : BOOLEAN, method : {"web", "key"},
           status : {"none", "dedi", "bitstring"},
           chain : {"none", "anchored", "loose"}]

\* "off": no DeDi client; "own": the issuer's namespace; "other": another
\* one; "nameless": a client without a namespace, whose calls throw.
Namespaces == {"off", "own", "other", "nameless"}

\* "form" is seen before the key is resolved, "outer" is an altered envelope,
\* "claims" a token whose jti or sub disagrees with its credential,
\* "context" a JSON-LD context the verifier does not have.
Faults == {"none", "outer", "form", "context", "signature", "claims"}

ASSUME ShapeAssumption ==
    /\ Credentials \subseteq Shapes
    /\ \A c \in Credentials : /\ c.enveloped => c.format = "vc-jwt"
                              /\ c.chain # "none" => c.format \in Canonical
ASSUME ScopeAssumption == Registries \subseteq Namespaces /\ Flaws \subseteq Faults

VARIABLES
    cred, registry,   \* what is verified, and the verifier's configuration
    clock,            \* the time, against validFrom and validUntil
    record,           \* the revocation record is live in the issuer's namespace
    key,              \* the signing key's record there
    listed,           \* the issuer's did.json lists the signing key
    bit,              \* the credential's bit in its status list
    pc, goal,         \* the await of the verification; what it resolves for
    flaw,             \* what is wrong with this presentation
    code,             \* the answer
    lapses,           \* history: the calls of this verification that lapsed
    began             \* history: the world when it began

world == <<clock, record, key, listed, bit>>
verification == <<pc, goal, flaw, code, lapses, began>>
vars  == <<cred, registry, world, verification>>

Clocks == {"early", "valid", "late"}
KeyStates == {"unrecorded", "active", "rotated", "revoked"}
Worlds == [clock : Clocks, record : BOOLEAN, key : KeyStates, listed : BOOLEAN, bit : BOOLEAN]
World  == [clock |-> clock, record |-> record, key |-> key, listed |-> listed, bit |-> bit]

Checks == {"revocation", "keyStatus", "anchor", "bitstring", "chain"}
Codes  == {"VALID", "REVOKED", "EXPIRED", "INVALID", "UNRESOLVABLE", "CONTEXT_MISSING"}
Calls  == {"did", "fallback", "revocation", "keyStatus", "bitstring"}

TypeOK ==
    /\ cred \in Credentials /\ registry \in Registries
    /\ World \in Worlds /\ began \in Worlds
    /\ pc \in {"idle", "resolve", "fallback", "done"} \cup (Checks \ {"chain"})
    /\ goal \in {"signature", "chain"}
    /\ flaw \in Faults
    /\ code \in Codes \cup {"none"}
    /\ lapses \subseteq Calls

Init ==
    /\ cred \in Credentials /\ registry \in Registries
    /\ clock \in {"early", "valid"} /\ key \in {"unrecorded", "active"}
    /\ record = FALSE /\ listed = TRUE /\ bit = FALSE
    /\ pc = "idle" /\ goal = "signature" /\ flaw = "none" /\ code = "none"
    /\ lapses = {} /\ began = World

-----------------------------------------------------------------------------
(* The world: the issuer's side and the time, each in one direction only.   *)

Tick == /\ clock # "late"
        /\ clock' = IF clock = "early" THEN "valid" ELSE "late"
        /\ UNCHANGED <<cred, registry, record, key, listed, bit, verification>>

\* The issuer revokes the hash it committed to in credentialStatus.id.
RevokeCredential == /\ cred.status = "dedi" /\ ~record
                    /\ record' = TRUE
                    /\ UNCHANGED <<cred, registry, clock, key, listed, bit, verification>>

MoveKey == /\ \E to \in KeyStates : /\ \/ key = "unrecorded" /\ to = "active"
                                       \/ key = "active"     /\ to \in {"rotated", "revoked"}
                                       \/ key = "rotated"    /\ to = "revoked"
                                    /\ key' = to
           /\ UNCHANGED <<cred, registry, clock, record, listed, bit, verification>>

\* The issuer hosts a did.json without the key.
Unlist == /\ cred.method = "web" /\ listed
          /\ listed' = FALSE
          /\ UNCHANGED <<cred, registry, clock, record, key, bit, verification>>

SetBit == /\ cred.status = "bitstring" /\ ~bit
          /\ bit' = TRUE
          /\ UNCHANGED <<cred, registry, clock, record, key, listed, verification>>

-----------------------------------------------------------------------------
(* What the checks read off the credential.                                 *)

\* The status entry that reaches the verifier: the payload of an SD-JWT VC
\* that OpenCred issues holds the subject's claims alone.
Carried == IF cred.format = "sd-jwt-vc" /\ cred.status = "dedi" THEN "none" ELSE cred.status

\* extractVerificationMethod: the embedded proof names the key, else a did:key
\* issuer does.  The vc claim and the claims of an SD-JWT VC hold neither.
NamesKey == cred.format \in Canonical \/ (cred.format = "jws" /\ cred.method = "key")

\* Mutant: the key is looked up in the verifier's own namespace.
KeyNamespaceOwn == registry

\* deriveKeyNamespace and resolveNamespace.
KeyNamespace == IF cred.method = "web" \/ Carried = "dedi" THEN "own" ELSE registry

Applies(check) ==
    CASE check = "revocation" -> registry # "off"
      [] check \in {"keyStatus", "anchor"} -> registry # "off" /\ NamesKey
      [] check = "bitstring" -> Carried = "bitstring"
      [] check = "chain" -> cred.chain # "none"

Rank == [c \in Checks |-> CASE c = "revocation" -> 1 [] c = "keyStatus" -> 2
                            [] c = "anchor" -> 3 [] c = "bitstring" -> 4 [] c = "chain" -> 5]

-----------------------------------------------------------------------------
(* The course of a verification.                                            *)

Answer(c) == /\ pc' = "done" /\ code' = c
             /\ UNCHANGED goal

\* On to the first check after rank r that applies; VALID when there is none.
Proceed(r) ==
    LET rest == {c \in Checks : Rank[c] > r /\ Applies(c)}
    IN  \/ rest = {} /\ Answer("VALID")
        \/ \E next \in rest :
              /\ \A c \in rest : Rank[next] <= Rank[c]
              /\ pc' = IF next = "chain" THEN "resolve" ELSE next
              /\ goal' = IF next = "chain" THEN "chain" ELSE "signature"
              /\ UNCHANGED code

Lapse(call) == lapses' = lapses \cup {call}

\* verifyCredential up to its first await: the envelope against its token,
\* then what each format rejects before it resolves the key.
Start(f) ==
    /\ pc \in {"idle", "done"}
    /\ f = "outer" => cred.enveloped
    /\ f = "context" => cred.format \in Canonical
    /\ f = "claims" => cred.format = "vc-jwt"
    /\ flaw' = f /\ began' = World /\ lapses' = {} /\ goal' = "signature"
    /\ IF f \in {"outer", "form"} THEN pc' = "done" /\ code' = "INVALID"
                                  ELSE pc' = "resolve" /\ code' = "none"
    /\ UNCHANGED <<cred, registry, world>>

\* A signature check that found no key: all but the compact JWS say "Unable
\* to resolve", which buildResult looks for.
Keyless == IF cred.format = "jws" THEN "INVALID" ELSE "UNRESOLVABLE"

\* jose rejects an SD-JWT VC outside its time; verifyVcJwt lets checkDates say.
JoseRejects == cred.format = "sd-jwt-vc" /\ clock # "valid"

\* The signature, then the dates, once the document was (not) found.
Judge(found) ==
    CASE ~found -> Answer(Keyless)
      [] found /\ flaw = "context" -> Answer("CONTEXT_MISSING")
      [] found /\ (flaw \in {"signature", "claims"} \/ JoseRejects) -> Answer("INVALID")
      [] found /\ flaw = "none" /\ ~JoseRejects ->
            CASE clock = "early" -> Answer("INVALID")
              [] clock = "late"  -> Answer("EXPIRED")
              [] clock = "valid" -> Proceed(0)

\* Mutant: a chain that reaches no trust anchor is let through.
JudgeChainAnyRoot(found) == IF found THEN Answer("VALID") ELSE Answer("INVALID")

\* checkX509Chain resolves the key a second time.
JudgeChain(found) == IF found /\ cred.chain = "anchored" THEN Answer("VALID") ELSE Answer("INVALID")

Found(found) == IF goal = "signature" THEN Judge(found) ELSE JudgeChain(found)

\* The did.json over HTTPS; a did:key holds its key itself.
Resolve ==
    /\ pc = "resolve"
    /\ \/ Found(cred.method = "key" \/ listed) /\ UNCHANGED lapses
       \/ /\ cred.method = "web" /\ Lapse("did")
          /\ IF registry = "off" THEN Found(FALSE)
                                 ELSE pc' = "fallback" /\ UNCHANGED <<goal, code>>
    /\ UNCHANGED <<cred, registry, world, flaw, began>>

\* DIDWebResolver asks DeDi, in the verifier's namespace, for the document on
\* the issuer's key records.
Fallback ==
    /\ pc = "fallback"
    /\ \/ Found(registry = "own" /\ key # "unrecorded") /\ UNCHANGED lapses
       \/ Found(FALSE) /\ Lapse("fallback")
    /\ UNCHANGED <<cred, registry, world, flaw, began>>

\* Mutant: an outage leaves the revocation "not checked" and passes.
CheckRevocationOpen ==
    /\ pc = "revocation"
    /\ \/ Proceed(Rank["revocation"]) /\ Lapse("revocation")
       \/ /\ UNCHANGED lapses
          /\ IF registry = "own" /\ record /\ Carried = "dedi"
               THEN Answer("REVOKED") ELSE Proceed(Rank["revocation"])
    /\ UNCHANGED <<cred, registry, world, flaw, began>>

\* A 404 is "not revoked"; everything else fails the check.
CheckRevocation ==
    /\ pc = "revocation"
    /\ \/ Answer("UNRESOLVABLE") /\ Lapse("revocation")
       \/ /\ UNCHANGED lapses
          /\ CASE registry = "nameless" -> Answer("UNRESOLVABLE")
               [] registry = "own" /\ record /\ Carried = "dedi" -> Answer("REVOKED")
               [] OTHER -> Proceed(Rank["revocation"])
    /\ UNCHANGED <<cred, registry, world, flaw, began>>

\* Mutant: a rotated key is rejected as a revoked one is.
CheckKeyStatusActive ==
    /\ pc = "keyStatus"
    /\ \/ Proceed(Rank["keyStatus"]) /\ Lapse("keyStatus")
       \/ /\ UNCHANGED lapses
          /\ IF KeyNamespace = "own" /\ key \in {"rotated", "revoked"}
               THEN Answer("REVOKED") ELSE Proceed(Rank["keyStatus"])
    /\ UNCHANGED <<cred, registry, world, flaw, began>>

\* A lapse, a 404 or a 400 leaves the key "not checked" and passes.
CheckKeyStatus ==
    /\ pc = "keyStatus"
    /\ \/ Proceed(Rank["keyStatus"]) /\ Lapse("keyStatus")
       \/ /\ UNCHANGED lapses
          /\ IF KeyNamespace = "own" /\ key = "revoked" THEN Answer("REVOKED")
                                                        ELSE Proceed(Rank["keyStatus"])
    /\ UNCHANGED <<cred, registry, world, flaw, began>>

\* Advisory: whatever it finds is a row of the answer and no more.
CheckRegistryAnchor ==
    /\ pc = "anchor"
    /\ Proceed(Rank["anchor"])
    /\ UNCHANGED <<cred, registry, world, flaw, began, lapses>>

\* A list that cannot be fetched, proved or read fails the check.
CheckBitstringStatusList ==
    /\ pc = "bitstring"
    /\ \/ Answer("UNRESOLVABLE") /\ Lapse("bitstring")
       \/ /\ IF bit THEN Answer("REVOKED") ELSE Proceed(Rank["bitstring"])
          /\ UNCHANGED lapses
    /\ UNCHANGED <<cred, registry, world, flaw, began>>

Next == \/ Tick \/ RevokeCredential \/ MoveKey \/ Unlist \/ SetBit
        \/ \E f \in Flaws : Start(f)
        \/ Resolve \/ Fallback
        \/ CheckRevocation \/ CheckKeyStatus \/ CheckRegistryAnchor
        \/ CheckBitstringStatusList

Spec == Init /\ [][Next]_vars

-----------------------------------------------------------------------------
(* Properties *)

Ended(c) == pc = "done" /\ code = c

\* VALID is said only of a presentation without a flaw, inside its time, whose
\* key was in the issuer's did.json when the verification began or on DeDi's
\* copy of it, and whose certificates, if any, reach a trust anchor: nothing
\* that happens between two awaits lets a check be missed.
ValidIsEarned ==
    Ended("VALID") => /\ flaw = "none"
                      /\ clock # "early" /\ began.clock # "late"
                      /\ \/ cred.method = "key" \/ began.listed
                         \/ registry = "own" /\ key # "unrecorded"
                      /\ cred.chain # "loose"

\* Fail closed: a credential whose record was live, or whose bit was set, when
\* the verification began is never VALID, whatever calls lapse, to a verifier
\* that looks in the issuer's namespace and is handed the status entry.
RevokedRejected ==
    Ended("VALID") => /\ ~(began.record /\ registry = "own" /\ Carried = "dedi")
                      /\ ~(began.bit /\ Carried = "bitstring")

\* A key that was revoked when the verification began rejects every credential
\* that names it and leads to the issuer's namespace, at a verifier of any
\* namespace: only a key-status call that lapsed lets one through.
KeyRejected ==
    /\ Ended("VALID") /\ began.key = "revoked" /\ NamesKey
    /\ cred.method = "web" \/ cred.status = "dedi" \/ registry = "own"
    => registry = "off" \/ "keyStatus" \in lapses

\* No answer blames the credential for something else: REVOKED only when
\* something was revoked, EXPIRED only past its time, CONTEXT_MISSING only for
\* a context, UNRESOLVABLE only when a call lapsed, the verifier has no
\* namespace or the key is not listed; and INVALID when the presentation or
\* the chain is at fault, it came too early, or a compact JWS or a chain found
\* no key; of an SD-JWT VC also when it came too late.  So a genuine credential
\* of which nothing was revoked is VALID when no call lapses, also when its key
\* was cleanly rotated or is in no registry.
RejectionsTrue ==
    /\ Ended("REVOKED") => record \/ bit \/ key = "revoked"
    /\ Ended("EXPIRED") => clock = "late"
    /\ Ended("CONTEXT_MISSING") => flaw = "context"
    /\ Ended("UNRESOLVABLE") => lapses # {} \/ registry = "nameless" \/ ~listed
    /\ pc = "done" => code \in Codes
    /\ Ended("INVALID") => \/ flaw # "none" \/ cred.chain = "loose" \/ began.clock = "early"
                           \/ cred.format = "sd-jwt-vc" /\ clock = "late"
                           \/ (cred.format = "jws" \/ cred.chain # "none")
                                /\ ("did" \in lapses \/ ~listed)

\* Once a credential was answered EXPIRED, or REVOKED by its record or bit, no
\* later verification answers VALID, whatever lapses then.
StaysRejected ==
    [](Ended("EXPIRED") \/ (Ended("REVOKED") /\ key # "revoked") => [](code # "VALID"))
=============================================================================
