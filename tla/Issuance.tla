------------------------------ MODULE Issuance ------------------------------
(***************************************************************************)
(* One credential from the request to its verification: what the issue     *)
(* route of the server, or the desktop, signs in each proof format, the    *)
(* forms it then circulates in (a token taken out of its envelope, fewer   *)
(* disclosures, a certificate on paper, an export), the hash it is revoked *)
(* under, and what the verifier says of every form as time passes.         *)
(*                                                                         *)
(* Time is in half seconds, so that an ISO date may fall inside a second   *)
(* and a NumericDate may not.  A signature is what was signed.  The        *)
(* verifier is the server, configured with the namespace "home"; all its   *)
(* calls are answered (Verification has the calls that are not).           *)
(***************************************************************************)
EXTENDS Naturals, FiniteSets

CONSTANTS
    Claims,          \* the names of the subject's claims: none that JWT registers, but for
                     \* status, and neither credentialStatus nor credentialSubject
    Requests,        \* the requests the issuer may be given
    MaxWindow,       \* the longest validity window, resolveMaxValidityYears
    Horizon,         \* the last instant: the bound on time
    MaxRevocations   \* how often something is posted to be revoked: a bound

ProofFormats   == {"data-integrity", "jws-2020", "vc-jwt", "sd-jwt-vc"}
CanonicalFormats == {"data-integrity", "jws-2020"}

\* until = 0: no validUntil.  registry is the shape of revocationRegistryUrl,
\* space the namespace it spells out, configured the issuer's own ("none"
\* without one).  defined: the contexts define every term; typed: there is a
\* type to take the vct from; issuer "other": an issuerDid of the caller's.
\* term: the values of the subject's own claims validFrom and validUntil, where
\* it has them, as an insurance policy or a functional identity does.  A date in
\* the epoch's first second is left out: a token drops it.
RequestShapes ==
    [host : {"server", "desktop"}, format : ProofFormats, key : {"ec", "rsa"},
     issuer : {"own", "other"}, from : Nat \ {0, 1}, until : Nat \ {1},
     registry : {"none", "lookup", "query", "bare", "http"}, space : {"home", "away"},
     configured : {"home", "none"}, claims : SUBSET Claims, sealed : SUBSET Claims,
     term : [from : Nat \ {0}, until : Nat \ {0}],
     defined : BOOLEAN, typed : BOOLEAN]

ASSUME RequestAssumption ==
    /\ Requests \subseteq RequestShapes
    /\ \A r \in Requests : r.host = "desktop" => r.issuer = "own" /\ r.typed
    /\ MaxWindow \in Nat /\ Horizon \in Nat /\ MaxRevocations \in Nat

VARIABLES
    asked,     \* the request
    outcome,   \* "none", "issued" or "refused"
    issued,    \* what the issuer returned and keeps, once it did: at most one
    hand,      \* the form somebody holds now
    paper,     \* the certificate printed last
    now,       \* the time
    live,      \* the revocation records: <<namespace, hash>>
    revoked    \* history: <<namespace, what was posted to be revoked>>

issuanceVars == <<asked, outcome, issued, hand, paper, now, live, revoked>>

IssuanceInit ==
    /\ asked \in Requests /\ outcome = "none"
    /\ issued = {} /\ hand = {} /\ paper = {}
    /\ now = 0 /\ live = {} /\ revoked = {}

Floor(t) == t - (t % 2)

-----------------------------------------------------------------------------
(* What is built and signed.                                                *)

\* The namespace that credentialStatus.id points into: a lookup or query URL
\* names it, the server adds its own to a bare host, the desktop adds none.
StatusAt(r) ==
    CASE r.registry = "none" -> "none"
      [] r.registry = "bare" -> IF r.host = "server" THEN r.configured ELSE "nowhere"
      [] OTHER -> r.space

\* CredentialBuilder.build, the checks of the issue route around it, and the
\* signing that cannot be done.
Refused(r) ==
    \/ r.until # 0 /\ (r.until <= r.from \/ r.until > r.from + MaxWindow)
    \/ r.registry = "http"
    \/ r.registry = "bare" /\ r.host = "server" /\ r.configured = "none"
    \/ r.format = "sd-jwt-vc" /\ ~r.typed
    \/ r.format = "data-integrity" /\ r.key = "rsa"
    \/ r.format \in CanonicalFormats /\ ~r.defined

\* suite: the context of JsonWebSignature2020 is among its contexts.
Unsigned(r) == [issuer |-> r.issuer, from |-> r.from, until |-> r.until,
                status |-> StatusAt(r), claims |-> r.claims, term |-> r.term, suite |-> FALSE]

\* buildVcJwtClaims: the dates in whole seconds, the issuer and the dates out
\* of the vc claim.
VcJwt(doc) == [form |-> "token", iss |-> doc.issuer, nbf |-> Floor(doc.from), exp |-> Floor(doc.until),
               vc |-> [status |-> doc.status, claims |-> doc.claims]]

\* buildSdJwtVcPayload: the subject's claims alone, those to be disclosed
\* selectively as digests beside their disclosures, at the level of nbf and exp.
SdJwt(doc, sealed) == [form |-> "sd-jwt", iss |-> doc.issuer, nbf |-> Floor(doc.from),
                       exp |-> Floor(doc.until), term |-> doc.term, plain |-> doc.claims \ sealed,
                       digests |-> doc.claims \cap sealed, disclosed |-> doc.claims \cap sealed]

\* ensureJws2020Context: the document that is signed, and returned.
Prepared(doc) == [doc EXCEPT !.suite = TRUE]

Sign(r) ==
    LET doc == Unsigned(r) IN
    CASE r.format = "data-integrity" -> [form |-> "proof", doc |-> doc, signed |-> doc]
      [] r.format = "jws-2020" -> [form |-> "proof", doc |-> Prepared(doc), signed |-> Prepared(doc)]
      [] r.format = "vc-jwt" -> [form |-> "envelope", doc |-> doc, jwt |-> VcJwt(doc)]
      [] r.format = "sd-jwt-vc" -> SdJwt(doc, r.sealed)

-----------------------------------------------------------------------------
(* The hash of a credential.                                                *)

\* The status entry a form carries; the claims of an SD-JWT VC hold none, and
\* neither does the wrapper of an exported token.
Entry(c) == CASE c.form \in {"proof", "envelope"} -> c.doc.status
              [] c.form = "token" -> c.vc.status
              [] OTHER -> "none"

\* processDisclosures: the claims a verifier takes from an SD-JWT VC.
Resolved(c) == c.plain \cup (c.digests \cap c.disclosed)

\* What is hashed when there is no status entry: the document as a whole, the
\* vc claim of a token, the resolved claims of an SD-JWT VC.
Hashed(c) == CASE c.form = "token" -> c.vc
               [] c.form = "sd-jwt" -> [iss |-> c.iss, nbf |-> c.nbf, exp |-> c.exp, all |-> Resolved(c)]
               [] OTHER -> c

\* Mutant: a credential is always hashed as it is held.
HashOfWhole(c) == <<"canonical", Hashed(c)>>

\* resolveRevocationHash: the digest of the credential's UUID, from the path
\* of credentialStatus.id, else the canonical JSON's.
HashOf(c) == IF Entry(c) # "none" THEN <<"committed">> ELSE <<"canonical", Hashed(c)>>

-----------------------------------------------------------------------------
(* verifyCredential.                                                        *)

\* A proof names the signing key itself; a token's key is looked up under the
\* kid in the document of its iss.
KeyFound(c) == c.form = "proof" \/ c.iss = "own"

\* Mutant: the dates of the envelope are compared unrounded.
ConsistentExactly(doc, jwt) == /\ doc.issuer = jwt.iss
                               /\ doc.from = jwt.nbf /\ doc.until = jwt.exp
                               /\ [status |-> doc.status, claims |-> doc.claims] = jwt.vc

\* checkJwsEnvelopeConsistency.
Consistent(doc, jwt) == /\ doc.issuer = jwt.iss
                        /\ Floor(doc.from) = jwt.nbf /\ Floor(doc.until) = jwt.exp
                        /\ [status |-> doc.status, claims |-> doc.claims] = jwt.vc

\* The dates of a document and those of a token.  An SD-JWT VC without an exp
\* ends when its subject says, if the subject's claim is disclosed.
ValidFrom(c) == IF c.form \in {"proof", "envelope"} THEN c.doc.from ELSE c.nbf

ValidUntil(c) ==
    CASE c.form \in {"proof", "envelope"} -> c.doc.until
      [] c.form = "sd-jwt" /\ c.exp = 0 /\ "validUntil" \in Resolved(c) -> c.term.until
      [] OTHER -> c.exp

\* jose's own clock check, in whole seconds, with exp exclusive.  Its failure
\* is final for an SD-JWT VC and left to checkDates for a vc-jwt.
JoseAccepts(c) == /\ c.nbf <= Floor(now)
                  /\ c.exp # 0 => Floor(now) < c.exp

SignatureHolds(c) == CASE c.form = "proof" -> c.doc = c.signed
                       [] c.form = "sd-jwt" -> JoseAccepts(c)
                       [] OTHER -> TRUE

\* The format's verifier, then checkDates, then checkRevocation.
Judgement(c) ==
    CASE ~KeyFound(c) -> "UNRESOLVABLE"
      [] KeyFound(c) /\ ~SignatureHolds(c) -> "INVALID"
      [] KeyFound(c) /\ SignatureHolds(c) ->
            IF now < ValidFrom(c) THEN "INVALID"
            ELSE IF ValidUntil(c) # 0 /\ now > ValidUntil(c) THEN "EXPIRED"
            ELSE IF <<"home", HashOf(c)>> \in live THEN "REVOKED"
            ELSE "VALID"

\* An object without a proof is an error, an envelope is its token once the
\* two agree.
Verdict(c) == CASE c.form = "export" -> "ERROR"
                [] c.form = "envelope" -> IF Consistent(c.doc, c.jwt) THEN Judgement(c.jwt) ELSE "INVALID"
                [] OTHER -> Judgement(c)

-----------------------------------------------------------------------------
(* Certificates.                                                            *)

Objects == {"proof", "envelope", "export"}

\* Not promoted into the subject that is shown, though a subject may have it.
Reserved == {"status"}

\* attachDisclosures: the payload of an SD-JWT VC with what is disclosed.
Merged(c) == c.plain \cup c.disclosed

\* Mutant: every claim the issuer sealed is shown, its disclosure dropped or not.
ShownSealed(c) == CASE c.form \in {"proof", "envelope"} -> c.doc.claims
                    [] c.form = "token" -> c.vc.claims
                    [] c.form = "sd-jwt" -> (c.plain \cup c.digests) \ Reserved

\* The claims on the page: of a document its subject, of a token what
\* decodeCompactCredentialForDisplay makes of it.
Shown(c) == CASE c.form \in {"proof", "envelope"} -> c.doc.claims
              [] c.form = "token" -> c.vc.claims
              [] c.form = "sd-jwt" -> Merged(c) \ Reserved

\* buildVcShape: nbf and exp are the dates of the page only where the payload
\* of an SD-JWT VC has no claim of the name.
Printed(c) ==
    IF c.form # "sd-jwt" THEN [from |-> ValidFrom(c), until |-> ValidUntil(c)]
    ELSE [from  |-> IF "validFrom" \in Merged(c) THEN c.term.from ELSE c.nbf,
          until |-> IF "validUntil" \in Merged(c) THEN c.term.until ELSE c.exp]

\* generatePdf: the claims of the page, the dates it is printed with, and the
\* credential embedded in it and in its QR.
Certificate(c) == [claims |-> Shown(c), from |-> Printed(c).from, until |-> Printed(c).until,
                   carried |-> c]

-----------------------------------------------------------------------------
(* Issuing, time, the forms and revocation.                                 *)

Issue ==
    /\ outcome = "none"
    /\ IF Refused(asked)
       THEN outcome' = "refused" /\ UNCHANGED <<issued, hand>>
       ELSE outcome' = "issued" /\ issued' = {Sign(asked)} /\ hand' = {Sign(asked)}
    /\ UNCHANGED <<asked, paper, now, live, revoked>>

TimePasses == /\ now < Horizon /\ now' = now + 1
        /\ UNCHANGED <<asked, outcome, issued, hand, paper, live, revoked>>

Become(form) == /\ hand' = {form}
                /\ UNCHANGED <<asked, outcome, issued, paper, now, live, revoked>>

\* A holder presents the signed token without its envelope.
Unwrap == \E c \in hand : c.form = "envelope" /\ Become(c.jwt)

\* A holder leaves a disclosure out.
Redact == \E c \in hand : /\ c.form = "sd-jwt"
                          /\ \E d \in c.disclosed : Become([c EXCEPT !.disclosed = @ \ {d}])

\* exportAsJson wraps a token; a document is exported as it is.
Export == \E c \in hand : /\ c.form \in {"token", "sd-jwt"}
                          /\ Become([form |-> "export", credential |-> c])

\* packageCredential, of a form a certificate can be made of.
Certify == \E c \in hand : /\ c.form # "export"
                           /\ paper' = {Certificate(c)}
                           /\ UNCHANGED <<asked, outcome, issued, hand, now, live, revoked>>

\* The QR is scanned, or the PDF read: the embedded value is decoded into what
\* was embedded.
Scan == \E p \in paper : p.carried \notin hand /\ Become(p.carried)

\* The revoke route takes an object, the desktop queues the hash of one; a
\* token cannot be posted.
Revoke == \E c \in issued \cup hand, space \in {"home", "away"} :
    /\ Cardinality(revoked) < MaxRevocations
    /\ c.form \in Objects
    /\ <<space, HashOf(c)>> \notin live
    /\ live' = live \cup {<<space, HashOf(c)>>}
    /\ revoked' = revoked \cup {<<space, c>>}
    /\ UNCHANGED <<asked, outcome, issued, hand, paper, now>>

IssuanceNext == Issue \/ TimePasses \/ Unwrap \/ Redact \/ Export \/ Certify \/ Scan \/ Revoke

IssuanceSpec == IssuanceInit /\ [][IssuanceNext]_issuanceVars

-----------------------------------------------------------------------------
(* Properties.                                                              *)

Forms == issued \cup hand \cup {p.carried : p \in paper}

\* Forms the verifier can find the key for: a token says who to ask.
Attributed(c) == c.form # "export" /\ (asked.issuer = "own" \/ c.form = "proof")

\* An SD-JWT VC whose subject has a date of its own and discloses it.
Own(name, c) == c.form = "sd-jwt" /\ name \in Resolved(c)

\* One asked for without an end, past the end its subject discloses.
TermOver(c) == asked.until = 0 /\ Own("validUntil", c) /\ asked.term.until < now

\* Whatever the format and whatever form it took on the way, a credential that
\* verifies is within the dates it was asked for, to the second its token
\* rounds down to; one that is within them in whole seconds, and that nobody
\* revoked, verifies; and it is called expired only past its last second.  An
\* SD-JWT VC asked for without an end is judged by the one its subject
\* discloses instead (credential-builder.ts:239 against vc-jwt-signing.ts:16,
\* vc-jwt.ts:105, sd-jwt-vc.ts:467 and checks.ts:23, which read the same dates).
VerdictsTrue == \A c \in Forms :
    /\ Verdict(c) = "VALID" => /\ Floor(asked.from) <= now
                               /\ asked.until # 0 => now <= asked.until
                               /\ ~TermOver(c)
    /\ /\ Attributed(c) /\ live = {}
       /\ asked.from <= now
       /\ asked.until # 0 => now < Floor(asked.until)
       => Verdict(c) = IF TermOver(c) THEN "EXPIRED" ELSE "VALID"
    /\ Verdict(c) = "EXPIRED" => \/ asked.until # 0 /\ Floor(asked.until) < now
                                 \/ TermOver(c)

\* Revoking any form that carries the status entry reaches every form that
\* carries it, its token in and out of the envelope and the certificate's;
\* and a form is called revoked only when it, or one with its entry, was
\* revoked in the verifier's namespace (jcs.ts:75, computed apart by the route
\* that issues, the one that revokes and the one that verifies).
RevocationReaches == \A c \in Forms :
    /\ Entry(c) # "none" /\ (\E e \in revoked : e[1] = "home" /\ Entry(e[2]) # "none")
       => Verdict(c) # "VALID"
    /\ Verdict(c) = "REVOKED"
       => \E e \in revoked : e[1] = "home" /\ (e[2] = c \/ (Entry(e[2]) # "none" /\ Entry(c) # "none"))

\* What a certificate shows is what the credential in it proves: no claim whose
\* disclosure was dropped, none left out but a reserved name, and dates that
\* hold whenever it verifies.  The certificate of an SD-JWT VC has the subject's
\* own dates where it proves them: its start need not have come, and its end
\* may have passed if another end was asked for (decode-for-display.ts:151 and
\* :285 against sd-jwt-vc.ts:131 and :463, two readings of one token).
ShownIsProved == \A p \in paper : LET c == p.carried IN
    /\ c.form = "sd-jwt" => p.claims = Resolved(c) \ Reserved
    /\ c.form # "sd-jwt" => p.claims = asked.claims
    /\ Own("validFrom", c) => p.from = asked.term.from
    /\ Own("validUntil", c) => p.until = asked.term.until
    /\ Verdict(c) = "VALID" =>
         /\ Floor(p.from) <= now \/ Own("validFrom", c)
         /\ p.until = 0 \/ now <= p.until \/ (Own("validUntil", c) /\ asked.until # 0)
=============================================================================
