----------------------------- MODULE MCIssuance -----------------------------
EXTENDS Issuance

\* A subject may have a claim of a reserved name, as PrescriptionSubject has, and
\* dates of its own, as FunctionalIdentitySubject has.
Usual == {"name", "grade", "status"}
Terms == {"validFrom", "validUntil"}
Names == Usual \cup Terms

\* Dates on and off a second, in one second, out of order and too far apart.
Dates == {<<2, 0>>, <<3, 0>>, <<2, 3>>, <<3, 5>>, <<3, 6>>, <<2, 7>>, <<4, 4>>, <<4, 2>>, <<2, 11>>}

Plain == [host |-> "server", format |-> "vc-jwt", key |-> "ec", issuer |-> "own", from |-> 3, until |-> 7,
          registry |-> "lookup", space |-> "home", configured |-> "home", claims |-> Usual,
          sealed |-> {"name"}, term |-> [from |-> 4, until |-> 5], defined |-> TRUE, typed |-> TRUE]

\* Every format from either host, with each of the dates.
Dated == {[Plain EXCEPT !.format = f, !.host = h, !.from = d[1], !.until = d[2]] :
            f \in ProofFormats, h \in {"server", "desktop"}, d \in Dates}

\* With each kind of registry URL, for this verifier or for another.
Listed == {[Plain EXCEPT !.format = f, !.host = h, !.registry = r, !.space = n, !.configured = c] :
            f \in ProofFormats, h \in {"server", "desktop"}, r \in {"none", "lookup", "query", "bare", "http"},
            n \in {"home", "away"}, c \in {"home", "none"}}

\* With another key, issuer, context, type and disclosures.
Odd == {[Plain EXCEPT !.format = f, !.key = k, !.issuer = i, !.defined = d, !.typed = t, !.sealed = s] :
          f \in ProofFormats, k \in {"ec", "rsa"}, i \in {"own", "other"}, d \in BOOLEAN, t \in BOOLEAN,
          s \in {{}, {"grade"}, {"grade", "status"}}}

\* With the subject's own dates, inside and outside those asked for, on and off a
\* second, sealed or not.
Termed == {[Plain EXCEPT !.format = f, !.until = u, !.claims = {"name"} \cup t, !.sealed = s,
                         !.term = [from |-> d[1], until |-> d[2]]] :
             f \in ProofFormats, u \in {0, 7}, t \in SUBSET Terms, s \in SUBSET Terms,
             d \in {<<2, 5>>, <<7, 8>>, <<4, 6>>}}

AllRequests == Dated \cup Listed \cup Odd \cup Termed
=============================================================================
