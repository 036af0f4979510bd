---------------------------- MODULE MCVerification ----------------------------
EXTENDS Verification

\* Every format with every status entry, method and chain it can have.
Presented == {c \in Shapes : /\ c.enveloped => c.format = "vc-jwt"
                             /\ c.chain # "none" => c.format \in Canonical}
=============================================================================
