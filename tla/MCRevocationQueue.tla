------------------------- MODULE MCRevocationQueue -------------------------
(* One credential per item; which items carry a hash is for the run to say.*)
EXTENDS RevocationQueue

CONSTANTS i1, i2, i3, c1, c2

Separate == [i \in Items |-> IF i = i1 THEN c1 ELSE c2]
=============================================================================
