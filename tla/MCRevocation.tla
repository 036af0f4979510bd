--------------------------- MODULE MCRevocation ---------------------------
(* Requests and spellings are model values; the bounds are in each cfg.    *)
EXTENDS Revocation
=============================================================================
