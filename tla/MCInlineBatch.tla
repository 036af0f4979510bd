---------------------------- MODULE MCInlineBatch ----------------------------
(* InlineBatch for TLC: ticks, polls and the two fixed writers are model    *)
(* values; the other constants are set in each cfg.                         *)
EXTENDS InlineBatch
=============================================================================
