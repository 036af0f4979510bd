---------------------------- MODULE MCDediCalls ----------------------------
(* DediCalls for TLC: one caller that may retry, one that may not.         *)
EXTENDS DediCalls
=============================================================================
