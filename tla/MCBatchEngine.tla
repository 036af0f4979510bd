--------------------------- MODULE MCBatchEngine ---------------------------
(* The streaming engine with three rows on two workers.            *)
EXTENDS BatchEngine
=============================================================================
