---------------------------- MODULE MCQueueBatch ----------------------------
(* QueueBatch for TLC.  Workers are interchangeable, but worker.cfg checks  *)
(* liveness, for which symmetry is not sound.                              *)
EXTENDS QueueBatch
=============================================================================
