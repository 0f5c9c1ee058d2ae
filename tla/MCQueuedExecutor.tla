--------------------------- MODULE MCQueuedExecutor ---------------------------
(* Instances of QueuedExecutor for TLC. *)
EXTENDS QueuedExecutor
=============================================================================
