--------------------------- MODULE MCTaskScheduling ---------------------------
(* Instances of TaskScheduling for TLC. *)
EXTENDS TaskScheduling
=============================================================================
