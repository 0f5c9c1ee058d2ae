-------------------------- MODULE MCManualResetEvent --------------------------
(* Instances of ManualResetEvent for TLC. *)
EXTENDS ManualResetEvent
=============================================================================
