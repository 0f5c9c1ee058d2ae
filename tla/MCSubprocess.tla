----------------------------- MODULE MCSubprocess -----------------------------
(* Instances of Subprocess for TLC. *)
EXTENDS Subprocess
=============================================================================
