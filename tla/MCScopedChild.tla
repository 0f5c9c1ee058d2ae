----------------------------- MODULE MCScopedChild -----------------------------
(* Instances of ScopedChild for TLC. *)
EXTENDS ScopedChild
=============================================================================
