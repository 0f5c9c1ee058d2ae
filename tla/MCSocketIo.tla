------------------------------ MODULE MCSocketIo ------------------------------
(* Instances of SocketIo for TLC. *)
EXTENDS SocketIo
=============================================================================
