----------------------------- MODULE MCRecovery -----------------------------
(* Finite instances of Recovery for TLC. *)
EXTENDS Recovery
=============================================================================
