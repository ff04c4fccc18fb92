---------------------------- MODULE MCAuditChain ----------------------------
(* Finite instances of AuditChain for TLC. *)
EXTENDS AuditChain

=============================================================================
