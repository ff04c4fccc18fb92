----------------------------- MODULE MCRedDesk -----------------------------
(* Finite instances of RedDesk for TLC. *)
EXTENDS RedDesk, TLC

RequestsAndVersions == Permutations(Requests) \cup Permutations(Versions)
=============================================================================
