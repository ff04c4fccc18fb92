----------------------------- MODULE MCResearch -----------------------------
(* Finite instances of Research for TLC. *)
EXTENDS Research, TLC

RequestSymmetry == Permutations(Clients) \cup Permutations(Ids)
=============================================================================
