----------------------------- MODULE MCBrokers -----------------------------
(* Finite instances of Brokers for TLC. *)
EXTENDS Brokers, TLC

(* 05:30 and 06:00 IST, midnight IST, and 06:00 IST of the next day, in    *)
(* half hours of UTC.                                                      *)
TwoMornings == {0, 1, 37, 49}

AnyRequest == Permutations(Requests)
=============================================================================
