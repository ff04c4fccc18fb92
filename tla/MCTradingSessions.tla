------------------------ MODULE MCTradingSessions ------------------------
(* Finite instances of TradingSessions for TLC. *)
EXTENDS TradingSessions, TLC

CONSTANTS o1, o2

(* Next-bar execution over two records: o1 is submitted at the first and   *)
(* fills at the second; o2 is submitted at the second and fills when the   *)
(* final slice closes.                                                     *)
TwoOrders == {o1, o2}
NextBarSubmit == (o1 :> 1) @@ (o2 :> 2)
NextBarFill == (o1 :> 2) @@ (o2 :> 3)

(* Over three records: o1 is written working at the second and fills at    *)
(* the third, o2 fills when the final slice closes.                        *)
LateSubmit == (o1 :> 1) @@ (o2 :> 3)
BookFill == (o1 :> 3) @@ (o2 :> 4)

RequestSymmetry == Permutations(Clients)
=============================================================================
