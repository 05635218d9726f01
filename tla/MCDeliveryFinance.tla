------------------------- MODULE MCDeliveryFinance -------------------------
(* Two earnings of one driver, one of another, and two racing requests.     *)
EXTENDS DeliveryFinance, TLC

CONSTANTS e1, e2, e3, d1, d2, o1

MCOwner  == (e1 :> d1) @@ (e2 :> d1) @@ (e3 :> d2)
MCAmount == (e1 :> 1) @@ (e2 :> 2) @@ (e3 :> 2)
MCPrice  == (o1 :> 2)

MCSymmetry == Permutations(Calls) \cup Permutations(Requests)
=============================================================================
