--------------------------- MODULE MCOrderPayment ---------------------------
(* Two orders of one buyer that compete for one farmer's stock.             *)
EXTENDS OrderPayment, TLC

CONSTANTS o1, o2, p1, p2, b1, f1

MCBuyer == (o1 :> b1) @@ (o2 :> b1)

\* Both orders want the last unit of p1.
MCCart   == (o1 :> (p1 :> 1)) @@ (o2 :> (p1 :> 1))
MCFarmer == (p1 :> f1)
MCStock  == (p1 :> 1)

\* The second item of o1 is the only item of o2: whoever settles last fails
\* after its first item has been decremented.
MCCart2   == (o1 :> (p1 :> 1 @@ p2 :> 1)) @@ (o2 :> (p1 :> 0 @@ p2 :> 1))
MCFarmer2 == (p1 :> f1) @@ (p2 :> f1)
MCStock2  == (p1 :> 1) @@ (p2 :> 1)

MCSymmetry == Permutations(Calls) \cup Permutations(Refs)
=============================================================================
