----------------------------- MODULE MCDelivery -----------------------------
(* One order with a pickup location and one without, or one alone.         *)
EXTENDS Delivery, TLC

MCSymmetry == Permutations(Drivers)
              \cup Permutations(Codes) \cup Permutations(Viewers)
=============================================================================
