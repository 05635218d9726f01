--------------------------- MODULE OrderLifecycle ---------------------------
(***************************************************************************)
(* What the platform promises about an order, whoever acts on it: where it *)
(* stands, who holds the goods and where the buyer's money is.  The money  *)
(* is held from payment until it is either earned by the driver who        *)
(* delivered or refunded after a return; the goods leave the farm with one *)
(* driver and reach the buyer, or come back, with him.  OrderPayment and   *)
(* Delivery implement it.                                                  *)
(***************************************************************************)
CONSTANTS Orders, Drivers, AtFarm, AtBuyer   \* the last two are no driver

VARIABLES stage, money, goods

vars == <<stage, money, goods>>

InProgress == {"processing", "shipped"}

\* An order already under way when the system is first observed is paid for.
Init ==
  /\ stage \in [Orders -> {"none", "pending"} \cup InProgress]
  /\ money = [o \in Orders |-> IF stage[o] \in InProgress THEN "held" ELSE "none"]
  /\ goods \in [Orders -> Drivers \cup {AtFarm}]
  /\ \A o \in Orders : goods[o] = AtFarm <=> stage[o] # "shipped"

Move(o, from, to) == stage[o] \in from /\ stage' = [stage EXCEPT ![o] = to]

Place(o)   == Move(o, {"none"}, "pending") /\ UNCHANGED <<money, goods>>
Abandon(o) == Move(o, {"pending"}, "cancelled") /\ UNCHANGED <<money, goods>>
Accept(o)  == Move(o, {"paid"}, "processing") /\ UNCHANGED <<money, goods>>

Pay(o) ==
  /\ Move(o, {"pending"}, "paid")
  /\ money' = [money EXCEPT ![o] = "held"]
  /\ UNCHANGED goods

Collect(o, d) ==
  /\ Move(o, {"processing"}, "shipped")
  /\ goods' = [goods EXCEPT ![o] = d]
  /\ UNCHANGED money

Deliver(o) ==
  /\ Move(o, {"shipped"}, "delivered")
  /\ money[o] = "held"
  /\ money' = [money EXCEPT ![o] = "earned"]
  /\ goods' = [goods EXCEPT ![o] = AtBuyer]

Return(o) ==
  /\ Move(o, InProgress, "cancelled")
  /\ goods' = [goods EXCEPT ![o] = AtFarm]
  /\ UNCHANGED money

Refund(o) ==
  /\ stage[o] = "cancelled"
  /\ money[o] = "held"
  /\ money' = [money EXCEPT ![o] = "refunded"]
  /\ UNCHANGED <<stage, goods>>

Next ==
  \E o \in Orders : \/ Place(o) \/ Abandon(o) \/ Pay(o) \/ Accept(o)
                    \/ \E d \in Drivers : Collect(o, d)
                    \/ Deliver(o) \/ Return(o) \/ Refund(o)

Spec == Init /\ [][Next]_vars
=============================================================================
