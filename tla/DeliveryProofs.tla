--------------------------- MODULE DeliveryProofs ---------------------------
(***************************************************************************)
(* Safety of Delivery for every number of orders, transporters, codes and  *)
(* requests.  IInv is inductive: the properties of Delivery say nothing of *)
(* what a document must contain for its next operation to be right, which  *)
(* the first three conjuncts add.                                          *)
(***************************************************************************)
EXTENDS Delivery, TLAPS

\* A shipment document names a driver from the moment it exists, and an issue
\* is resolved only after it was recorded.
DocumentsOK ==
  \A o \in Orders :
    /\ ship[o].status = "none" <=> ship[o].driver \notin Drivers
    /\ ship[o].status = "failed" /\ ship[o].resolved => ship[o].stage # "none"

\* The payment is settled exactly when the order has left the drafts.
PaymentsOK ==
  \A o \in Orders : /\ payment[o] = "none" <=> order[o] = "pending"
                    /\ payment[o] = "refunded" => order[o] = "cancelled"

\* The profile's suspension mirrors the account.
AccountsOK == \A d \in Drivers : driver[d].suspended = ~driver[d].isActive

\* What the documents of one order say of each other.
Coherent == /\ DocumentsOK
            /\ PaymentsOK
            /\ OrderMatchesShipment
            /\ EarnedOrRefunded
            /\ LockoutSound

IInv == /\ TypeOK
        /\ AccountsOK
        /\ Coherent
        /\ OneActiveDelivery
        /\ SuspendedHoldsNothing

-----------------------------------------------------------------------------
\* The list's filter and the claim's differ in form only: whatever the state,
\* no listed offer is refused for a reason the server already knows.
LEMMA OffersAreClaimable == OffersClaimable
  BY DEF OffersClaimable, FindAvailable, Claimable, Busy

\* A step that writes one shipment leaves the others alone.
LEMMA OneShipment ==
  ASSUME TypeOK, NEW o \in Orders, NEW s \in Shipment, ship' = [ship EXCEPT ![o] = s]
  PROVE  /\ ship' \in [Orders -> Shipment]
         /\ ship'[o] = s
         /\ \A q \in Orders \ {o} : ship'[q] = ship[q]
  BY DEF TypeOK

\* Claiming an order keeps the invariant: the driver was not busy.
LEMMA ClaimStep ==
  ASSUME IInv, NEW o \in Orders, NEW d \in Drivers, Claim(o, d)
  PROVE  IInv'
<1> DEFINE s == NewShipment(d, "assigned", NoCode)
<1>1. /\ s \in Shipment /\ s.status = "assigned" /\ s.driver = d /\ s.stage = "none"
      /\ s.failures = 0 /\ s.blocked = "no" /\ s.resolved = FALSE
  BY FailureAssumption DEF NewShipment, Shipment, ShipmentStatus, ACTIVE
<1>2. /\ ship' \in [Orders -> Shipment]
      /\ ship'[o] = s
      /\ \A q \in Orders \ {o} : ship'[q] = ship[q]
  BY <1>1, OneShipment DEF Claim, IInv
<1> HIDE DEF s
<1>3. TypeOK'
  BY <1>1, <1>2 DEF IInv, TypeOK, Claim, OrderStatus
<1>4. AccountsOK'
  BY DEF IInv, AccountsOK, Claim
<1>5. Coherent'
  BY <1>1, <1>2, NullAssumption, FailureAssumption DEF IInv, TypeOK, Claim, Claimable,
     Coherent, DocumentsOK, PaymentsOK,
     OrderMatchesShipment, EarnedOrRefunded, LockoutSound, Custody
<1>6. OneActiveDelivery'
  BY <1>1, <1>2 DEF IInv, OneActiveDelivery, IsActive, Custody, ACTIVE, Claim, Claimable, Busy
<1>7. SuspendedHoldsNothing'
  BY <1>1, <1>2 DEF IInv, SuspendedHoldsNothing, AccountsOK, Busy, IsActive, Custody, ACTIVE, Claim, Claimable, Busy
<1>q. QED
  BY <1>3, <1>4, <1>5, <1>6, <1>7 DEF IInv

\* Reassignment: the goods are at the farm and the new driver is free.
LEMMA ReassignStep ==
  ASSUME IInv, NEW o \in Orders, NEW d \in Drivers, Reassign(o, d)
  PROVE  IInv'
<1>0. PICK c \in Codes : ship' = [ship EXCEPT ![o] = NewShipment(d, "assigned", c)]
  BY DEF Reassign
<1> DEFINE s == NewShipment(d, "assigned", c)
<1>1. /\ s \in Shipment /\ s.status = "assigned" /\ s.driver = d /\ s.stage = "none"
      /\ s.failures = 0 /\ s.blocked = "no" /\ s.resolved = FALSE
  BY FailureAssumption DEF NewShipment, Shipment, ShipmentStatus, ACTIVE
<1>2. /\ ship' \in [Orders -> Shipment]
      /\ ship'[o] = s
      /\ \A q \in Orders \ {o} : ship'[q] = ship[q]
  BY <1>0, <1>1, OneShipment DEF IInv
<1> HIDE DEF s
<1>3. TypeOK'
  BY <1>1, <1>2 DEF IInv, TypeOK, Reassign, OrderStatus
<1>4. AccountsOK'
  BY DEF IInv, AccountsOK, Reassign
<1>5. Coherent'
  BY <1>1, <1>2, NullAssumption, FailureAssumption DEF IInv, TypeOK, Reassign, Reassignable,
     Coherent, DocumentsOK, PaymentsOK,
     OrderMatchesShipment, EarnedOrRefunded, LockoutSound, Custody
<1>6. OneActiveDelivery'
  BY <1>1, <1>2 DEF IInv, OneActiveDelivery, IsActive, Custody, ACTIVE, Reassign, BusyElsewhere
<1>7. SuspendedHoldsNothing'
  BY <1>1, <1>2 DEF IInv, SuspendedHoldsNothing, AccountsOK, Busy, IsActive, Custody, ACTIVE, Reassign, BusyElsewhere
<1>q. QED
  BY <1>3, <1>4, <1>5, <1>6, <1>7 DEF IInv

\* Pickup and start of transit: the driver and his being busy do not change.
LEMMA UpdateStatusStep ==
  ASSUME IInv, NEW o \in Orders, UpdateStatus(o)
  PROVE  IInv'
<1>0. PICK t \in Custody : /\ ship' = [ship EXCEPT ![o].status = t]
                             /\ ship[o].status \in ACTIVE
                             /\ order' = [order EXCEPT ![o] = "shipped"]
                             /\ UNCHANGED <<payment, earning>>
  <2>1. CASE ship[o].status = "assigned"
    BY <2>1 DEF UpdateStatus, NEXT_SHIPMENT_STATUSES, Custody, ACTIVE
  <2>2. CASE ship[o].status = "picked_up"
    BY <2>2 DEF UpdateStatus, NEXT_SHIPMENT_STATUSES, Custody, ACTIVE
  <2>q. QED
    BY <2>1, <2>2 DEF UpdateStatus, NEXT_SHIPMENT_STATUSES
<1> DEFINE s == [ship[o] EXCEPT !.status = t]
<1>1. /\ s \in Shipment /\ s.status = t /\ s.driver = ship[o].driver
      /\ s.failures = ship[o].failures /\ s.blocked = ship[o].blocked
  BY <1>0 DEF IInv, TypeOK, Shipment, ShipmentStatus, ACTIVE, Custody
<1>2. /\ ship' \in [Orders -> Shipment]
      /\ ship'[o] = s
      /\ \A q \in Orders \ {o} : ship'[q] = ship[q]
  BY <1>0, <1>1, OneShipment DEF IInv
<1> HIDE DEF s
<1>3. TypeOK'
  BY <1>1, <1>2, <1>0 DEF IInv, TypeOK, UpdateStatus, OrderStatus
<1>4. AccountsOK'
  BY DEF IInv, AccountsOK, UpdateStatus
<1>5. Coherent'
  BY <1>1, <1>2, NullAssumption, FailureAssumption, <1>0 DEF IInv, TypeOK, ACTIVE,
     Coherent, DocumentsOK, PaymentsOK,
     OrderMatchesShipment, EarnedOrRefunded, LockoutSound, Custody
<1>6. OneActiveDelivery'
  BY <1>1, <1>2, <1>0 DEF IInv, OneActiveDelivery, IsActive, Custody, ACTIVE, UpdateStatus
<1>7. SuspendedHoldsNothing'
  BY <1>1, <1>2, <1>0 DEF IInv, SuspendedHoldsNothing, AccountsOK, Busy, IsActive, Custody, ACTIVE, UpdateStatus
<1>q. QED
  BY <1>3, <1>4, <1>5, <1>6, <1>7 DEF IInv

\* The end of a block touches nothing but the block.
LEMMA BlockExpiresStep ==
  ASSUME IInv, NEW o \in Orders, BlockExpires(o)
  PROVE  IInv'
<1> DEFINE s == [ship[o] EXCEPT !.blocked = "expired"]
<1>1. /\ s \in Shipment /\ s.status = ship[o].status /\ s.driver = ship[o].driver
      /\ s.stage = ship[o].stage /\ s.resolved = ship[o].resolved
      /\ s.failures = ship[o].failures /\ s.blocked = "expired"
  BY DEF IInv, TypeOK, Shipment
<1>2. /\ ship' \in [Orders -> Shipment]
      /\ ship'[o] = s
      /\ \A q \in Orders \ {o} : ship'[q] = ship[q]
  BY <1>1, OneShipment DEF BlockExpires, IInv
<1> HIDE DEF s
<1>3. TypeOK'
  BY <1>1, <1>2 DEF IInv, TypeOK, BlockExpires, OrderStatus
<1>4. AccountsOK'
  BY DEF IInv, AccountsOK, BlockExpires
<1>5. Coherent'
  BY <1>1, <1>2, NullAssumption, FailureAssumption DEF IInv, TypeOK, BlockExpires,
     Coherent, DocumentsOK, PaymentsOK,
     OrderMatchesShipment, EarnedOrRefunded, LockoutSound, Custody
<1>6. OneActiveDelivery'
  BY <1>1, <1>2 DEF IInv, OneActiveDelivery, IsActive, Custody, ACTIVE, BlockExpires
<1>7. SuspendedHoldsNothing'
  BY <1>1, <1>2 DEF IInv, SuspendedHoldsNothing, AccountsOK, Busy, IsActive, Custody, ACTIVE, BlockExpires
<1>q. QED
  BY <1>3, <1>4, <1>5, <1>6, <1>7 DEF IInv

\* Reporting an issue never makes the driver busier.
LEMMA IssueStep ==
  ASSUME IInv, NEW o \in Orders, Issue(o)
  PROVE  IInv'
<1> DEFINE s == [ship[o] EXCEPT !.stage = ship[o].status, !.resolved = FALSE, !.status = "failed"]
<1>1. /\ s \in Shipment /\ s.status = "failed" /\ s.driver = ship[o].driver
      /\ s.stage = ship[o].status /\ s.resolved = FALSE
      /\ s.failures = ship[o].failures /\ s.blocked = ship[o].blocked
  BY DEF IInv, TypeOK, Issue, Shipment, ShipmentStatus
<1>2. /\ ship' \in [Orders -> Shipment]
      /\ ship'[o] = s
      /\ \A q \in Orders \ {o} : ship'[q] = ship[q]
  <2>1. ship' = [ship EXCEPT ![o] = s]
    BY DEF Issue, IInv, TypeOK
  <2>q. QED
    BY <1>1, <2>1, OneShipment DEF IInv
<1> HIDE DEF s
<1>3. TypeOK'
  BY <1>1, <1>2 DEF IInv, TypeOK, Issue, OrderStatus
<1>4. AccountsOK'
  BY DEF IInv, AccountsOK, Issue
<1>5. Coherent'
  BY <1>1, <1>2, NullAssumption, FailureAssumption DEF IInv, TypeOK, Issue, ACTIVE,
     Coherent, DocumentsOK, PaymentsOK,
     OrderMatchesShipment, EarnedOrRefunded, LockoutSound, Custody
<1>6. OneActiveDelivery'
  BY <1>1, <1>2 DEF IInv, OneActiveDelivery, IsActive, Custody, ACTIVE, Issue
<1>7. SuspendedHoldsNothing'
  BY <1>1, <1>2 DEF IInv, SuspendedHoldsNothing, AccountsOK, Busy, IsActive, Custody, ACTIVE, Issue
<1>q. QED
  BY <1>3, <1>4, <1>5, <1>6, <1>7 DEF IInv

\* A retry makes the driver busy again, after checking that he is free.
LEMMA RetryDeliveryStep ==
  ASSUME IInv, NEW o \in Orders, RetryDelivery(o)
  PROVE  IInv'
<1> DEFINE s == [ship[o] EXCEPT !.status = IF ship[o].stage = "assigned" THEN "assigned" ELSE "in_transit",
                              !.resolved = TRUE]
<1>1. /\ s \in Shipment /\ s.driver = ship[o].driver /\ s.stage = ship[o].stage
      /\ s.status = (IF ship[o].stage = "assigned" THEN "assigned" ELSE "in_transit")
      /\ s.failures = ship[o].failures /\ s.blocked = ship[o].blocked
  BY DEF IInv, TypeOK, Shipment, ShipmentStatus, ACTIVE, Custody
<1>2. /\ ship' \in [Orders -> Shipment]
      /\ ship'[o] = s
      /\ \A q \in Orders \ {o} : ship'[q] = ship[q]
  <2>1. ship' = [ship EXCEPT ![o] = s]
    BY DEF RetryDelivery, IInv, TypeOK
  <2>q. QED
    BY <1>1, <2>1, OneShipment DEF IInv
<1> HIDE DEF s
<1>3. TypeOK'
  BY <1>1, <1>2 DEF IInv, TypeOK, RetryDelivery, OrderStatus
<1>4. AccountsOK'
  BY DEF IInv, AccountsOK, RetryDelivery
<1>5. Coherent'
  BY <1>1, <1>2, NullAssumption, FailureAssumption DEF IInv, TypeOK, RetryDelivery, HasOpenIssue,
     Coherent, DocumentsOK, PaymentsOK,
     OrderMatchesShipment, EarnedOrRefunded, LockoutSound, Custody
<1>6. OneActiveDelivery'
  BY <1>1, <1>2 DEF IInv, OneActiveDelivery, IsActive, Custody, ACTIVE, RetryDelivery, BusyElsewhere
<1>7. SuspendedHoldsNothing'
  BY <1>1, <1>2 DEF IInv, SuspendedHoldsNothing, AccountsOK, Busy, IsActive, Custody, ACTIVE, RetryDelivery, BusyElsewhere
<1>q. QED
  BY <1>3, <1>4, <1>5, <1>6, <1>7 DEF IInv

\* A return ends the delivery.
LEMMA ReturnToFarmerStep ==
  ASSUME IInv, NEW o \in Orders, ReturnToFarmer(o)
  PROVE  IInv'
<1> DEFINE s == [ship[o] EXCEPT !.resolved = TRUE,
                              !.stage = IF ship[o].stage = "none" THEN "in_transit" ELSE ship[o].stage]
<1>1. /\ s \in Shipment /\ s.driver = ship[o].driver /\ s.stage # "none"
      /\ s.status = ship[o].status /\ s.resolved = TRUE
      /\ s.failures = ship[o].failures /\ s.blocked = ship[o].blocked
  BY DEF IInv, TypeOK, Shipment, ACTIVE, Custody
<1>2. /\ ship' \in [Orders -> Shipment]
      /\ ship'[o] = s
      /\ \A q \in Orders \ {o} : ship'[q] = ship[q]
  <2>1. ship' = [ship EXCEPT ![o] = s]
    BY DEF ReturnToFarmer, IInv, TypeOK
  <2>q. QED
    BY <1>1, <2>1, OneShipment DEF IInv
<1> HIDE DEF s
<1>3. TypeOK'
  BY <1>1, <1>2 DEF IInv, TypeOK, ReturnToFarmer, OrderStatus
<1>4. AccountsOK'
  BY DEF IInv, AccountsOK, ReturnToFarmer
<1>5. Coherent'
  BY <1>1, <1>2, NullAssumption, FailureAssumption DEF IInv, TypeOK, ReturnToFarmer, HasOpenIssue, LegacyIssue,
     Coherent, DocumentsOK, PaymentsOK,
     OrderMatchesShipment, EarnedOrRefunded, LockoutSound, Custody
<1>6. OneActiveDelivery'
  BY <1>1, <1>2 DEF IInv, OneActiveDelivery, IsActive, Custody, ACTIVE, ReturnToFarmer, HasOpenIssue, LegacyIssue
<1>7. SuspendedHoldsNothing'
  BY <1>1, <1>2 DEF IInv, SuspendedHoldsNothing, AccountsOK, Busy, IsActive, Custody, ACTIVE, ReturnToFarmer, HasOpenIssue, LegacyIssue
<1>q. QED
  BY <1>3, <1>4, <1>5, <1>6, <1>7 DEF IInv

\* Settlement starts the delivery side of an order.
LEMMA SettleStep ==
  ASSUME IInv, NEW o \in Orders, Settle(o)
  PROVE  IInv'
<1>1. TypeOK'
  BY DEF IInv, TypeOK, Settle, OrderStatus
<1>2. AccountsOK'
  BY DEF IInv, TypeOK, AccountsOK, Settle, OrderStatus
<1>3. Coherent'
  BY DEF IInv, TypeOK, Settle, OrderStatus, Coherent, DocumentsOK, PaymentsOK,
     OrderMatchesShipment, EarnedOrRefunded, LockoutSound, Custody
<1>4. OneActiveDelivery'
  BY DEF IInv, OneActiveDelivery, IsActive, Settle, OrderStatus
<1>5. SuspendedHoldsNothing'
  BY DEF IInv, TypeOK, SuspendedHoldsNothing, Busy, IsActive, Settle, OrderStatus
<1>q. QED
  BY <1>1, <1>2, <1>3, <1>4, <1>5 DEF IInv

\* A refund is recorded for a cancelled order only.
LEMMA RefundStep ==
  ASSUME IInv, NEW o \in Orders, Refund(o)
  PROVE  IInv'
<1>1. TypeOK'
  BY DEF IInv, TypeOK, Refund
<1>2. AccountsOK'
  BY DEF IInv, TypeOK, AccountsOK, Refund
<1>3. Coherent'
  BY DEF IInv, TypeOK, Refund, Coherent, DocumentsOK, PaymentsOK,
     OrderMatchesShipment, EarnedOrRefunded, LockoutSound, Custody
<1>4. OneActiveDelivery'
  BY DEF IInv, OneActiveDelivery, IsActive, Refund
<1>5. SuspendedHoldsNothing'
  BY DEF IInv, TypeOK, SuspendedHoldsNothing, Busy, IsActive, Refund
<1>q. QED
  BY <1>1, <1>2, <1>3, <1>4, <1>5 DEF IInv

\* Declining an offer changes the list of decliners alone.
LEMMA DeclineStep ==
  ASSUME IInv, NEW o \in Orders, NEW d \in Drivers, Decline(o, d)
  PROVE  IInv'
<1>1. TypeOK'
  BY DEF IInv, TypeOK, Decline
<1>2. AccountsOK'
  BY DEF IInv, TypeOK, AccountsOK, Decline
<1>3. Coherent'
  BY DEF IInv, TypeOK, Decline, Coherent, DocumentsOK, PaymentsOK,
     OrderMatchesShipment, EarnedOrRefunded, LockoutSound, Custody
<1>4. OneActiveDelivery'
  BY DEF IInv, OneActiveDelivery, IsActive, Decline
<1>5. SuspendedHoldsNothing'
  BY DEF IInv, TypeOK, SuspendedHoldsNothing, Busy, IsActive, Decline
<1>q. QED
  BY <1>1, <1>2, <1>3, <1>4, <1>5 DEF IInv

\* Going online or offline concerns the profile alone.
LEMMA UpdateAvailabilityStep ==
  ASSUME IInv, NEW d \in Drivers, NEW b \in BOOLEAN, UpdateAvailability(d, b)
  PROVE  IInv'
<1>1. TypeOK'
  BY DEF IInv, TypeOK, UpdateAvailability, Driver
<1>2. AccountsOK'
  BY DEF IInv, TypeOK, AccountsOK, UpdateAvailability, Driver
<1>3. Coherent'
  BY DEF IInv, TypeOK, UpdateAvailability, Driver, Coherent, DocumentsOK, PaymentsOK,
     OrderMatchesShipment, EarnedOrRefunded, LockoutSound, Custody
<1>4. OneActiveDelivery'
  BY DEF IInv, OneActiveDelivery, IsActive, UpdateAvailability, Driver
<1>5. SuspendedHoldsNothing'
  BY DEF IInv, TypeOK, SuspendedHoldsNothing, Busy, IsActive, UpdateAvailability, Driver
<1>q. QED
  BY <1>1, <1>2, <1>3, <1>4, <1>5 DEF IInv

\* So does a heartbeat or a location that becomes stale.
LEMMA UpdateLocationStep ==
  ASSUME IInv, NEW d \in Drivers, NEW b \in BOOLEAN, UpdateLocation(d, b)
  PROVE  IInv'
<1>1. TypeOK'
  BY DEF IInv, TypeOK, UpdateLocation, Driver
<1>2. AccountsOK'
  BY DEF IInv, TypeOK, AccountsOK, UpdateLocation, Driver
<1>3. Coherent'
  BY DEF IInv, TypeOK, UpdateLocation, Driver, Coherent, DocumentsOK, PaymentsOK,
     OrderMatchesShipment, EarnedOrRefunded, LockoutSound, Custody
<1>4. OneActiveDelivery'
  BY DEF IInv, OneActiveDelivery, IsActive, UpdateLocation, Driver
<1>5. SuspendedHoldsNothing'
  BY DEF IInv, TypeOK, SuspendedHoldsNothing, Busy, IsActive, UpdateLocation, Driver
<1>q. QED
  BY <1>1, <1>2, <1>3, <1>4, <1>5 DEF IInv

\* Suspension waits until the transporter is free.
LEMMA SetUserStatusStep ==
  ASSUME IInv, NEW d \in Drivers, NEW b \in BOOLEAN, SetUserStatus(d, b)
  PROVE  IInv'
<1>1. TypeOK'
  <2> DEFINE p == [driver[d] EXCEPT !.isActive = b, !.suspended = ~b, !.online = FALSE]
  <2>1. p \in Driver
    BY DEF IInv, TypeOK, Driver
  <2>2. driver' = [driver EXCEPT ![d] = p]
    BY DEF IInv, TypeOK, SetUserStatus
  <2>3. driver' \in [Drivers -> Driver]
    <3> HIDE DEF p
    <3>q. QED
      BY <2>1, <2>2 DEF IInv, TypeOK
  <2>q. QED
    BY <2>3 DEF IInv, TypeOK, SetUserStatus
<1>2. AccountsOK'
  BY DEF IInv, TypeOK, AccountsOK, SetUserStatus, Driver
<1>3. Coherent'
  BY DEF IInv, TypeOK, SetUserStatus, Driver, Coherent, DocumentsOK, PaymentsOK,
     OrderMatchesShipment, EarnedOrRefunded, LockoutSound, Custody
<1>4. OneActiveDelivery'
  BY DEF IInv, OneActiveDelivery, IsActive, SetUserStatus, Driver
<1>5. SuspendedHoldsNothing'
  <2>1. \A e \in Drivers : Busy(e)' = Busy(e)
    BY DEF Busy, IsActive, SetUserStatus
  <2>2. \A e \in Drivers \ {d} : driver'[e] = driver[e]
    BY DEF IInv, TypeOK, SetUserStatus
  <2>3. driver'[d].isActive = b /\ (~b => ~Busy(d))
    BY DEF IInv, TypeOK, SetUserStatus, Driver
  <2>q. QED
    BY <2>1, <2>2, <2>3 DEF IInv, SuspendedHoldsNothing
<1>q. QED
  BY <1>1, <1>2, <1>3, <1>4, <1>5 DEF IInv

\* Reading a shipment for its code writes nothing.
LEMMA ReadForCodeStep ==
  ASSUME IInv, NEW v \in Viewers, NEW o \in Orders, NEW reissue \in BOOLEAN, ReadForCode(v, o, reissue)
  PROVE  IInv'
<1>1. TypeOK'
  BY DEF IInv, TypeOK, ReadForCode, View, Shipment
<1>2. AccountsOK'
  BY DEF IInv, TypeOK, AccountsOK, ReadForCode, View, Shipment
<1>3. Coherent'
  BY DEF IInv, TypeOK, ReadForCode, View, Shipment, Coherent, DocumentsOK, PaymentsOK,
     OrderMatchesShipment, EarnedOrRefunded, LockoutSound, Custody
<1>4. OneActiveDelivery'
  BY DEF IInv, OneActiveDelivery, IsActive, ReadForCode, View, Shipment
<1>5. SuspendedHoldsNothing'
  BY DEF IInv, TypeOK, SuspendedHoldsNothing, Busy, IsActive, ReadForCode, View, Shipment
<1>q. QED
  BY <1>1, <1>2, <1>3, <1>4, <1>5 DEF IInv

\* Neither does showing the code as read.
LEMMA ShowCodeStep ==
  ASSUME IInv, NEW v \in Viewers, ShowCode(v)
  PROVE  IInv'
<1>1. TypeOK'
  BY DEF IInv, TypeOK, ShowCode, EndView, NoView, View
<1>2. AccountsOK'
  BY DEF IInv, TypeOK, AccountsOK, ShowCode, EndView, NoView, View
<1>3. Coherent'
  BY DEF IInv, TypeOK, ShowCode, EndView, NoView, View, Coherent, DocumentsOK, PaymentsOK,
     OrderMatchesShipment, EarnedOrRefunded, LockoutSound, Custody
<1>4. OneActiveDelivery'
  BY DEF IInv, OneActiveDelivery, IsActive, ShowCode, EndView, NoView, View
<1>5. SuspendedHoldsNothing'
  BY DEF IInv, TypeOK, SuspendedHoldsNothing, Busy, IsActive, ShowCode, EndView, NoView, View
<1>q. QED
  BY <1>1, <1>2, <1>3, <1>4, <1>5 DEF IInv

\* A code is written only on a shipment still active; attempts start afresh.
LEMMA IssueCodeStep ==
  ASSUME IInv, NEW v \in Viewers, IssueCode(v)
  PROVE  IInv'
<1> DEFINE o == view[v].order
<1>o. o \in Orders
  BY DEF IInv, TypeOK, View, IssueCode
<1>1. CASE SeenUnchanged(v, ship[o])
  <2>1. PICK c \in Codes : ship' = [ship EXCEPT ![o].code = c, ![o].failures = 0, ![o].blocked = "no"]
    BY <1>1 DEF IssueCode
  <2> DEFINE s == [ship[o] EXCEPT !.code = c, !.failures = 0, !.blocked = "no"]
  <2>t. ship[o] \in Shipment
    BY <1>o DEF IInv, TypeOK
  <2>2. /\ s \in Shipment /\ s.status = ship[o].status /\ s.driver = ship[o].driver
        /\ s.stage = ship[o].stage /\ s.resolved = ship[o].resolved
        /\ s.failures = 0 /\ s.blocked = "no"
    <3>1. 0 \in 0..MaxFailures
      BY FailureAssumption
    <3> HIDE DEF o
    <3>2. ship[o] \in Shipment
      BY <2>t
    <3>q. QED
      BY <3>1, <3>2 DEF Shipment
  <2>3. ship' = [ship EXCEPT ![o] = s]
    BY <2>1, <1>o DEF IInv, TypeOK
  <2>0. UNCHANGED <<order, payment, declined, driver, earning>>
    BY DEF IssueCode
  <2> HIDE DEF s, o
  <2>4. /\ ship' \in [Orders -> Shipment]
        /\ ship'[o] = s
        /\ \A q \in Orders \ {o} : ship'[q] = ship[q]
    BY <2>2, <2>3, <1>o, OneShipment DEF IInv
  <2>5. TypeOK'
    BY <2>4 DEF IInv, TypeOK, IssueCode, EndView, NoView, View
  <2>6. AccountsOK'
    BY <2>0 DEF IInv, AccountsOK
  <2>7. Coherent'
    BY <2>0, <2>2, <2>4, <1>o, FailureAssumption DEF IInv, TypeOK, Coherent, DocumentsOK,
       PaymentsOK, OrderMatchesShipment, EarnedOrRefunded, LockoutSound, Custody
  <2>8. OneActiveDelivery'
    BY <2>0, <2>2, <2>4, <1>o DEF IInv, OneActiveDelivery, IsActive
  <2>9. SuspendedHoldsNothing'
    BY <2>0, <2>2, <2>4, <1>o DEF IInv, SuspendedHoldsNothing, Busy, IsActive
  <2>q. QED
    BY <2>5, <2>6, <2>7, <2>8, <2>9 DEF IInv
<1>2. CASE ~SeenUnchanged(v, ship[o])
  <2>1. UNCHANGED ship
    BY <1>2 DEF IssueCode
  <2>5. TypeOK'
    BY <2>1 DEF IInv, TypeOK, IssueCode, EndView, NoView, View
  <2>6. AccountsOK'
    BY DEF IInv, AccountsOK, IssueCode
  <2>7. Coherent'
    BY <2>1 DEF IInv, IssueCode, Coherent, DocumentsOK, PaymentsOK,
     OrderMatchesShipment, EarnedOrRefunded, LockoutSound, Custody
  <2>8. OneActiveDelivery'
    BY <2>1 DEF IInv, OneActiveDelivery, IsActive, IssueCode
  <2>9. SuspendedHoldsNothing'
    BY <2>1 DEF IInv, SuspendedHoldsNothing, Busy, IsActive, IssueCode
  <2>q. QED
    BY <2>5, <2>6, <2>7, <2>8, <2>9 DEF IInv
<1>q. QED
  BY <1>1, <1>2

\* Completion: a wrong code is counted and may block, the right one delivers.
LEMMA CompleteStep ==
  ASSUME IInv, NEW o \in Orders, NEW c \in Codes, Complete(o, c)
  PROVE  IInv'
<1>0. /\ ship[o] \in Shipment /\ ship[o].status = "in_transit" /\ ship[o].blocked # "yes"
      /\ ship[o].blocked = "no" <=> ship[o].failures < MaxFailures
      /\ UNCHANGED <<payment, declined, driver, view>>
  BY DEF IInv, TypeOK, Coherent, LockoutSound, Complete
<1>1. CASE ship' = [ship EXCEPT ![o] = WrongCode(ship[o])] /\ UNCHANGED <<order, earning>>
  <2> DEFINE s == WrongCode(ship[o])
  <2>1. Attempts(ship[o]) \in 0..(MaxFailures - 1)
    BY <1>0, FailureAssumption DEF Attempts, Shipment
  <2>2. /\ s \in Shipment /\ s.status = "in_transit" /\ s.driver = ship[o].driver
        /\ s.stage = ship[o].stage /\ s.resolved = ship[o].resolved
        /\ s.blocked = "no" <=> s.failures < MaxFailures
    <3> DEFINE n == Attempts(ship[o]) + 1
               b == IF n >= MaxFailures THEN "yes" ELSE "no"
    <3>1. s = [ship[o] EXCEPT !.failures = n, !.blocked = b]
      BY DEF WrongCode
    <3>2. n \in 0..MaxFailures /\ b \in {"no", "yes"} /\ (b = "no" <=> n < MaxFailures)
      BY <2>1, FailureAssumption
    <3> HIDE DEF n, b, s
    <3>q. QED
      BY <1>0, <3>1, <3>2 DEF Shipment
  <2>3. /\ ship' \in [Orders -> Shipment]
        /\ ship'[o] = s
        /\ \A q \in Orders \ {o} : ship'[q] = ship[q]
    BY <1>1, <2>2, OneShipment DEF IInv
  <2> HIDE DEF s
  <2>5. TypeOK'
    BY <1>0, <1>1, <2>3 DEF IInv, TypeOK
  <2>6. AccountsOK'
    BY <1>0 DEF IInv, AccountsOK
  <2>7. Coherent'
    BY <1>0, <1>1, <2>2, <2>3 DEF IInv, TypeOK, Coherent, DocumentsOK, PaymentsOK,
     OrderMatchesShipment, EarnedOrRefunded, LockoutSound, Custody
  <2>8. OneActiveDelivery'
    BY <1>0, <2>2, <2>3 DEF IInv, OneActiveDelivery, IsActive, ACTIVE, Custody
  <2>9. SuspendedHoldsNothing'
    BY <1>0, <2>2, <2>3 DEF IInv, SuspendedHoldsNothing, Busy, IsActive, ACTIVE, Custody
  <2>q. QED
    BY <2>5, <2>6, <2>7, <2>8, <2>9 DEF IInv
<1>2. CASE /\ ship' = [ship EXCEPT ![o].status = "delivered",
                                   ![o].failures = Attempts(ship[o]), ![o].blocked = "no"]
           /\ order' = [order EXCEPT ![o] = "delivered"]
           /\ earning' = [earning EXCEPT ![o] = ship[o].driver]
  <2> DEFINE s == [ship[o] EXCEPT !.status = "delivered", !.failures = Attempts(ship[o]),
                                  !.blocked = "no"]
  <2>1. Attempts(ship[o]) \in 0..(MaxFailures - 1)
    BY <1>0, FailureAssumption DEF Attempts, Shipment
  <2>2. /\ s \in Shipment /\ s.status = "delivered" /\ s.driver = ship[o].driver
        /\ s.stage = ship[o].stage /\ s.resolved = ship[o].resolved
        /\ s.blocked = "no" /\ s.failures < MaxFailures
    <3> DEFINE n == Attempts(ship[o])
    <3>1. n \in 0..MaxFailures /\ n < MaxFailures
      BY <2>1, FailureAssumption
    <3>2. s = [ship[o] EXCEPT !.status = "delivered", !.failures = n, !.blocked = "no"]
      OBVIOUS
    <3> HIDE DEF n, s
    <3>q. QED
      BY <1>0, <3>1, <3>2 DEF Shipment, ShipmentStatus
  <2>3. ship' = [ship EXCEPT ![o] = s]
    BY <1>2 DEF IInv, TypeOK
  <2> HIDE DEF s
  <2>4. /\ ship' \in [Orders -> Shipment]
        /\ ship'[o] = s
        /\ \A q \in Orders \ {o} : ship'[q] = ship[q]
    BY <2>2, <2>3, OneShipment DEF IInv
  <2>d. ship[o].driver \in Drivers
    BY <1>0 DEF IInv, Coherent, DocumentsOK
  <2>5. TypeOK'
    BY <1>0, <1>2, <2>4, <2>d DEF IInv, TypeOK, OrderStatus
  <2>6. AccountsOK'
    BY <1>0 DEF IInv, AccountsOK
  <2>7. Coherent'
    <3>1. DocumentsOK'
      BY <1>0, <2>2, <2>4, <2>d DEF IInv, Coherent, DocumentsOK
    <3>2. PaymentsOK'
      BY <1>0, <1>2 DEF IInv, TypeOK, Coherent, PaymentsOK, OrderMatchesShipment, Custody
    <3>3. OrderMatchesShipment'
      BY <1>2, <2>2, <2>4 DEF IInv, TypeOK, Coherent, OrderMatchesShipment, Custody
    <3>4. EarnedOrRefunded'
      BY <1>0, <1>2, <2>2, <2>4, <2>d DEF IInv, TypeOK, Coherent, PaymentsOK,
         OrderMatchesShipment, EarnedOrRefunded, Custody
    <3>5. LockoutSound'
      BY <2>2, <2>4 DEF IInv, Coherent, LockoutSound
    <3>q. QED
      BY <3>1, <3>2, <3>3, <3>4, <3>5 DEF Coherent
  <2>8. OneActiveDelivery'
    BY <1>0, <2>2, <2>4 DEF IInv, OneActiveDelivery, IsActive, ACTIVE, Custody
  <2>9. SuspendedHoldsNothing'
    BY <1>0, <2>2, <2>4 DEF IInv, SuspendedHoldsNothing, Busy, IsActive, ACTIVE, Custody
  <2>q. QED
    BY <2>5, <2>6, <2>7, <2>8, <2>9 DEF IInv
<1>q. QED
  BY <1>1, <1>2 DEF Complete

-----------------------------------------------------------------------------
\* The initial documents, legacy failures included, satisfy the invariant.
LEMMA InitIInv == Init => IInv
<1> SUFFICES ASSUME Init PROVE IInv
  OBVIOUS
<1> USE NullAssumption, FailureAssumption, LegacyAssumption DEF Init
<1>0. PICK failed \in SUBSET LegacyFailed : \E d \in [failed -> Drivers] :
        /\ payment = [o \in Orders |-> IF o \in failed THEN "success" ELSE "none"]
        /\ order \in [Orders -> {"pending", "processing", "shipped"}]
        /\ \A o \in Orders : order[o] = "pending" <=> o \notin failed
        /\ ship = [o \in Orders |-> IF o \in failed THEN NewShipment(d[o], "failed", NoCode)
                                 ELSE NoShipment]
  OBVIOUS
<1>1. \A o \in Orders :
        /\ ship[o] \in Shipment /\ ship[o].stage = "none" /\ ~ship[o].resolved
        /\ ship[o].failures = 0 /\ ship[o].blocked = "no"
        /\ IF o \in failed
           THEN ship[o].status = "failed" /\ ship[o].driver \in Drivers
           ELSE ship[o].status = "none" /\ ship[o].driver = NoDriver
  BY <1>0 DEF Shipment, ShipmentStatus, NewShipment, NoShipment
<1>2. ship \in [Orders -> Shipment]
  BY <1>0, <1>1
<1>3. TypeOK
  BY <1>0, <1>2 DEF TypeOK, OrderStatus, Driver, View, NoView
<1>4. AccountsOK
  BY DEF AccountsOK
<1>5. Coherent
  BY <1>0, <1>1 DEF Coherent, DocumentsOK, PaymentsOK,
     OrderMatchesShipment, EarnedOrRefunded, LockoutSound, Custody
<1>6. OneActiveDelivery /\ SuspendedHoldsNothing
  BY <1>1 DEF OneActiveDelivery, SuspendedHoldsNothing, Busy, IsActive, ACTIVE, Custody
<1>q. QED
  BY <1>3, <1>4, <1>5, <1>6 DEF IInv

\* A stuttering step changes nothing the invariant reads.
LEMMA StutterStep == IInv /\ UNCHANGED vars => IInv'
<1> SUFFICES ASSUME IInv, UNCHANGED vars PROVE IInv'
  OBVIOUS
<1>1. TypeOK' /\ AccountsOK'
  BY DEF vars, IInv, TypeOK, AccountsOK
<1>2. Coherent'
  BY DEF vars, IInv, Coherent, DocumentsOK, PaymentsOK,
     OrderMatchesShipment, EarnedOrRefunded, LockoutSound, Custody
<1>3. OneActiveDelivery' /\ SuspendedHoldsNothing'
  BY DEF vars, IInv, OneActiveDelivery, SuspendedHoldsNothing, Busy, IsActive
<1>q. QED
  BY <1>1, <1>2, <1>3 DEF IInv

\* The invariant is inductive.
THEOREM Invariance == Spec => []IInv
<1>1. IInv /\ [Next]_vars => IInv'
  BY SettleStep, UpdateStatusStep, BlockExpiresStep, IssueStep, RetryDeliveryStep,
     ReturnToFarmerStep, RefundStep, DeclineStep, ClaimStep, ReassignStep, CompleteStep,
     ReadForCodeStep, ShowCodeStep, IssueCodeStep, UpdateAvailabilityStep,
     UpdateLocationStep, SetUserStatusStep, StutterStep DEF Next
<1>q. QED
  BY InitIInv, <1>1, PTL DEF Spec

\* Every document keeps its type.
THEOREM TypeCorrect == Spec => []TypeOK
  BY Invariance, PTL DEF IInv

\* No transporter ever has two deliveries, however claims, reassignments and
\* retries interleave.
THEOREM OneDeliveryEach == Spec => []OneActiveDelivery
  BY Invariance, PTL DEF IInv

\* A deactivated transporter holds no delivery.
THEOREM SuspendedAreFree == Spec => []SuspendedHoldsNothing
  BY Invariance, PTL DEF IInv

\* Order and shipment never tell different stories.
THEOREM OneStory == Spec => []OrderMatchesShipment
<1>1. IInv => OrderMatchesShipment
  BY DEF IInv, Coherent
<1>q. QED
  BY Invariance, <1>1, PTL

\* An order's money goes to its driver or back to its buyer, never both.
THEOREM MoneyGoesOneWay == Spec => []EarnedOrRefunded
<1>1. IInv => EarnedOrRefunded
  BY DEF IInv, Coherent
<1>q. QED
  BY Invariance, <1>1, PTL

\* No series of wrong codes is longer than MaxFailures.
THEOREM AttemptsBounded == Spec => []LockoutSound
<1>1. IInv => LockoutSound
  BY DEF IInv, Coherent
<1>q. QED
  BY Invariance, <1>1, PTL
-----------------------------------------------------------------------------
(* What a step may never do *)

\* Every operation but a claim and a reassignment keeps the driver of every
\* shipment, and every operation but these and a code request keeps the code.
LEMMA DriverAndCodeKept ==
  ASSUME IInv, NEW o \in Orders,
         \/ \E q \in Orders : \/ Settle(q) \/ UpdateStatus(q) \/ BlockExpires(q) \/ Issue(q)
                              \/ RetryDelivery(q) \/ ReturnToFarmer(q) \/ Refund(q)
         \/ \E q \in Orders, d \in Drivers : Decline(q, d)
         \/ \E q \in Orders, c \in Codes : Complete(q, c)
         \/ \E v \in Viewers, q \in Orders, reissue \in BOOLEAN : ReadForCode(v, q, reissue)
         \/ \E v \in Viewers : ShowCode(v)
         \/ \E d \in Drivers, b \in BOOLEAN : \/ UpdateAvailability(d, b)
                                              \/ UpdateLocation(d, b)
                                              \/ SetUserStatus(d, b)
  PROVE  ship'[o].driver = ship[o].driver /\ ship'[o].code = ship[o].code
<1>1. ship \in [Orders -> Shipment]
  BY DEF IInv, TypeOK
<1>2. CASE \E q \in Orders : \/ UpdateStatus(q) \/ BlockExpires(q) \/ Issue(q)
                             \/ RetryDelivery(q) \/ ReturnToFarmer(q)
  <2>1. ASSUME NEW q \in Orders, UpdateStatus(q)
        PROVE  ship'[o].driver = ship[o].driver /\ ship'[o].code = ship[o].code
    BY <1>1, <2>1 DEF Shipment, UpdateStatus
  <2>2. ASSUME NEW q \in Orders, BlockExpires(q)
        PROVE  ship'[o].driver = ship[o].driver /\ ship'[o].code = ship[o].code
    BY <1>1, <2>2 DEF Shipment, BlockExpires
  <2>3. ASSUME NEW q \in Orders, Issue(q)
        PROVE  ship'[o].driver = ship[o].driver /\ ship'[o].code = ship[o].code
    BY <1>1, <2>3 DEF Shipment, Issue
  <2>4. ASSUME NEW q \in Orders, RetryDelivery(q)
        PROVE  ship'[o].driver = ship[o].driver /\ ship'[o].code = ship[o].code
    BY <1>1, <2>4 DEF Shipment, RetryDelivery
  <2>5. ASSUME NEW q \in Orders, ReturnToFarmer(q)
        PROVE  ship'[o].driver = ship[o].driver /\ ship'[o].code = ship[o].code
    BY <1>1, <2>5 DEF Shipment, ReturnToFarmer
  <2>q. QED
    BY <1>2, <2>1, <2>2, <2>3, <2>4, <2>5
<1>3. CASE \E q \in Orders, c \in Codes : Complete(q, c)
  <2>1. PICK q \in Orders, c \in Codes : Complete(q, c)
    BY <1>3
  <2>2. CASE ship' = [ship EXCEPT ![q] = WrongCode(ship[q])]
    BY <1>1, <2>2 DEF Shipment, WrongCode
  <2>3. CASE ship' = [ship EXCEPT ![q].status = "delivered",
                                  ![q].failures = Attempts(ship[q]), ![q].blocked = "no"]
    BY <1>1, <2>3 DEF Shipment
  <2>q. QED
    BY <2>1, <2>2, <2>3 DEF Complete
<1>4. CASE UNCHANGED ship
  BY <1>4
<1>q. QED
  BY <1>2, <1>3, <1>4 DEF Settle, Refund, Decline, ReadForCode, ShowCode,
     UpdateAvailability, UpdateLocation, SetUserStatus

\* A code request writes the code of the shipment it read and nothing else of
\* interest here.
LEMMA IssueCodeWrites ==
  ASSUME IInv, NEW o \in Orders, NEW v \in Viewers, IssueCode(v)
  PROVE  /\ ship'[o].driver = ship[o].driver
         /\ ship'[o].code # ship[o].code =>
              view[v].order = o /\ SeenUnchanged(v, ship[o]) /\ view'[v] = NoView
<1>1. ship \in [Orders -> Shipment] /\ view \in [Viewers -> View]
  BY DEF IInv, TypeOK
<1>2. CASE UNCHANGED ship
  BY <1>2
<1>3. CASE SeenUnchanged(v, ship[view[v].order])
  <2>1. PICK q \in Orders : q = view[v].order
    BY <1>1 DEF View, IssueCode
  <2>2. PICK c \in Codes : ship' = [ship EXCEPT ![q].code = c, ![q].failures = 0,
                                                ![q].blocked = "no"]
    BY <1>3, <2>1 DEF IssueCode
  <2>3. /\ ship'[o].driver = ship[o].driver
        /\ o # q => ship'[o].code = ship[o].code
    BY <1>1, <2>2 DEF Shipment
  <2>4. view'[v] = NoView
    BY <1>1 DEF IssueCode, EndView
  <2>q. QED
    BY <1>3, <2>1, <2>3, <2>4
<1>q. QED
  BY <1>2, <1>3 DEF IssueCode

\* The goods of a shipped order stay with the driver who collected them: a
\* claim needs a paid order and a reassignment goods still at the farm.
THEOREM CustodyNeverChanges == Spec => CustodyFixed
<1>1. ASSUME IInv, [Next]_vars, NEW o \in Orders, order[o] = "shipped"
      PROVE  ship'[o].driver = ship[o].driver
  <2>1. ASSUME NEW q \in Orders, NEW d \in Drivers, Claim(q, d)
        PROVE  ship'[o].driver = ship[o].driver
    BY <1>1, <2>1 DEF IInv, TypeOK, Claim, Claimable
  <2>2. ASSUME NEW q \in Orders, NEW d \in Drivers, Reassign(q, d)
        PROVE  ship'[o].driver = ship[o].driver
    <3>1. order[q] = "processing"
      BY <2>2, <1>1 DEF IInv, Coherent, OrderMatchesShipment, Reassign,
         Reassignable, Custody
    <3>q. QED
      BY <1>1, <2>2, <3>1 DEF IInv, TypeOK, Reassign
  <2>3. ASSUME NEW v \in Viewers, IssueCode(v)
        PROVE  ship'[o].driver = ship[o].driver
    BY <1>1, <2>3, IssueCodeWrites
  <2>4. CASE UNCHANGED vars
    BY <2>4 DEF vars
  <2>q. QED
    BY <1>1, <2>1, <2>2, <2>3, <2>4, DriverAndCodeKept DEF Next
<1>2. IInv /\ [Next]_vars => [\A o \in Orders : order[o] = "shipped" =>
                                ship'[o].driver = ship[o].driver]_vars
  BY <1>1
<1>q. QED
  BY Invariance, <1>2, PTL DEF Spec, CustodyFixed

\* A code that exists is replaced by a reassignment, which changes the driver,
\* or by a request that asked for it: a request that saw no code finds its
\* condition false once another one has written a code.
THEOREM CodesReplacedOnRequest == Spec => CodeNotSilentlyReplaced
<1> DEFINE Replaced(o) == ship[o].code # NoCode /\ ship'[o].code # ship[o].code
           Reason(o) == \/ ship'[o].driver # ship[o].driver
                        \/ \E v \in Viewers : view[v].order = o /\ view[v].reissue /\ view'[v] = NoView
<1>1. ASSUME IInv, [Next]_vars, NEW o \in Orders, Replaced(o)
      PROVE  Reason(o)
  <2>1. ASSUME NEW q \in Orders, NEW d \in Drivers, Claim(q, d)
        PROVE  FALSE
    BY <1>1, <2>1 DEF IInv, TypeOK, Claim, Claimable, NoShipment, NewShipment
  <2>2. ASSUME NEW q \in Orders, NEW d \in Drivers, Reassign(q, d)
        PROVE  ship'[o].driver # ship[o].driver
    BY <1>1, <2>2 DEF IInv, TypeOK, Reassign, NewShipment
  <2>3. ASSUME NEW v \in Viewers, IssueCode(v)
        PROVE  Reason(o)
    <3>1. view[v].order = o /\ view[v].code = ship[o].code /\ view'[v] = NoView
      BY <1>1, <2>3, IssueCodeWrites DEF SeenUnchanged
    <3>2. view[v].reissue
      BY <1>1, <2>3, <3>1 DEF IssueCode
    <3>q. QED
      BY <3>1, <3>2
  <2>4. CASE UNCHANGED vars
    BY <1>1, <2>4 DEF vars
  <2>q. QED
    BY <1>1, <2>1, <2>2, <2>3, <2>4, DriverAndCodeKept DEF Next
<1>2. IInv /\ [Next]_vars => [\A o \in Orders : Replaced(o) => Reason(o)]_vars
  BY <1>1
<1>q. QED
  BY Invariance, <1>2, PTL DEF Spec, CodeNotSilentlyReplaced
-----------------------------------------------------------------------------
(* Refinement of OrderLifecycle *)

MoneyOf == [o \in Orders |-> Money(o)]
GoodsOf == [o \in Orders |-> Goods(o)]

\* Where the money of an order is, without CASE.
LEMMA MoneyIs ==
  ASSUME IInv, NEW o \in Orders
  PROVE  Money(o) = IF earning[o] # NoDriver THEN "earned"
                    ELSE IF payment[o] = "none" THEN "none"
                    ELSE IF payment[o] = "success" THEN "held" ELSE "refunded"
<1>1. payment[o] \in {"none", "success", "refunded"}
  BY DEF IInv, TypeOK
<1>q. QED
  BY <1>1 DEF Money

\* An order has an earning exactly when it has been delivered.
LEMMA EarnedIsDelivered ==
  ASSUME IInv, NEW o \in Orders
  PROVE  earning[o] # NoDriver <=> order[o] = "delivered"
BY NullAssumption DEF IInv, Coherent, DocumentsOK, OrderMatchesShipment, EarnedOrRefunded

\* What a step of one order must show to be a step of the lifecycle: the other
\* orders keep their documents.
LEMMA OneOrderMoves ==
  ASSUME IInv, IInv', NEW o \in Orders,
         \A q \in Orders \ {o} : /\ order'[q] = order[q] /\ payment'[q] = payment[q]
                                 /\ earning'[q] = earning[q]
                                 /\ ship'[q].driver = ship[q].driver
  PROVE  /\ order' = [order EXCEPT ![o] = order'[o]]
         /\ MoneyOf' = [MoneyOf EXCEPT ![o] = Money(o)']
         /\ GoodsOf' = [GoodsOf EXCEPT ![o] = Goods(o)']
         /\ MoneyOf[o] = Money(o) /\ GoodsOf[o] = Goods(o)
<1>1. \A q \in Orders \ {o} : Money(q)' = Money(q) /\ Goods(q)' = Goods(q)
  <2> SUFFICES ASSUME NEW q \in Orders \ {o}
               PROVE  Money(q)' = Money(q) /\ Goods(q)' = Goods(q)
    OBVIOUS
  <2>1. /\ order'[q] = order[q] /\ payment'[q] = payment[q]
        /\ earning'[q] = earning[q] /\ ship'[q].driver = ship[q].driver
    OBVIOUS
  <2>2. Money(q)' = Money(q)
    BY <2>1 DEF Money
  <2>3. Goods(q)' = Goods(q)
    BY <2>1 DEF Goods
  <2>q. QED
    BY <2>2, <2>3
<1>2. order \in [Orders -> OrderStatus] /\ order' \in [Orders -> OrderStatus]
  BY DEF IInv, TypeOK
<1>q. QED
  BY <1>1, <1>2 DEF MoneyOf, GoodsOf

\* A step of no order: nothing the lifecycle sees changes.
LEMMA OrdersStay ==
  ASSUME IInv, UNCHANGED <<order, payment, earning>>,
         \A q \in Orders : order[q] = "shipped" => ship'[q].driver = ship[q].driver
  PROVE  UNCHANGED Lifecycle!vars
<1>1. \A q \in Orders : Money(q)' = Money(q) /\ Goods(q)' = Goods(q)
  BY DEF Money, Goods
<1>q. QED
  BY <1>1 DEF Lifecycle!vars

\* Settlement is the payment of the abstract order.
LEMMA SettlePays ==
  ASSUME IInv, IInv', NEW o \in Orders, Settle(o)
  PROVE  Lifecycle!Pay(o)
<1>1. order[o] = "pending" /\ order'[o] = "paid" /\ payment'[o] = "success"
  BY DEF IInv, TypeOK, Settle
<1>2. Money(o)' = "held"
  BY <1>1, EarnedIsDelivered, MoneyIs DEF Settle, Money
<1>3. Goods(o) = AtFarm /\ Goods(o)' = AtFarm
  BY <1>1 DEF Goods
<1>4. /\ order' = [order EXCEPT ![o] = "paid"]
      /\ MoneyOf' = [MoneyOf EXCEPT ![o] = "held"]
      /\ GoodsOf' = [GoodsOf EXCEPT ![o] = GoodsOf[o]]
  <2>1. \A q \in Orders \ {o} : /\ order'[q] = order[q] /\ payment'[q] = payment[q]
                                /\ earning'[q] = earning[q]
                                /\ ship'[q].driver = ship[q].driver
    BY DEF Settle, IInv, TypeOK
  <2>q. QED
    BY <1>1, <1>2, <1>3, <2>1, OneOrderMoves
<1>5. GoodsOf' = GoodsOf
  BY <1>4 DEF GoodsOf
<1>q. QED
  BY <1>1, <1>4, <1>5 DEF Lifecycle!Pay, Lifecycle!Move, MoneyOf, GoodsOf

\* A claim accepts the order.
LEMMA ClaimAccepts ==
  ASSUME IInv, IInv', NEW o \in Orders, NEW d \in Drivers, Claim(o, d)
  PROVE  Lifecycle!Accept(o)
<1>1. order[o] = "paid" /\ order'[o] = "processing"
  BY DEF IInv, TypeOK, Claim, Claimable
<1>2. Money(o)' = Money(o)
  BY DEF Money, Claim
<1>3. Goods(o) = AtFarm /\ Goods(o)' = AtFarm
  BY <1>1 DEF Goods
<1>4. /\ order' = [order EXCEPT ![o] = "processing"]
      /\ MoneyOf' = [MoneyOf EXCEPT ![o] = MoneyOf[o]]
      /\ GoodsOf' = [GoodsOf EXCEPT ![o] = GoodsOf[o]]
  BY <1>1, <1>2, <1>3, OneOrderMoves DEF Claim, IInv, TypeOK
<1>5. GoodsOf' = GoodsOf /\ MoneyOf' = MoneyOf
  BY <1>4 DEF GoodsOf, MoneyOf
<1>q. QED
  BY <1>1, <1>4, <1>5 DEF Lifecycle!Accept, Lifecycle!Move, MoneyOf, GoodsOf

\* Pickup collects the goods; the start of transit is invisible.
LEMMA UpdateStatusCollects ==
  ASSUME IInv, IInv', NEW o \in Orders, UpdateStatus(o)
  PROVE  Lifecycle!Collect(o, ship[o].driver) \/ UNCHANGED Lifecycle!vars
<1>1. /\ ship' \in [Orders -> Shipment] /\ order'[o] = "shipped"
      /\ \A q \in Orders : ship'[q].driver = ship[q].driver
      /\ \A q \in Orders \ {o} : order'[q] = order[q]
      /\ UNCHANGED <<payment, earning>>
  BY DriverAndCodeKept DEF IInv, TypeOK, UpdateStatus
<1>2. CASE ship[o].status = "assigned"
  <2>1. order[o] = "processing"
    BY <1>2 DEF IInv, Coherent, OrderMatchesShipment
  <2>2. Money(o)' = Money(o)
    BY <1>1 DEF Money
  <2>3. Goods(o)' = ship[o].driver
    BY <1>1 DEF Goods
  <2>4. /\ order' = [order EXCEPT ![o] = "shipped"]
        /\ MoneyOf' = [MoneyOf EXCEPT ![o] = MoneyOf[o]]
        /\ GoodsOf' = [GoodsOf EXCEPT ![o] = ship[o].driver]
    BY <1>1, <2>2, <2>3, OneOrderMoves
  <2>5. MoneyOf' = MoneyOf
    BY <2>4 DEF MoneyOf
  <2>q. QED
    BY <2>1, <2>4, <2>5 DEF Lifecycle!Collect, Lifecycle!Move, MoneyOf, GoodsOf
<1>3. CASE ship[o].status = "picked_up"
  <2>1. order[o] = "shipped"
    BY <1>3 DEF IInv, Coherent, OrderMatchesShipment, Custody
  <2>2. UNCHANGED order
    BY <2>1 DEF UpdateStatus, IInv, TypeOK
  <2>q. QED
    BY <1>1, <2>2, OrdersStay
<1>q. QED
  BY <1>2, <1>3 DEF UpdateStatus, NEXT_SHIPMENT_STATUSES

\* Completion with the right code delivers; with a wrong one nothing moves.
LEMMA CompleteDelivers ==
  ASSUME IInv, IInv', NEW o \in Orders, NEW c \in Codes, Complete(o, c)
  PROVE  Lifecycle!Deliver(o) \/ UNCHANGED Lifecycle!vars
<1>1. /\ UNCHANGED payment
      /\ \A q \in Orders : ship'[q].driver = ship[q].driver
      /\ order[o] = "shipped"
  BY DriverAndCodeKept DEF Complete, IInv, Coherent, OrderMatchesShipment, Custody
<1>2. CASE UNCHANGED <<order, earning>>
  BY <1>1, <1>2, OrdersStay
<1>3. CASE /\ order' = [order EXCEPT ![o] = "delivered"]
           /\ earning' = [earning EXCEPT ![o] = ship[o].driver]
  <2>1. /\ order'[o] = "delivered"
        /\ \A q \in Orders \ {o} : order'[q] = order[q] /\ earning'[q] = earning[q]
    BY <1>3 DEF IInv, TypeOK
  <2>2. Money(o) = "held"
    BY <1>1, EarnedIsDelivered, MoneyIs DEF IInv, TypeOK, Coherent, PaymentsOK
  <2>3. Money(o)' = "earned"
    <3>1. earning'[o] # NoDriver
      <4>1. ship[o].driver \in Drivers
        BY <1>1 DEF Complete, IInv, Coherent, DocumentsOK
      <4>q. QED
        BY <1>3, <4>1, NullAssumption DEF IInv, TypeOK
    <3>q. QED
      BY <3>1 DEF Money
  <2>4. Goods(o)' = AtBuyer
    BY <2>1 DEF Goods
  <2>5. /\ MoneyOf' = [MoneyOf EXCEPT ![o] = "earned"]
        /\ GoodsOf' = [GoodsOf EXCEPT ![o] = AtBuyer]
        /\ MoneyOf[o] = "held"
    BY <1>1, <2>1, <2>2, <2>3, <2>4, OneOrderMoves
  <2>q. QED
    BY <1>1, <1>3, <2>5 DEF Lifecycle!Deliver, Lifecycle!Move, MoneyOf, GoodsOf
<1>q. QED
  BY <1>2, <1>3 DEF Complete

\* A return cancels an order in progress and brings the goods back.
LEMMA ReturnReturns ==
  ASSUME IInv, IInv', NEW o \in Orders, ReturnToFarmer(o)
  PROVE  Lifecycle!Return(o)
<1>1. /\ order[o] \in {"processing", "shipped"} /\ order'[o] = "cancelled"
      /\ \A q \in Orders : ship'[q].driver = ship[q].driver
      /\ \A q \in Orders \ {o} : order'[q] = order[q]
      /\ UNCHANGED <<payment, earning>>
  <2>1. order[o] \in {"processing", "shipped"}
    <3>1. ship[o].status = "failed" /\ ~ship[o].resolved
      BY DEF ReturnToFarmer, HasOpenIssue, LegacyIssue, IInv, Coherent, DocumentsOK
    <3>q. QED
      BY <3>1 DEF IInv, Coherent, OrderMatchesShipment
  <2>q. QED
    BY <2>1, DriverAndCodeKept DEF ReturnToFarmer, IInv, TypeOK
<1>2. Money(o)' = Money(o)
  BY <1>1 DEF Money
<1>3. Goods(o)' = AtFarm
  BY <1>1 DEF Goods
<1>4. /\ order' = [order EXCEPT ![o] = "cancelled"]
      /\ MoneyOf' = [MoneyOf EXCEPT ![o] = MoneyOf[o]]
      /\ GoodsOf' = [GoodsOf EXCEPT ![o] = AtFarm]
  BY <1>1, <1>2, <1>3, OneOrderMoves
<1>5. MoneyOf' = MoneyOf
  BY <1>4 DEF MoneyOf
<1>q. QED
  BY <1>1, <1>4, <1>5 DEF Lifecycle!Return, Lifecycle!InProgress, Lifecycle!Move, MoneyOf, GoodsOf

\* A refund gives back money that was held: a cancelled order earned nothing.
LEMMA RefundRefunds ==
  ASSUME IInv, IInv', NEW o \in Orders, Refund(o)
  PROVE  Lifecycle!Refund(o)
<1>1. order[o] = "cancelled" /\ payment[o] = "success" /\ payment'[o] = "refunded"
  BY DEF IInv, TypeOK, Refund
<1>2. Money(o) = "held" /\ Money(o)' = "refunded"
  BY <1>1, EarnedIsDelivered, MoneyIs DEF Refund, Money
<1>3. Goods(o)' = Goods(o)
  BY DEF Goods, Refund
<1>4. /\ MoneyOf' = [MoneyOf EXCEPT ![o] = "refunded"]
      /\ GoodsOf' = [GoodsOf EXCEPT ![o] = GoodsOf[o]]
      /\ MoneyOf[o] = "held"
  BY <1>1, <1>2, <1>3, OneOrderMoves DEF Refund, IInv, TypeOK
<1>5. GoodsOf' = GoodsOf
  BY <1>4 DEF GoodsOf
<1>q. QED
  BY <1>1, <1>4, <1>5 DEF Lifecycle!Refund, MoneyOf, GoodsOf, Refund

\* A retry takes up the delivery where the issue stopped it, so the order is
\* already in the state it is set to.
LEMMA RetryStutters ==
  ASSUME IInv, NEW o \in Orders, RetryDelivery(o)
  PROVE  UNCHANGED Lifecycle!vars
<1>1. order[o] = IF ship[o].stage = "assigned" THEN "processing" ELSE "shipped"
  BY DEF RetryDelivery, HasOpenIssue, IInv, Coherent, OrderMatchesShipment, Custody
<1>2. UNCHANGED <<order, payment, earning>>
  BY <1>1 DEF RetryDelivery, IInv, TypeOK
<1>q. QED
  BY <1>2, OrdersStay, DriverAndCodeKept

\* A reassignment happens at the farm: the order stays in processing.
LEMMA ReassignStutters ==
  ASSUME IInv, NEW o \in Orders, NEW d \in Drivers, Reassign(o, d)
  PROVE  UNCHANGED Lifecycle!vars
<1>1. order[o] = "processing"
  BY DEF Reassign, Reassignable, IInv, Coherent, OrderMatchesShipment, Custody
<1>2. UNCHANGED <<order, payment, earning>>
  BY <1>1 DEF Reassign, IInv, TypeOK
<1>3. \A q \in Orders : order[q] = "shipped" => ship'[q].driver = ship[q].driver
  BY <1>1 DEF Reassign, IInv, TypeOK
<1>q. QED
  BY <1>2, <1>3, OrdersStay

\* Delivery implements the order's lifecycle: every operation moves one order
\* along it or moves none.
THEOREM DeliveryImplementsLifecycle == Spec => ImplementsLifecycle
<1>1. Init => Lifecycle!Init
  <2> SUFFICES ASSUME Init PROVE Lifecycle!Init
    OBVIOUS
  <2>1. IInv
    BY InitIInv
  <2>2. order \in [Orders -> {"pending", "processing", "shipped"}]
    BY DEF Init
  <2>3. \A o \in Orders : Money(o) = IF order[o] \in {"processing", "shipped"}
                                     THEN "held" ELSE "none"
    BY <2>1, <2>2, MoneyIs, EarnedIsDelivered DEF IInv, TypeOK, Coherent, PaymentsOK
  <2>4. \A o \in Orders : /\ Goods(o) \in Drivers \cup {AtFarm}
                          /\ Goods(o) = AtFarm <=> order[o] # "shipped"
    <3>1. \A o \in Orders : order[o] = "shipped" => ship[o].driver \in Drivers
      BY <2>1 DEF IInv, Coherent, DocumentsOK, OrderMatchesShipment
    <3>q. QED
      BY <2>2, <3>1, NullAssumption DEF Goods
  <2>q. QED
    BY <2>2, <2>3, <2>4 DEF Lifecycle!Init, Lifecycle!InProgress
<1>2. IInv /\ IInv' /\ [Next]_vars => [Lifecycle!Next]_Lifecycle!vars
  <2> SUFFICES ASSUME IInv, IInv', [Next]_vars
               PROVE  Lifecycle!Next \/ UNCHANGED Lifecycle!vars
    OBVIOUS
  <2>1. ASSUME NEW o \in Orders, \/ Settle(o) \/ ReturnToFarmer(o) \/ Refund(o)
        PROVE  Lifecycle!Next
    BY <2>1, SettlePays, ReturnReturns, RefundRefunds DEF Lifecycle!Next
  <2>2. ASSUME NEW o \in Orders, UpdateStatus(o)
        PROVE  Lifecycle!Next \/ UNCHANGED Lifecycle!vars
    <3>1. ship[o].driver \in Drivers
      BY <2>2 DEF UpdateStatus, NEXT_SHIPMENT_STATUSES, IInv, Coherent, DocumentsOK
    <3>q. QED
      BY <2>2, <3>1, UpdateStatusCollects DEF Lifecycle!Next
  <2>3. ASSUME NEW o \in Orders, NEW c \in Codes, Complete(o, c)
        PROVE  Lifecycle!Next \/ UNCHANGED Lifecycle!vars
    BY <2>3, CompleteDelivers DEF Lifecycle!Next
  <2>4. ASSUME NEW o \in Orders, NEW d \in Drivers, Claim(o, d)
        PROVE  Lifecycle!Next
    BY <2>4, ClaimAccepts DEF Lifecycle!Next
  <2>5. ASSUME NEW o \in Orders, NEW d \in Drivers, Reassign(o, d)
        PROVE  UNCHANGED Lifecycle!vars
    BY <2>5, ReassignStutters
  <2>6. ASSUME NEW o \in Orders, RetryDelivery(o)
        PROVE  UNCHANGED Lifecycle!vars
    BY <2>6, RetryStutters
  <2>7. ASSUME NEW v \in Viewers, IssueCode(v)
        PROVE  UNCHANGED Lifecycle!vars
    BY <2>7, IssueCodeWrites, OrdersStay DEF IssueCode
  <2>8. ASSUME UNCHANGED vars
        PROVE  UNCHANGED Lifecycle!vars
    BY <2>8, OrdersStay DEF vars
  <2>9. ASSUME \/ \E o \in Orders : BlockExpires(o) \/ Issue(o)
               \/ \E o \in Orders, d \in Drivers : Decline(o, d)
               \/ \E v \in Viewers, o \in Orders, reissue \in BOOLEAN : ReadForCode(v, o, reissue)
               \/ \E v \in Viewers : ShowCode(v)
               \/ \E d \in Drivers, b \in BOOLEAN : \/ UpdateAvailability(d, b)
                                                    \/ UpdateLocation(d, b)
                                                    \/ SetUserStatus(d, b)
        PROVE  UNCHANGED Lifecycle!vars
    <3>1. \A q \in Orders : ship'[q].driver = ship[q].driver
      BY <2>9, DriverAndCodeKept
    <3>2. UNCHANGED <<order, payment, earning>>
      BY <2>9 DEF BlockExpires, Issue, Decline, ReadForCode, ShowCode, UpdateAvailability,
         UpdateLocation, SetUserStatus
    <3>q. QED
      BY <3>1, <3>2, OrdersStay
  <2>q. QED
    BY <2>1, <2>2, <2>3, <2>4, <2>5, <2>6, <2>7, <2>8, <2>9 DEF Next
<1>q. QED
  BY Invariance, <1>1, <1>2, PTL DEF Spec, ImplementsLifecycle, Lifecycle!Spec
=============================================================================
