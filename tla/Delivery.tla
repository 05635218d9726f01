------------------------------ MODULE Delivery ------------------------------
(***************************************************************************)
(* The delivery of a paid order: TransportService (offers, claim, status), *)
(* DeliveryService (code, completion, issues, reassignment, resolution,    *)
(* refund record) and the suspension of a transporter by AdminService.     *)
(*                                                                         *)
(* Every state-changing operation is one Mongo transaction and one action: *)
(* operations that make a transporter busy also write his profile, so two  *)
(* of them that concern one transporter conflict and the loser retries.    *)
(* The buyer's view of the delivery code is the exception: the shipment is *)
(* read first and written later on condition that it has not changed, and  *)
(* is a process of two steps here.                                         *)
(***************************************************************************)
EXTENDS Naturals, FiniteSets

CONSTANTS
  Orders,        \* paid orders; the shipment of an order is unique
  Drivers,       \* transporters
  Codes,         \* the six-digit delivery codes
  Viewers,       \* concurrent requests for a delivery code
  Decliners,     \* transporters who decline offers (bounds the model)
  MaxFailures,   \* wrong codes before completion is blocked (5 in the code)
  LegacyFailed,  \* orders whose shipment may have failed before issues were recorded
  Unpinned,      \* orders without a pickupLocation
  NoDriver, NoCode, NoOrder,
  AtFarm, AtBuyer \* where goods are that no driver has

ASSUME FailureAssumption == MaxFailures \in Nat \ {0}
ASSUME LegacyAssumption  == LegacyFailed \subseteq Orders /\ Unpinned \subseteq Orders
ASSUME NullAssumption    == /\ NoDriver \notin Drivers
                            /\ NoCode \notin Codes
                            /\ NoOrder \notin Orders
                            /\ AtFarm \notin Drivers

VARIABLES
  order,     \* Order.status
  payment,   \* Payment.status
  declined,  \* Order.declinedBy
  ship,      \* shipment documents
  driver,    \* user account and transporter profile
  earning,   \* the transporter of the DeliveryEarning of each order
  view       \* code requests in progress

vars == <<order, payment, declined, ship, driver, earning, view>>

OrderStatus    == {"pending", "paid", "processing", "shipped", "delivered", "cancelled"}
Custody        == {"picked_up", "in_transit"}
ACTIVE         == {"assigned"} \cup Custody
ShipmentStatus == ACTIVE \cup {"none", "delivered", "failed"}

NewShipment(d, status, code) ==
  [driver |-> d, status |-> status, stage |-> "none", resolved |-> FALSE,
   code |-> code, failures |-> 0, blocked |-> "no"]
NoShipment == NewShipment(NoDriver, "none", NoCode)
Shipment   == [driver: Drivers \cup {NoDriver}, status: ShipmentStatus,
               stage: ACTIVE \cup {"none"}, resolved: BOOLEAN, code: Codes \cup {NoCode},
               failures: 0..MaxFailures, blocked: {"no", "yes", "expired"}]
Driver     == [isActive: BOOLEAN, suspended: BOOLEAN, online: BOOLEAN, inReach: BOOLEAN]
View       == [order: Orders \cup {NoOrder}, driver: Drivers \cup {NoDriver},
               code: Codes \cup {NoCode}, reissue: BOOLEAN]
NoView     == [order |-> NoOrder, driver |-> NoDriver, code |-> NoCode, reissue |-> FALSE]

TypeOK ==
  /\ order \in [Orders -> OrderStatus]
  /\ payment \in [Orders -> {"none", "success", "refunded"}]
  /\ declined \in [Orders -> SUBSET Drivers]
  /\ ship \in [Orders -> Shipment]
  /\ driver \in [Drivers -> Driver]
  /\ earning \in [Orders -> Drivers \cup {NoDriver}]
  /\ view \in [Viewers -> View]

Init ==
  /\ declined = [o \in Orders |-> {}]
  /\ earning = [o \in Orders |-> NoDriver]
  /\ view = [v \in Viewers |-> NoView]
  /\ driver = [d \in Drivers |-> [isActive |-> TRUE, suspended |-> FALSE,
                                  online |-> FALSE, inReach |-> FALSE]]
  /\ \E failed \in SUBSET LegacyFailed : \E d \in [failed -> Drivers] :
       /\ payment = [o \in Orders |-> IF o \in failed THEN "success" ELSE "none"]
       /\ order \in [Orders -> {"pending", "processing", "shipped"}]
       /\ \A o \in Orders : order[o] = "pending" <=> o \notin failed
       /\ ship = [o \in Orders |-> IF o \in failed THEN NewShipment(d[o], "failed", NoCode)
                                ELSE NoShipment]

-----------------------------------------------------------------------------
(* TransportService *)

\* activeDeliveryFilter: a failed delivery still occupies its transporter
\* while he holds the goods and nobody has resolved the issue.
IsActive(s) == \/ s.status \in ACTIVE
               \/ s.status = "failed" /\ s.stage \in Custody /\ ~s.resolved

\* Mutant: only a delivery not yet collected counts.
BusyAssigned(d, o) == \E q \in Orders \ {o} : ship[q].driver = d /\ ship[q].status = "assigned"

Busy(d)             == \E o \in Orders : ship[o].driver = d /\ IsActive(ship[o])
BusyElsewhere(d, o) == \E q \in Orders \ {o} : ship[q].driver = d /\ IsActive(ship[q])

\* A payment settles: PaymentService.settle, whose detail is OrderPayment's.
Settle(o) ==
  /\ order[o] = "pending"
  /\ order' = [order EXCEPT ![o] = "paid"]
  /\ payment' = [payment EXCEPT ![o] = "success"]
  /\ UNCHANGED <<declined, ship, driver, earning, view>>

\* updateAvailability and updateLocation; a location becomes stale with time
\* (inReach: fresh and within the dispatch radius of the farms).
UpdateAvailability(d, online) ==
  /\ driver' = [driver EXCEPT ![d].online = online]
  /\ UNCHANGED <<order, payment, declined, ship, earning, view>>

UpdateLocation(d, inReach) ==
  /\ driver' = [driver EXCEPT ![d].inReach = inReach]
  /\ UNCHANGED <<order, payment, declined, ship, earning, view>>

\* findAvailable: the offers listed for a transporter.
FindAvailable(d) ==
  {o \in Orders : /\ ~driver[d].suspended /\ driver[d].online /\ driver[d].inReach
                  /\ ~Busy(d)
                  /\ order[o] = "paid" /\ ship[o] = NoShipment
                  /\ o \notin Unpinned /\ d \notin declined[o]}

Decline(o, d) ==
  /\ d \in Decliners
  /\ order[o] = "paid"
  /\ declined' = [declined EXCEPT ![o] = @ \cup {d}]
  /\ UNCHANGED <<order, payment, ship, driver, earning, view>>

\* Mutant: the claim does not look at dispatchSuspended.
ClaimableIfOnline(o, d) ==
  /\ ~Busy(d)
  /\ driver[d].online
  /\ order[o] = "paid" /\ ship[o] = NoShipment
  /\ o \in Unpinned \/ driver[d].inReach

\* The distance is looked at only if there is one.
Claimable(o, d) ==
  /\ ~Busy(d)
  /\ ~driver[d].suspended /\ driver[d].online
  /\ order[o] = "paid" /\ ship[o] = NoShipment
  /\ o \in Unpinned \/ driver[d].inReach

Claim(o, d) ==
  /\ Claimable(o, d)
  /\ order' = [order EXCEPT ![o] = "processing"]
  /\ ship' = [ship EXCEPT ![o] = NewShipment(d, "assigned", NoCode)]
  /\ UNCHANGED <<payment, declined, driver, earning, view>>

\* updateStatus: pickup, then start of transit; the order becomes shipped.
NEXT_SHIPMENT_STATUSES == [assigned |-> "picked_up", picked_up |-> "in_transit"]

\* Mutant: the order is written only when transit starts.
UpdateStatusLate(o) ==
  /\ ship[o].status \in DOMAIN NEXT_SHIPMENT_STATUSES
  /\ ship' = [ship EXCEPT ![o].status = NEXT_SHIPMENT_STATUSES[@]]
  /\ order' = [order EXCEPT ![o] = IF ship[o].status = "picked_up" THEN "shipped" ELSE @]
  /\ UNCHANGED <<payment, declined, driver, earning, view>>

UpdateStatus(o) ==
  /\ ship[o].status \in DOMAIN NEXT_SHIPMENT_STATUSES
  /\ ship' = [ship EXCEPT ![o].status = NEXT_SHIPMENT_STATUSES[@]]
  /\ order' = [order EXCEPT ![o] = "shipped"]
  /\ UNCHANGED <<payment, declined, driver, earning, view>>

-----------------------------------------------------------------------------
(* DeliveryService.code: read the shipment, then write on condition *)

ReadForCode(v, o, reissue) ==
  /\ view[v].order = NoOrder
  /\ ship[o].status \in ACTIVE
  /\ view' = [view EXCEPT ![v] = [order |-> o, driver |-> ship[o].driver,
                                  code |-> ship[o].code, reissue |-> reissue]]
  /\ UNCHANGED <<order, payment, declined, ship, driver, earning>>

EndView(v) == view' = [view EXCEPT ![v] = NoView]

\* The code already existed and is shown again, from the shipment as read.
ShowCode(v) ==
  /\ view[v].order # NoOrder
  /\ view[v].code # NoCode /\ ~view[v].reissue
  /\ EndView(v)
  /\ UNCHANGED <<order, payment, declined, ship, driver, earning>>

\* Mutant: the filter forgets the nonce.
SeenActive(v, s) == s.driver = view[v].driver /\ s.status \in ACTIVE

\* The filter of the conditional update: driver, status and nonce as read.
\* (Nonces never repeat; two codes may, so this condition is weaker.)
SeenUnchanged(v, s) ==
  /\ s.driver = view[v].driver
  /\ s.status \in ACTIVE
  /\ s.code = view[v].code

IssueCode(v) ==
  LET o == view[v].order IN
  /\ view[v].order # NoOrder
  /\ view[v].code = NoCode \/ view[v].reissue
  /\ \/ /\ SeenUnchanged(v, ship[o])
        /\ \E c \in Codes \ {view[v].code} :
             ship' = [ship EXCEPT ![o].code = c, ![o].failures = 0, ![o].blocked = "no"]
     \/ /\ ~SeenUnchanged(v, ship[o])
        /\ UNCHANGED ship
  /\ EndView(v)
  /\ UNCHANGED <<order, payment, declined, driver, earning>>

(* DeliveryService.complete *)

BlockExpires(o) ==
  /\ ship[o].blocked = "yes"
  /\ ship' = [ship EXCEPT ![o].blocked = "expired"]
  /\ UNCHANGED <<order, payment, declined, driver, earning, view>>

\* Mutant: an expired block leaves the count as it was.
AttemptsKept(s) == s.failures

\* An expired block starts a new series of attempts.
Attempts(s) == IF s.blocked = "expired" THEN 0 ELSE s.failures

\* Mutant: one attempt too many.
WrongCodeLenient(s) ==
  [s EXCEPT !.failures = IF Attempts(s) = MaxFailures THEN MaxFailures ELSE Attempts(s) + 1,
            !.blocked = IF Attempts(s) >= MaxFailures THEN "yes" ELSE "no"]

WrongCode(s) ==
  [s EXCEPT !.failures = Attempts(s) + 1,
            !.blocked = IF Attempts(s) + 1 >= MaxFailures THEN "yes" ELSE "no"]

\* The driver of the shipment enters the code c.
Complete(o, c) ==
  /\ ship[o].status = "in_transit"
  /\ ship[o].blocked # "yes"
  /\ \/ /\ c # ship[o].code
        /\ ship' = [ship EXCEPT ![o] = WrongCode(@)]
        /\ UNCHANGED <<order, earning>>
     \/ /\ c = ship[o].code
        /\ ship' = [ship EXCEPT ![o].status = "delivered",
                                ![o].failures = Attempts(ship[o]), ![o].blocked = "no"]
        /\ order' = [order EXCEPT ![o] = "delivered"]
        /\ earning[o] = NoDriver   \* unique index on shipmentId
        /\ earning' = [earning EXCEPT ![o] = ship[o].driver]
  /\ UNCHANGED <<payment, declined, driver, view>>

(* DeliveryService.issue, reassign, resolve *)

Issue(o) ==
  /\ ship[o].status \in ACTIVE
  /\ ship' = [ship EXCEPT ![o].stage = ship[o].status, ![o].resolved = FALSE,
                          ![o].status = "failed"]
  /\ UNCHANGED <<order, payment, declined, driver, earning, view>>

\* Mutant: resolved issues can be reassigned.
ReassignableAfterReturn(s) ==
  s.status = "assigned" \/ (s.status = "failed" /\ s.stage = "assigned")

\* Mutant: goods in custody can be reassigned.
ReassignableAnyStage(s) ==
  s.status = "assigned" \/ (s.status = "failed" /\ s.stage # "none" /\ ~s.resolved)

\* The goods are still at the farm.
Reassignable(s) == \/ s.status = "assigned"
                   \/ s.status = "failed" /\ s.stage = "assigned" /\ ~s.resolved

Reassign(o, d) ==
  /\ Reassignable(ship[o])
  /\ ship[o].driver # d
  /\ driver[d].isActive
  /\ driver[d].online /\ ~driver[d].suspended
  /\ o \notin Unpinned /\ driver[d].inReach
  /\ ~BusyElsewhere(d, o)
  /\ \E c \in Codes \ {ship[o].code} :
       ship' = [ship EXCEPT ![o] = NewShipment(d, "assigned", c)]
  /\ order' = [order EXCEPT ![o] = "processing"]
  /\ UNCHANGED <<payment, declined, driver, earning, view>>

\* Mutant: a resolved issue can be resolved again.
HasIssue(s) == s.status = "failed" /\ s.stage # "none"

HasOpenIssue(s) == s.status = "failed" /\ s.stage # "none" /\ ~s.resolved

RetryDelivery(o) ==
  LET status == IF ship[o].stage = "assigned" THEN "assigned" ELSE "in_transit" IN
  /\ HasOpenIssue(ship[o])
  /\ ~BusyElsewhere(ship[o].driver, o)
  /\ driver[ship[o].driver].isActive
  /\ ship' = [ship EXCEPT ![o].status = status, ![o].resolved = TRUE]
  /\ order' = [order EXCEPT ![o] = IF status = "assigned" THEN "processing" ELSE "shipped"]
  /\ UNCHANGED <<payment, declined, driver, earning, view>>

\* A failed shipment without an issue predates issue reports: it is given one.
LegacyIssue(s) == s.status = "failed" /\ s.stage = "none"

ReturnToFarmer(o) ==
  /\ HasOpenIssue(ship[o]) \/ LegacyIssue(ship[o])
  /\ ship' = [ship EXCEPT ![o].resolved = TRUE,
                          ![o].stage = IF @ = "none" THEN "in_transit" ELSE @]
  /\ order' = [order EXCEPT ![o] = "cancelled"]
  /\ UNCHANGED <<payment, declined, driver, earning, view>>

\* DeliveryService.refund: the record of a refund made outside the system.
Refund(o) ==
  /\ order[o] = "cancelled"
  /\ payment[o] = "success"
  /\ payment' = [payment EXCEPT ![o] = "refunded"]
  /\ UNCHANGED <<order, declined, ship, driver, earning, view>>

(* AdminService.setUserStatus for a transporter *)

SetUserStatus(d, isActive) ==
  /\ driver[d].isActive # isActive
  /\ ~isActive => ~Busy(d)
  /\ driver' = [driver EXCEPT ![d].isActive = isActive, ![d].suspended = ~isActive,
                              ![d].online = FALSE]
  /\ UNCHANGED <<order, payment, declined, ship, earning, view>>

-----------------------------------------------------------------------------
Next ==
  \/ \E o \in Orders : \/ Settle(o)
                       \/ UpdateStatus(o)
                       \/ BlockExpires(o)
                       \/ Issue(o)
                       \/ RetryDelivery(o)
                       \/ ReturnToFarmer(o)
                       \/ Refund(o)
  \/ \E o \in Orders, d \in Drivers : Decline(o, d) \/ Claim(o, d) \/ Reassign(o, d)
  \/ \E o \in Orders, c \in Codes : Complete(o, c)
  \/ \E v \in Viewers, o \in Orders, reissue \in BOOLEAN : ReadForCode(v, o, reissue)
  \/ \E v \in Viewers : ShowCode(v) \/ IssueCode(v)
  \/ \E d \in Drivers, b \in BOOLEAN : \/ UpdateAvailability(d, b)
                                       \/ UpdateLocation(d, b)
                                       \/ SetUserStatus(d, b)

Spec == Init /\ [][Next]_vars

-----------------------------------------------------------------------------
(* Properties *)

\* A transporter never has two deliveries: claim, reassign and retry each
\* check for another one, and a failed delivery in custody still counts.
OneActiveDelivery ==
  \A o, q \in Orders : /\ o # q
                       /\ IsActive(ship[o]) /\ IsActive(ship[q])
                       => ship[o].driver # ship[q].driver

\* Order.status and Shipment.status are kept in two documents written by six
\* operations; they always tell the same story.
OrderMatchesShipment ==
  \A o \in Orders : LET s == ship[o] IN
    /\ s.status = "none" <=> order[o] \in {"pending", "paid"}
    /\ s.status = "assigned" => order[o] = "processing"
    /\ s.status \in Custody => order[o] = "shipped"
    /\ s.status = "delivered" <=> order[o] = "delivered"
    /\ s.status = "failed" =>
         \/ s.resolved /\ order[o] = "cancelled"
         \/ ~s.resolved /\ s.stage = "assigned" /\ order[o] = "processing"
         \/ ~s.resolved /\ s.stage \in Custody /\ order[o] = "shipped"
         \/ ~s.resolved /\ s.stage = "none" /\ order[o] \in {"processing", "shipped"}

\* The driver is paid for a delivered order and the buyer refunded for a
\* cancelled one, never both, and the earning goes to the driver who delivered.
EarnedOrRefunded ==
  \A o \in Orders :
    /\ earning[o] = (IF ship[o].status = "delivered" THEN ship[o].driver ELSE NoDriver)
    /\ payment[o] = "refunded" => order[o] = "cancelled" /\ earning[o] = NoDriver
    /\ order[o] # "pending" => payment[o] # "none"

\* A suspended transporter holds no delivery: deactivation waits for the active
\* one and no operation hands a delivery to a deactivated account.
SuspendedHoldsNothing == \A d \in Drivers : ~driver[d].isActive => ~Busy(d)

\* Code entry is limited: a block is in force exactly when the last allowed
\* attempt has failed, so no series of wrong codes is longer than MaxFailures.
LockoutSound ==
  \A o \in Orders : ship[o].blocked = "no" <=> ship[o].failures < MaxFailures

\* What a transporter is offered he can accept: findAvailable lists no order
\* that claim would refuse for a reason the server already knows.
OffersClaimable == \A d \in Drivers, o \in Orders : o \in FindAvailable(d) => Claimable(o, d)

\* Once the order has shipped the goods never change hands: until delivery or
\* return they stay with the driver who collected them.
CustodyFixed ==
  [][\A o \in Orders : order[o] = "shipped" => ship'[o].driver = ship[o].driver]_vars

\* A buyer's code is replaced only on request or by a reassignment: a second
\* first view never invalidates the code that another request has shown.
CodeNotSilentlyReplaced ==
  [][\A o \in Orders : ship[o].code # NoCode /\ ship'[o].code # ship[o].code =>
       \/ ship'[o].driver # ship[o].driver
       \/ \E v \in Viewers : view[v].order = o /\ view[v].reissue /\ view'[v] = NoView]_vars

(* The promise kept about every order: see OrderLifecycle *)

Money(o) == IF earning[o] # NoDriver THEN "earned"
            ELSE CASE payment[o] = "none" -> "none"
                   [] payment[o] = "success" -> "held"
                   [] payment[o] = "refunded" -> "refunded"

Goods(o) == CASE order[o] = "shipped" -> ship[o].driver
              [] order[o] = "delivered" -> AtBuyer
              [] OTHER -> AtFarm

Lifecycle == INSTANCE OrderLifecycle WITH
  stage <- order,
  money <- [o \in Orders |-> Money(o)],
  goods <- [o \in Orders |-> Goods(o)]

\* The two documents, the payment and the earning together implement the
\* abstract order: no step of a transporter, an administrator or a buyer moves
\* an order, its goods or its money in a way the lifecycle does not allow.
ImplementsLifecycle == Lifecycle!Spec
=============================================================================
