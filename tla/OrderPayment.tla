---------------------------- MODULE OrderPayment ----------------------------
(***************************************************************************)
(* Orders, payments and stock, from the cart to the paid order.            *)
(*                                                                         *)
(* OrderService creates and cancels drafts, PaymentService claims a draft, *)
(* opens a gateway session and settles it, MarketplaceService edits stock  *)
(* and AdminService suspends the parties.  One POST /payments is a process *)
(* of several steps (the variable call): its reads and writes are separate *)
(* database commands and anything may happen between two of them.  A       *)
(* Mongo transaction is one step: every transaction modelled here writes   *)
(* the documents whose value it depends on, so a conflicting one retries.  *)
(***************************************************************************)
EXTENDS Naturals, FiniteSets, Functions

CONSTANTS
  Orders,           \* order requests: each becomes at most one order document
  Products, Users,
  Calls,            \* concurrent POST /payments requests
  Refs,             \* gateway trackers that can be minted (bounds the model)
  Cart,             \* Cart[o][p]: quantity of product p in request o
  Buyer, Farmer,    \* the buyer of a request, the owner of a product
  InitialStock,     \* stock of each product when it is listed
  MaxStock,         \* bound on a product's quantity
  SimulatorEnabled, \* PAYMENT_SIMULATOR_ENABLED outside production
  NoPayment, MockRef, NoOrder

ASSUME CartAssumption   == Cart \in [Orders -> [Products -> Nat]]
ASSUME PartyAssumption  == /\ Buyer \in [Orders -> Users]
                           /\ Farmer \in [Products -> Users]
ASSUME StockAssumption  == /\ MaxStock \in Nat
                           /\ InitialStock \in [Products -> 0..MaxStock]
ASSUME SimAssumption    == SimulatorEnabled \in BOOLEAN
ASSUME RefAssumption    == MockRef \notin Refs
ASSUME OrderAssumption  == NoOrder \notin Orders /\ IsFiniteSet(Orders)

VARIABLES
  order,     \* order documents
  priced,    \* requests whose cart has been priced but not yet inserted
  payment,   \* payment documents, unique per order
  product,   \* listings
  active,    \* User.isActive of buyers and farmers
  call,      \* the POST /payments requests in progress
  tracker,   \* the gateway's sessions
  webhooks,  \* gateway events not yet acknowledged
  outbox,    \* number of Payment ledger records queued per order
  form,      \* stock a farmer's edit form was opened with
  supplied   \* history: stock the farmer has declared so far

vars == <<order, priced, payment, product, active, call, tracker, webhooks,
          outbox, form, supplied>>

OrderStatus   == {"none", "pending", "paid", "cancelled"}
PaymentStatus == {"pending", "success", "failed"}
Gateways      == {"safepay", "mock"}
Payment       == [status: PaymentStatus, gateway: Gateways, ref: Refs \cup {MockRef}]

ASSUME NullPaymentAssumption == NoPayment \notin Payment

Items(o)   == {p \in Products : Cart[o][p] > 0}
Sellers(o) == {Farmer[p] : p \in Items(o)}
Parties(o) == {Buyer[o]} \cup Sellers(o)

InStock(o) == \A p \in Items(o) : product[p].quantity >= Cart[o][p]

OrderDocument == [status: OrderStatus, claimed: BOOLEAN, paymentId: BOOLEAN]
Listing       == [quantity: 0..MaxStock, listed: BOOLEAN]
Call          == [pc: {"idle", "read", "claimed", "looked", "minted"},
                  order: Orders \cup {NoOrder}, gateway: Gateways,
                  seen: Payment \cup {NoPayment}, ref: Refs \cup {MockRef}]
NoCall        == [pc |-> "idle", order |-> NoOrder, gateway |-> "mock",
                  seen |-> NoPayment, ref |-> MockRef]
Tracker       == [order: Orders \cup {NoOrder},
                  state: {"unused", "minted", "open", "captured", "declined"}]
Event         == [ref: Refs, outcome: {"success", "failed"}]

TypeOK ==
  /\ order \in [Orders -> OrderDocument]
  /\ priced \subseteq Orders
  /\ payment \in [Orders -> Payment \cup {NoPayment}]
  /\ product \in [Products -> Listing]
  /\ active \in [Users -> BOOLEAN]
  /\ call \in [Calls -> Call]
  /\ tracker \in [Refs -> Tracker]
  /\ webhooks \subseteq Event
  /\ outbox \in [Orders -> Nat]
  /\ form \in [Products -> 0..MaxStock]
  /\ supplied \in [Products -> Nat]

Init ==
  /\ order = [o \in Orders |-> [status |-> "none", claimed |-> FALSE, paymentId |-> FALSE]]
  /\ priced = {}
  /\ payment = [o \in Orders |-> NoPayment]
  /\ product = [p \in Products |-> [quantity |-> InitialStock[p], listed |-> TRUE]]
  /\ active = [u \in Users |-> TRUE]
  /\ call = [c \in Calls |-> NoCall]
  /\ tracker = [r \in Refs |-> [order |-> NoOrder, state |-> "unused"]]
  /\ webhooks = {}
  /\ outbox = [o \in Orders |-> 0]
  /\ form = InitialStock
  /\ supplied = InitialStock

-----------------------------------------------------------------------------
(* OrderService *)

\* create, first half: price() validates the cart against the live listings
\* and the farmer's account; nothing is reserved.
PriceCart(o) ==
  /\ order[o].status = "none" /\ o \notin priced
  /\ Items(o) # {}
  /\ \A p \in Items(o) : product[p].listed
  /\ InStock(o)
  /\ Cardinality(Sellers(o)) = 1
  /\ \A u \in Sellers(o) : active[u]
  /\ priced' = priced \cup {o}
  /\ UNCHANGED <<order, payment, product, active, call, tracker, webhooks,
                 outbox, form, supplied>>

\* create, second half: the order is inserted with what price() read earlier.
InsertOrder(o) ==
  /\ o \in priced
  /\ priced' = priced \ {o}
  /\ order' = [order EXCEPT ![o].status = "pending"]
  /\ UNCHANGED <<payment, product, active, call, tracker, webhooks, outbox,
                 form, supplied>>

\* Mutant: the filter forgets paymentStartedAt.
UnclaimedUnlessPaid(o) == order[o].status = "pending" /\ ~order[o].paymentId

Unclaimed(o) ==
  /\ order[o].status = "pending"
  /\ ~order[o].claimed
  /\ ~order[o].paymentId

\* cancel: the checks that precede the conditional update read the same order
\* and the payments of that order, which are never deleted, so the update's
\* own filter decides; a payment document only ever follows a claim.
CancelOrder(o) ==
  /\ Unclaimed(o)
  /\ payment[o] = NoPayment
  /\ order' = [order EXCEPT ![o].status = "cancelled"]
  /\ UNCHANGED <<priced, payment, product, active, call, tracker, webhooks,
                 outbox, form, supplied>>

-----------------------------------------------------------------------------
(* PaymentService.initiate: one database command per action *)

Proceed(c, pc) == call' = [call EXCEPT ![c].pc = pc]
EndCall(c)     == call' = [call EXCEPT ![c] = NoCall]

\* The order is read and must be the caller's and pending.
InitiateRead(c, o, g) ==
  /\ call[c].pc = "idle"
  /\ order[o].status = "pending"
  /\ call' = [call EXCEPT ![c] = [pc |-> "read", order |-> o, gateway |-> g,
                                  seen |-> NoPayment, ref |-> MockRef]]
  /\ UNCHANGED <<order, priced, payment, product, active, tracker, webhooks,
                 outbox, form, supplied>>

\* The claim transaction: both accounts active, the order still pending.
InitiateClaim(c) ==
  LET o == call[c].order IN
  /\ call[c].pc = "read"
  /\ \A u \in Parties(o) : active[u]
  /\ order[o].status = "pending"
  /\ order' = [order EXCEPT ![o].claimed = TRUE]
  /\ Proceed(c, "claimed")
  /\ UNCHANGED <<priced, payment, product, active, tracker, webhooks, outbox,
                 form, supplied>>

\* The payment of the order is looked up outside the transaction.  A pending
\* payment of the same gateway ends the request, unless it is Safepay's.
InitiateLookup(c) ==
  LET seen == payment[call[c].order] IN
  /\ call[c].pc = "claimed"
  /\ \/ /\ seen # NoPayment
        /\ seen.status = "pending"
        /\ seen.gateway = call[c].gateway
        /\ call[c].gateway # "safepay"
        /\ EndCall(c)
     \/ /\ \/ seen = NoPayment
           \/ /\ seen # NoPayment
              /\ ~ /\ seen.status = "pending"
                   /\ seen.gateway = call[c].gateway
                   /\ call[c].gateway # "safepay"
        /\ call' = [call EXCEPT ![c].pc = "looked", ![c].seen = seen]
  /\ UNCHANGED <<order, priced, payment, product, active, tracker, webhooks,
                 outbox, form, supplied>>

\* beginGatewayPayment: Safepay mints a tracker, the others a local reference.
BeginGatewayPayment(c) ==
  /\ call[c].pc = "looked"
  /\ \/ /\ call[c].gateway = "safepay"
        /\ \E r \in Refs :
             /\ tracker[r].state = "unused"
             /\ tracker' = [tracker EXCEPT ![r] = [order |-> call[c].order,
                                                   state |-> "minted"]]
             /\ call' = [call EXCEPT ![c].pc = "minted", ![c].ref = r]
     \/ /\ call[c].gateway # "safepay"
        /\ Proceed(c, "minted")
        /\ UNCHANGED tracker
  /\ UNCHANGED <<order, priced, payment, product, active, webhooks, outbox,
                 form, supplied>>

\* The response carries the checkout URL: from now on the buyer can pay it.
OfferCheckout(c) ==
  tracker' = IF call[c].ref = MockRef THEN tracker
             ELSE [tracker EXCEPT ![call[c].ref].state = "open"]

\* Mongoose saves only the paths that were modified on the loaded document.
Written(seen, new, stored) == IF seen = new THEN stored ELSE new

SavedPayment(seen, gateway, ref, stored) ==
  [status  |-> Written(seen.status, "pending", stored.status),
   gateway |-> Written(seen.gateway, gateway, stored.gateway),
   ref     |-> ref]

\* existing.save(): the document loaded by InitiateLookup is written back.
SaveExisting(c) ==
  LET o == call[c].order IN
  /\ call[c].pc = "minted"
  /\ call[c].seen # NoPayment
  /\ payment' = [payment EXCEPT ![o] =
                   SavedPayment(call[c].seen, call[c].gateway, call[c].ref, payment[o])]
  /\ OfferCheckout(c)
  /\ EndCall(c)
  /\ UNCHANGED <<order, priced, product, active, webhooks, outbox, form, supplied>>

\* paymentModel.create(): refused by the unique index when another request won.
CreatePayment(c) ==
  LET o == call[c].order IN
  /\ call[c].pc = "minted"
  /\ call[c].seen = NoPayment
  /\ \/ /\ payment[o] = NoPayment
        /\ payment' = [payment EXCEPT ![o] = [status |-> "pending",
                         gateway |-> call[c].gateway, ref |-> call[c].ref]]
        /\ OfferCheckout(c)
     \/ /\ payment[o] # NoPayment
        /\ UNCHANGED <<payment, tracker>>
  /\ EndCall(c)
  /\ UNCHANGED <<order, priced, product, active, webhooks, outbox, form, supplied>>

\* The gateway call fails, a check throws, or the process dies: the claim on
\* the order stays ("never clear an uncertain gateway attempt's claim").
AbandonCall(c) ==
  /\ call[c].pc # "idle"
  /\ EndCall(c)
  /\ UNCHANGED <<order, priced, payment, product, active, tracker, webhooks,
                 outbox, form, supplied>>

-----------------------------------------------------------------------------
(* PaymentService.settle: one transaction *)

SettleFailed(o) ==
  /\ payment[o] # NoPayment
  /\ payment[o].status = "pending"
  /\ payment' = [payment EXCEPT ![o].status = "failed"]
  /\ UNCHANGED <<order, product, outbox>>

\* decrementStock
DecrementStock(o) ==
  /\ InStock(o)
  /\ product' = [p \in Products |->
       LET left == product[p].quantity - Cart[o][p] IN
       IF p \notin Items(o) THEN product[p]
       ELSE [quantity |-> left, listed |-> product[p].listed /\ left # 0]]

\* Mutant: neither the payment's nor the order's status is checked.
SettleSuccessAgain(o) ==
  /\ payment[o] # NoPayment
  /\ DecrementStock(o)
  /\ outbox' = [outbox EXCEPT ![o] = @ + 1]
  /\ payment' = [payment EXCEPT ![o].status = "success"]
  /\ order' = [order EXCEPT ![o].status = "paid", ![o].paymentId = TRUE]

\* Mutant: the ledger record is not queued with the settlement.
SettleSuccessUnrecorded(o) ==
  /\ payment[o] # NoPayment
  /\ payment[o].status = "pending"
  /\ order[o].status = "pending"
  /\ DecrementStock(o)
  /\ payment' = [payment EXCEPT ![o].status = "success"]
  /\ order' = [order EXCEPT ![o].status = "paid", ![o].paymentId = TRUE]
  /\ UNCHANGED outbox

SettleSuccess(o) ==
  /\ payment[o] # NoPayment
  /\ payment[o].status = "pending"
  /\ order[o].status = "pending"
  /\ DecrementStock(o)
  /\ outbox' = [outbox EXCEPT ![o] = @ + 1]
  /\ payment' = [payment EXCEPT ![o].status = "success"]
  /\ order' = [order EXCEPT ![o].status = "paid", ![o].paymentId = TRUE]

\* A settled payment answers a replay without touching anything.
SettleReplay(o) ==
  /\ payment[o] # NoPayment
  /\ payment[o].status = "success"
  /\ UNCHANGED <<order, payment, product, outbox>>

Settle(o, outcome) ==
  \/ SettleReplay(o)
  \/ outcome = "failed" /\ SettleFailed(o)
  \/ outcome = "success" /\ SettleSuccess(o)

\* Mutant: an event that could not be applied is acknowledged all the same.
HandleWebhookAndForget(w) ==
  /\ \/ \E o \in Orders : /\ payment[o] # NoPayment
                          /\ payment[o].ref = w.ref
                          /\ Settle(o, w.outcome)
     \/ UNCHANGED <<order, payment, product, outbox>>
  /\ webhooks' = webhooks \ {w}
  /\ UNCHANGED <<priced, active, call, tracker, form, supplied>>

\* POST /payments/webhook/safepay.  Only an answered event is acknowledged;
\* the acknowledgement may be lost, and then the gateway sends it again.
\* Events that throw (unknown tracker, payment not pending, stock too low)
\* change nothing and stay to be redelivered.
HandleWebhook(w) ==
  /\ \E o \in Orders : /\ payment[o] # NoPayment
                       /\ payment[o].ref = w.ref
                       /\ Settle(o, w.outcome)
  /\ \/ webhooks' = webhooks \ {w}
     \/ UNCHANGED webhooks
  /\ UNCHANGED <<priced, active, call, tracker, form, supplied>>

\* POST /payments/:id/simulate
Simulate(o, outcome) ==
  /\ SimulatorEnabled
  /\ Settle(o, outcome)
  /\ UNCHANGED <<priced, active, call, tracker, webhooks, form, supplied>>

\* The gateway (external): the buyer completes an open checkout, once.
GatewayResolves(r, state, outcome) ==
  /\ tracker[r].state = "open"
  /\ tracker' = [tracker EXCEPT ![r].state = state]
  /\ webhooks' = webhooks \cup {[ref |-> r, outcome |-> outcome]}
  /\ UNCHANGED <<order, priced, payment, product, active, call, outbox, form,
                 supplied>>

GatewayCaptures(r) == GatewayResolves(r, "captured", "success")
GatewayDeclines(r) == GatewayResolves(r, "declined", "failed")

-----------------------------------------------------------------------------
(* MarketplaceService.update with a quantity, AdminService.setUserStatus *)

OpenForm(p) ==
  /\ form[p] # product[p].quantity
  /\ form' = [form EXCEPT ![p] = product[p].quantity]
  /\ UNCHANGED <<order, priced, payment, product, active, call, tracker,
                 webhooks, outbox, supplied>>

\* Mutant: the update is not conditional.
StockMaybeChanged(p) == p \in Products

\* The conditional update carries the quantity the form was opened with.
StockUnchanged(p) == product[p].quantity = form[p]

\* A new quantity, and with it any status: an edit need not relist the product.
SaveStock(p, q, listed) ==
  /\ StockUnchanged(p)
  /\ product' = [product EXCEPT ![p] = [quantity |-> q, listed |-> listed]]
  /\ supplied' = [supplied EXCEPT ![p] = @ + q - form[p]]
  /\ form' = [form EXCEPT ![p] = q]
  /\ UNCHANGED <<order, priced, payment, active, call, tracker, webhooks, outbox>>

\* An edit without a quantity, a removal or a moderation sets the status only.
UpdateListing(p, listed) ==
  /\ product[p].listed # listed
  /\ product' = [product EXCEPT ![p].listed = listed]
  /\ UNCHANGED <<order, priced, payment, active, call, tracker, webhooks, outbox,
                 form, supplied>>

\* Mutant: a claim without a payment document does not count.
HoldsAccountsOncePaid(o) ==
  \/ order[o].status = "paid"
  \/ order[o].status = "pending" /\ (order[o].paymentId \/ payment[o] # NoPayment)

\* Orders that forbid suspending a party: paid and unresolved, or claimed.
HoldsAccounts(o) ==
  \/ order[o].status = "paid"
  \/ /\ order[o].status = "pending"
     /\ order[o].claimed \/ order[o].paymentId \/ payment[o] # NoPayment

Suspend(u) ==
  /\ active[u]
  /\ \A o \in Orders : u \in Parties(o) => ~HoldsAccounts(o)
  /\ active' = [active EXCEPT ![u] = FALSE]
  /\ UNCHANGED <<order, priced, payment, product, call, tracker, webhooks,
                 outbox, form, supplied>>

Reactivate(u) ==
  /\ ~active[u]
  /\ active' = [active EXCEPT ![u] = TRUE]
  /\ UNCHANGED <<order, priced, payment, product, call, tracker, webhooks,
                 outbox, form, supplied>>

-----------------------------------------------------------------------------
InitiateStep(c) ==
  \/ InitiateClaim(c)
  \/ InitiateLookup(c)
  \/ BeginGatewayPayment(c)
  \/ SaveExisting(c)
  \/ CreatePayment(c)
  \/ AbandonCall(c)

Next ==
  \/ \E o \in Orders : PriceCart(o) \/ InsertOrder(o) \/ CancelOrder(o)
  \/ \E c \in Calls, o \in Orders, g \in Gateways : InitiateRead(c, o, g)
  \/ \E c \in Calls : InitiateStep(c)
  \/ \E w \in webhooks : HandleWebhook(w)
  \/ \E o \in Orders, outcome \in {"success", "failed"} : Simulate(o, outcome)
  \/ \E r \in Refs : GatewayCaptures(r) \/ GatewayDeclines(r)
  \/ \E p \in Products : OpenForm(p)
  \/ \E p \in Products, listed \in BOOLEAN :
       UpdateListing(p, listed) \/ \E q \in 0..MaxStock : SaveStock(p, q, listed)
  \/ \E u \in Users : Suspend(u) \/ Reactivate(u)

Spec == Init /\ [][Next]_vars

\* The gateway redelivers an unacknowledged event until it is answered.
Fairness == \A r \in Refs, outcome \in {"success", "failed"} :
              WF_vars(/\ [ref |-> r, outcome |-> outcome] \in webhooks
                      /\ HandleWebhook([ref |-> r, outcome |-> outcome]))

FairSpec == Spec /\ Fairness
-----------------------------------------------------------------------------
(* Properties *)

\* Cancellation excludes payment: once a draft is cancelled no request holds a
\* payment claim on it, no payment document exists and no gateway session was
\* ever opened for it, so the buyer cannot be charged for it.  This is the race
\* between OrderService.cancel and PaymentService.initiate.
CancelledNeverPayable ==
  \A o \in Orders : order[o].status = "cancelled" =>
    /\ payment[o] = NoPayment
    /\ \A r \in Refs : tracker[r].order # o
    /\ \A c \in Calls : call[c].order = o => call[c].pc = "read"

\* Stock is neither lost nor sold twice: what a listing shows plus what paid
\* orders took is what the farmer supplied, whatever stale form he saves while
\* settlements decrement the same product (the expectedQuantity condition).
TakenBy(p) == [o \in Orders |-> IF order[o].status = "paid" THEN Cart[o][p] ELSE 0]
Sold(p)    == SumFunctionOnSet(TakenBy(p), Orders)
StockConserved == \A p \in Products : product[p].quantity + Sold(p) = supplied[p]

\* A settlement takes effect once: a paid order has exactly one ledger record
\* and its payment id, any other has neither, whatever webhooks are repeated,
\* arrive late or race with a new initiation.  With the simulator off, it is
\* paid only if the gateway captured the money on a session of that very order.
SettledExactlyOnce ==
  /\ TypeOK
  /\ \A o \in Orders :
       /\ outbox[o] = (IF order[o].status = "paid" THEN 1 ELSE 0)
       /\ order[o].paymentId = (order[o].status = "paid")
       /\ order[o].status = "paid" /\ ~SimulatorEnabled =>
            \E r \in Refs : tracker[r] = [order |-> o, state |-> "captured"]

\* From the claim of a payment to the paid order, buyer and farmer stay active:
\* suspension and the claim serialize on the user documents.
ClaimedPartiesActive ==
  \A o \in Orders : order[o].claimed /\ order[o].status \in {"pending", "paid"} =>
    \A u \in Parties(o) : active[u]

\* Captured money is settled: the session a payment currently refers to, once
\* captured, ends in a paid order, unless the event cannot be applied: the
\* reference was replaced by a new initiation or the stock has run out.
CapturedSettles ==
  \A r \in Refs, o \in Orders :
    (tracker[r] = [order |-> o, state |-> "captured"])
      ~> \/ order[o].status = "paid"
         \/ payment[o] = NoPayment
         \/ payment[o] # NoPayment /\ (payment[o].ref # r \/ payment[o].status = "failed")
         \/ ~InStock(o)

\* A payment is (re)opened only for a pending order: "Only a pending order can
\* receive a new payment".
OnlyPendingReceivesPayment ==
  [][\A o \in Orders :
       /\ payment'[o] # NoPayment
       /\ payment'[o].status = "pending"
       /\ (payment[o] # NoPayment => payment[o].status # "pending")
       => order[o].status = "pending"]_vars

(* The promise kept about every order: see OrderLifecycle *)

Lifecycle == INSTANCE OrderLifecycle WITH
  stage   <- [o \in Orders |-> order[o].status],
  money   <- [o \in Orders |-> IF outbox[o] > 0 THEN "held" ELSE "none"],
  goods   <- [o \in Orders |-> NoOrder],
  Drivers <- {},
  AtFarm  <- NoOrder,   \* no goods move before the order is paid
  AtBuyer <- NoPayment

\* Checkout implements the first half of the abstract order: a draft is placed,
\* abandoned or paid, and paid and recorded in the same step.
ImplementsLifecycle == Lifecycle!Spec
=============================================================================
