------------------------- MODULE OrderPaymentProofs -------------------------
(***************************************************************************)
(* Safety of OrderPayment for every number of orders, products, users,     *)
(* concurrent requests and gateway sessions.  The properties speak of      *)
(* orders; what makes them inductive is what a request in progress, a      *)
(* session and an unacknowledged event say about the order they belong to. *)
(***************************************************************************)
EXTENDS OrderPayment, SumTheorems

\* The claim on an order is the gate: only a claimed draft ever has a payment
\* document or a gateway session, and a claimed order is not cancelled.
ClaimsOK ==
  \A o \in Orders :
    /\ o \in priced => order[o].status = "none"
    /\ order[o].claimed => order[o].status \in {"pending", "paid"}
    /\ payment[o] # NoPayment => order[o].claimed
    /\ \A r \in Refs : tracker[r].order = o => order[o].claimed

\* Past its first step a request holds the claim of its order; a payment it has
\* seen is still there; and it carries a reference only once it has minted one.
CallOK(k) ==
  /\ k.pc = "idle" <=> k.order = NoOrder
  /\ k.pc \in {"claimed", "looked", "minted"} => order[k.order].claimed
  /\ k.seen # NoPayment => k.pc # "idle" /\ payment[k.order] # NoPayment
  /\ k.pc # "minted" => k.ref = MockRef
CallsOK == \A c \in Calls : CallOK(call[c])

\* A session belongs to one order for ever: the request that minted it is the
\* only one to hold it until it is opened, the payment that refers to it is
\* that order's, and a success event means that the session was captured.
SessionsOK ==
  /\ \A c \in Calls : call[c].ref \in Refs =>
       /\ tracker[call[c].ref] = [order |-> call[c].order, state |-> "minted"]
       /\ \A d \in Calls \ {c} : call[d].ref # call[c].ref
  /\ \A o \in Orders : payment[o] # NoPayment /\ payment[o].ref \in Refs =>
       tracker[payment[o].ref].order = o
  /\ \A r \in Refs : tracker[r].state = "unused" => tracker[r].order = NoOrder
  /\ \A w \in webhooks : w.outcome = "success" => tracker[w.ref].state = "captured"

\* A farmer has supplied at least what his listing shows: a stale form cannot
\* take the declared total below zero.
SupplyCovers == \A p \in Products : product[p].quantity <= supplied[p]

\* What a settlement leaves behind (SettledExactlyOnce without TypeOK).
SettledOnce ==
  \A o \in Orders :
    /\ outbox[o] = (IF order[o].status = "paid" THEN 1 ELSE 0)
    /\ order[o].paymentId = (order[o].status = "paid")
    /\ order[o].status = "paid" /\ ~SimulatorEnabled =>
         \E r \in Refs : tracker[r] = [order |-> o, state |-> "captured"]

IInv == /\ TypeOK
        /\ ClaimsOK
        /\ CallsOK
        /\ SessionsOK
        /\ SettledOnce
        /\ ClaimedPartiesActive
        /\ SupplyCovers

-----------------------------------------------------------------------------
\* Which variables each part of the invariant reads: a step that leaves them
\* alone keeps that part.
LEMMA Frames ==
  /\ ClaimsOK /\ UNCHANGED <<order, priced, payment, tracker>> => ClaimsOK'
  /\ CallsOK /\ UNCHANGED <<order, payment, call>> => CallsOK'
  /\ SessionsOK /\ UNCHANGED <<payment, call, tracker, webhooks>> => SessionsOK'
  /\ SettledOnce /\ UNCHANGED <<order, tracker, outbox>> => SettledOnce'
  /\ ClaimedPartiesActive /\ UNCHANGED <<order, active>> => ClaimedPartiesActive'
  /\ SupplyCovers /\ UNCHANGED <<product, supplied>> => SupplyCovers'
<1>1. ClaimsOK /\ UNCHANGED <<order, priced, payment, tracker>> => ClaimsOK'
  BY DEF ClaimsOK
<1>2. CallsOK /\ UNCHANGED <<order, payment, call>> => CallsOK'
  BY DEF CallsOK, CallOK
<1>3. SessionsOK /\ UNCHANGED <<payment, call, tracker, webhooks>> => SessionsOK'
  BY DEF SessionsOK
<1>4. SettledOnce /\ UNCHANGED <<order, tracker, outbox>> => SettledOnce'
  BY DEF SettledOnce
<1>5. ClaimedPartiesActive /\ UNCHANGED <<order, active>> => ClaimedPartiesActive'
  BY DEF ClaimedPartiesActive
<1>6. SupplyCovers /\ UNCHANGED <<product, supplied>> => SupplyCovers'
  BY DEF SupplyCovers
<1>q. QED
  BY <1>1, <1>2, <1>3, <1>4, <1>5, <1>6

-----------------------------------------------------------------------------
(* The order's own operations *)

\* Pricing reserves nothing.
LEMMA PriceCartStep ==
  ASSUME IInv, NEW o \in Orders, PriceCart(o)
  PROVE  IInv'
<1>1. TypeOK'
  BY DEF IInv, TypeOK, PriceCart
<1>2. ClaimsOK'
  BY DEF IInv, ClaimsOK, PriceCart
<1>q. QED
  BY <1>1, <1>2, Frames DEF IInv, PriceCart

\* A priced request becomes a draft that nobody has claimed.
LEMMA InsertOrderStep ==
  ASSUME IInv, NEW o \in Orders, InsertOrder(o)
  PROVE  IInv'
<1>0. /\ order \in [Orders -> OrderDocument] /\ order[o].status = "none"
      /\ order' \in [Orders -> OrderDocument]
      /\ order'[o] = [order[o] EXCEPT !.status = "pending"]
      /\ \A q \in Orders \ {o} : order'[q] = order[q]
  BY DEF TypeOK, IInv, ClaimsOK, InsertOrder, OrderDocument, OrderStatus
<1>1. TypeOK'
  BY <1>0 DEF IInv, TypeOK, InsertOrder
<1>2. ClaimsOK'
  BY <1>0 DEF IInv, ClaimsOK, InsertOrder, OrderDocument
<1>3. CallsOK'
  <2>1. \A q \in Orders : order'[q].claimed = order[q].claimed
    BY <1>0 DEF OrderDocument
  <2>q. QED
    BY <2>1 DEF TypeOK, IInv, CallsOK, CallOK, InsertOrder, Call
<1>4. SettledOnce'
  BY <1>0 DEF IInv, SettledOnce, InsertOrder, OrderDocument
<1>5. ClaimedPartiesActive'
  BY <1>0 DEF IInv, ClaimsOK, ClaimedPartiesActive, InsertOrder, OrderDocument
<1>q. QED
  BY <1>1, <1>2, <1>3, <1>4, <1>5, Frames DEF IInv, InsertOrder

\* Cancellation needs an unclaimed draft, so no request and no session has it.
LEMMA CancelOrderStep ==
  ASSUME IInv, NEW o \in Orders, CancelOrder(o)
  PROVE  IInv'
<1>0. /\ order \in [Orders -> OrderDocument] /\ order[o].status = "pending" /\ ~order[o].claimed
      /\ order' \in [Orders -> OrderDocument]
      /\ order'[o] = [order[o] EXCEPT !.status = "cancelled"]
      /\ \A q \in Orders \ {o} : order'[q] = order[q]
  BY DEF TypeOK, IInv, CancelOrder, Unclaimed, OrderDocument, OrderStatus
<1>1. TypeOK'
  BY <1>0 DEF IInv, TypeOK, CancelOrder
<1>2. ClaimsOK'
  BY <1>0 DEF IInv, ClaimsOK, CancelOrder, OrderDocument
<1>3. CallsOK'
  <2>1. \A q \in Orders : order'[q].claimed = order[q].claimed
    BY <1>0 DEF OrderDocument
  <2>q. QED
    BY <2>1 DEF TypeOK, IInv, CallsOK, CallOK, CancelOrder, Call
<1>4. SettledOnce'
  BY <1>0 DEF IInv, SettledOnce, CancelOrder, OrderDocument
<1>5. ClaimedPartiesActive'
  BY <1>0 DEF IInv, ClaimedPartiesActive, CancelOrder, OrderDocument
<1>q. QED
  BY <1>1, <1>2, <1>3, <1>4, <1>5, Frames DEF IInv, CancelOrder

-----------------------------------------------------------------------------
(* The steps of a payment request *)

\* A step that writes one request leaves the others alone.
LEMMA OneCall ==
  ASSUME TypeOK, NEW c \in Calls, NEW k \in Call, call' = [call EXCEPT ![c] = k]
  PROVE  /\ call' \in [Calls -> Call]
         /\ call'[c] = k
         /\ \A d \in Calls \ {c} : call'[d] = call[d]
BY DEF TypeOK


\* A payment document of a claimed order keeps what the invariant says of
\* claims and of the other requests, however it was written.
LEMMA PaymentWritten ==
  ASSUME IInv, NEW o \in Orders, order[o].claimed, UNCHANGED <<order, priced>>,
         \A q \in Orders \ {o} : payment'[q] = payment[q],
         \A r \in Refs : tracker'[r].order = tracker[r].order
  PROVE  ClaimsOK'
BY DEF IInv, ClaimsOK

\* A request that ends, at whatever step, leaves a free slot.
LEMMA CallEnds ==
  ASSUME IInv, NEW c \in Calls, EndCall(c), UNCHANGED order,
         \A o \in Orders : payment[o] # NoPayment => payment'[o] # NoPayment
  PROVE  /\ call' \in [Calls -> Call] /\ call'[c] = NoCall
         /\ \A d \in Calls \ {c} : call'[d] = call[d]
         /\ CallsOK'
<1>1. NoCall \in Call
  BY DEF NoCall, Call, Gateways
<1>2. /\ call' \in [Calls -> Call]
      /\ call'[c] = NoCall
      /\ \A d \in Calls \ {c} : call'[d] = call[d]
  BY <1>1, OneCall DEF IInv, EndCall
<1>3. CallsOK'
  BY <1>2, OrderAssumption DEF IInv, TypeOK, CallsOK, CallOK, NoCall, Call
<1>q. QED
  BY <1>2, <1>3

\* The order is read: the request starts, and holds nothing yet.
LEMMA InitiateReadStep ==
  ASSUME IInv, NEW c \in Calls, NEW o \in Orders, NEW g \in Gateways, InitiateRead(c, o, g)
  PROVE  IInv'
<1> DEFINE k == [pc |-> "read", order |-> o, gateway |-> g, seen |-> NoPayment, ref |-> MockRef]
<1>0. k \in Call
  BY DEF Call
<1>1. /\ call' \in [Calls -> Call] /\ call'[c] = k
      /\ \A d \in Calls \ {c} : call'[d] = call[d]
  BY <1>0, OneCall DEF IInv, InitiateRead
<1>2. TypeOK'
  BY <1>1 DEF IInv, TypeOK, InitiateRead
<1>3. CallsOK'
  BY <1>1, OrderAssumption DEF IInv, CallsOK, CallOK, InitiateRead
<1>4. SessionsOK'
  BY <1>1, RefAssumption DEF IInv, SessionsOK, InitiateRead
<1>q. QED
  BY <1>2, <1>3, <1>4, Frames DEF IInv, InitiateRead

\* The claim: the order is still a draft and its parties are active.
LEMMA InitiateClaimStep ==
  ASSUME IInv, NEW c \in Calls, InitiateClaim(c)
  PROVE  IInv'
<1> DEFINE o == call[c].order
           k == [call[c] EXCEPT !.pc = "claimed"]
<1>0. /\ call[c] \in Call /\ call[c].pc = "read" /\ o \in Orders
      /\ k \in Call /\ k.pc = "claimed" /\ k.order = o /\ k.seen = call[c].seen
      /\ k.ref = MockRef
  BY DEF IInv, TypeOK, CallsOK, CallOK, InitiateClaim, Call
<1>1. /\ call' \in [Calls -> Call] /\ call'[c] = k
      /\ \A d \in Calls \ {c} : call'[d] = call[d]
  <2>1. call' = [call EXCEPT ![c] = k]
    BY DEF IInv, TypeOK, InitiateClaim, Proceed
  <2>q. QED
    BY <1>0, <2>1, OneCall DEF IInv
<1>2. /\ order[o].status = "pending" /\ \A u \in Parties(o) : active[u]
      /\ order' = [order EXCEPT ![o].claimed = TRUE]
      /\ UNCHANGED <<priced, payment, product, active, tracker, webhooks, outbox, form, supplied>>
  BY DEF InitiateClaim
<1> HIDE DEF o, k
<1>3. /\ order' \in [Orders -> OrderDocument]
      /\ order'[o] = [order[o] EXCEPT !.claimed = TRUE]
      /\ \A q \in Orders \ {o} : order'[q] = order[q]
      /\ \A q \in Orders : /\ order[q] \in OrderDocument
                           /\ order'[q].status = order[q].status
                           /\ order'[q].paymentId = order[q].paymentId
                           /\ order[q].claimed => order'[q].claimed
      /\ order'[o].claimed
  BY <1>0, <1>2 DEF IInv, TypeOK, OrderDocument
<1>4. TypeOK'
  BY <1>1, <1>2, <1>3 DEF IInv, TypeOK
<1>5. ClaimsOK'
  BY <1>2, <1>3 DEF IInv, ClaimsOK
<1>6. CallsOK'
  <2>1. CallOK(call[c])'
    BY <1>0, <1>1, <1>2, <1>3, OrderAssumption DEF IInv, CallsOK, CallOK, o
  <2>2. ASSUME NEW d \in Calls \ {c}
        PROVE  CallOK(call[d])'
    BY <1>1, <1>2, <1>3 DEF IInv, TypeOK, CallsOK, CallOK, Call
  <2>q. QED
    BY <1>1, <2>1, <2>2 DEF CallsOK
<1>7. SessionsOK'
  BY <1>0, <1>1, <1>2, RefAssumption DEF IInv, SessionsOK
<1>8. SettledOnce'
  BY <1>2, <1>3 DEF IInv, SettledOnce
<1>9. ClaimedPartiesActive'
  BY <1>2, <1>3 DEF IInv, ClaimedPartiesActive
<1>q. QED
  BY <1>2, <1>4, <1>5, <1>6, <1>7, <1>8, <1>9, Frames DEF IInv

\* The lookup keeps what it saw, or ends the request.
LEMMA InitiateLookupStep ==
  ASSUME IInv, NEW c \in Calls, InitiateLookup(c)
  PROVE  IInv'
<1> DEFINE o == call[c].order
           k == [call[c] EXCEPT !.pc = "looked", !.seen = payment[o]]
<1>0. UNCHANGED <<order, priced, payment, product, active, tracker, webhooks, outbox, form, supplied>>
  BY DEF InitiateLookup
<1>1. CASE EndCall(c)
  <2>1. /\ call' \in [Calls -> Call] /\ call'[c] = NoCall
        /\ \A d \in Calls \ {c} : call'[d] = call[d]
        /\ CallsOK'
    BY <1>0, <1>1, CallEnds
  <2>2. SessionsOK'
    BY <1>0, <2>1, RefAssumption DEF IInv, SessionsOK, NoCall
  <2>3. TypeOK'
    BY <1>0, <2>1 DEF IInv, TypeOK
  <2>q. QED
    BY <1>0, <2>1, <2>2, <2>3, Frames DEF IInv
<1>2. CASE call' = [call EXCEPT ![c].pc = "looked", ![c].seen = payment[o]]
  <2>1. /\ call[c] \in Call /\ call[c].pc = "claimed" /\ o \in Orders /\ order[o].claimed
        /\ k \in Call /\ k.pc = "looked" /\ k.order = o /\ k.seen = payment[o]
        /\ k.ref = MockRef
    BY OrderAssumption DEF IInv, TypeOK, CallsOK, CallOK, InitiateLookup, Call
  <2>2. /\ call' \in [Calls -> Call] /\ call'[c] = k
        /\ \A d \in Calls \ {c} : call'[d] = call[d]
    <3>1. call' = [call EXCEPT ![c] = k]
      BY <1>2 DEF IInv, TypeOK
    <3>q. QED
      BY <2>1, <3>1, OneCall DEF IInv
  <2> HIDE DEF o, k
  <2>3. TypeOK'
    BY <1>0, <2>2 DEF IInv, TypeOK
  <2>4. CallsOK'
    BY <1>0, <2>1, <2>2, OrderAssumption DEF IInv, CallsOK, CallOK
  <2>5. SessionsOK'
    BY <1>0, <2>1, <2>2, RefAssumption DEF IInv, SessionsOK
  <2>q. QED
    BY <1>0, <2>3, <2>4, <2>5, Frames DEF IInv
<1>q. QED
  BY <1>1, <1>2 DEF InitiateLookup

\* Minting takes an unused session, so no request and no payment has it.
LEMMA BeginGatewayPaymentStep ==
  ASSUME IInv, NEW c \in Calls, BeginGatewayPayment(c)
  PROVE  IInv'
<1> DEFINE o == call[c].order
<1>0. /\ UNCHANGED <<order, priced, payment, product, active, webhooks, outbox, form, supplied>>
      /\ call[c] \in Call /\ call[c].pc = "looked" /\ o \in Orders /\ order[o].claimed
      /\ call[c].ref = MockRef
  BY OrderAssumption DEF IInv, TypeOK, CallsOK, CallOK, BeginGatewayPayment, Call
<1>1. ASSUME NEW r \in Refs, tracker[r].state = "unused",
             tracker' = [tracker EXCEPT ![r] = [order |-> o, state |-> "minted"]],
             call' = [call EXCEPT ![c].pc = "minted", ![c].ref = r]
      PROVE  IInv'
  <2> DEFINE k == [call[c] EXCEPT !.pc = "minted", !.ref = r]
  <2>1. k \in Call /\ k.pc = "minted" /\ k.order = o /\ k.seen = call[c].seen /\ k.ref = r
    BY <1>0 DEF Call
  <2>2. /\ call' \in [Calls -> Call] /\ call'[c] = k
        /\ \A d \in Calls \ {c} : call'[d] = call[d]
    <3>1. call' = [call EXCEPT ![c] = k]
      BY <1>1 DEF IInv, TypeOK
    <3>q. QED
      BY <2>1, <3>1, OneCall DEF IInv
  <2>3. /\ tracker' \in [Refs -> Tracker]
        /\ tracker'[r] = [order |-> o, state |-> "minted"]
        /\ \A q \in Refs \ {r} : tracker'[q] = tracker[q]
    BY <1>0, <1>1 DEF IInv, TypeOK, Tracker
  <2> HIDE DEF o, k
  <2>4. tracker[r].order = NoOrder /\ \A d \in Calls : call[d].ref # r
    <3>1. ASSUME NEW d \in Calls, call[d].ref = r PROVE FALSE
      <4>1. tracker[r] = [order |-> call[d].order, state |-> "minted"]
        BY <3>1 DEF IInv, SessionsOK
      <4>q. QED
        BY <1>1, <4>1
    <3>q. QED
      BY <1>1, <3>1 DEF IInv, SessionsOK
  <2>5. TypeOK'
    BY <1>0, <2>2, <2>3 DEF IInv, TypeOK
  <2>6. ClaimsOK'
    BY <1>0, <2>3 DEF IInv, ClaimsOK
  <2>7. CallsOK'
    <3>1. CallOK(call[c])'
      BY <1>0, <2>1, <2>2, OrderAssumption DEF IInv, CallsOK, CallOK, o
    <3>2. \A d \in Calls \ {c} : CallOK(call[d])'
      BY <1>0, <2>2 DEF IInv, CallsOK, CallOK
    <3>q. QED
      BY <2>2, <3>1, <3>2 DEF CallsOK
  <2>8. SessionsOK'
    <3>1. \A d \in Calls : call'[d].ref \in Refs =>
            /\ tracker'[call'[d].ref] = [order |-> call'[d].order, state |-> "minted"]
            /\ \A e \in Calls \ {d} : call'[e].ref # call'[d].ref
      <4>1. ASSUME NEW d \in Calls \ {c}, call[d].ref \in Refs
            PROVE  tracker'[call[d].ref] = [order |-> call[d].order, state |-> "minted"]
        BY <2>3, <2>4, <4>1 DEF IInv, SessionsOK
      <4>2. ASSUME NEW d \in Calls \ {c}, NEW e \in Calls \ {d}, call[d].ref \in Refs
            PROVE  call'[e].ref # call[d].ref
        BY <2>1, <2>2, <2>4, <4>2 DEF IInv, SessionsOK
      <4>3. \A e \in Calls \ {c} : call'[e].ref # r
        BY <2>2, <2>4
      <4>q. QED
        BY <2>1, <2>2, <2>3, <4>1, <4>2, <4>3
    <3>2. \A q \in Orders : payment[q] # NoPayment /\ payment[q].ref \in Refs =>
            tracker'[payment[q].ref].order = q
      BY <2>3, <2>4, OrderAssumption DEF IInv, SessionsOK
    <3>3. \A q \in Refs : tracker'[q].state = "unused" => tracker'[q].order = NoOrder
      BY <2>3 DEF IInv, SessionsOK
    <3>4. \A w \in webhooks : w.outcome = "success" => tracker'[w.ref].state = "captured"
      BY <1>1, <2>3 DEF IInv, SessionsOK, TypeOK, Event
    <3>q. QED
      BY <1>0, <3>1, <3>2, <3>3, <3>4 DEF SessionsOK
  <2>9. SettledOnce'
    BY <1>0, <1>1, <2>3 DEF IInv, SettledOnce
  <2>q. QED
    BY <1>0, <2>5, <2>6, <2>7, <2>8, <2>9, Frames DEF IInv
<1>2. ASSUME Proceed(c, "minted"), UNCHANGED tracker
      PROVE  IInv'
  <2> DEFINE k == [call[c] EXCEPT !.pc = "minted"]
  <2>1. k \in Call /\ k.pc = "minted" /\ k.order = o /\ k.seen = call[c].seen /\ k.ref = MockRef
    BY <1>0 DEF Call
  <2>2. /\ call' \in [Calls -> Call] /\ call'[c] = k
        /\ \A d \in Calls \ {c} : call'[d] = call[d]
    <3>1. call' = [call EXCEPT ![c] = k]
      BY <1>2 DEF IInv, TypeOK, Proceed
    <3>q. QED
      BY <2>1, <3>1, OneCall DEF IInv
  <2> HIDE DEF o, k
  <2>5. TypeOK'
    BY <1>0, <1>2, <2>2 DEF IInv, TypeOK
  <2>7. CallsOK'
    <3>1. CallOK(call[c])'
      BY <1>0, <2>1, <2>2, OrderAssumption DEF IInv, CallsOK, CallOK, o
    <3>2. \A d \in Calls \ {c} : CallOK(call[d])'
      BY <1>0, <2>2 DEF IInv, CallsOK, CallOK
    <3>q. QED
      BY <2>2, <3>1, <3>2 DEF CallsOK
  <2>8. SessionsOK'
    BY <1>0, <1>2, <2>1, <2>2, RefAssumption DEF IInv, SessionsOK
  <2>q. QED
    BY <1>0, <1>2, <2>5, <2>7, <2>8, Frames DEF IInv
<1>q. QED
  BY <1>1, <1>2 DEF BeginGatewayPayment

\* The end of a successful request: the payment document refers to the session
\* the request has minted, the session opens, the request is over.
LEMMA PaymentOffered ==
  ASSUME IInv, NEW c \in Calls, call[c].pc = "minted",
         NEW doc \in Payment, doc.ref = call[c].ref,
         payment' = [payment EXCEPT ![call[c].order] = doc],
         OfferCheckout(c), EndCall(c),
         UNCHANGED <<order, priced, product, active, webhooks, outbox, form, supplied>>
  PROVE  IInv'
<1> DEFINE o == call[c].order
           r == call[c].ref
<1>0. /\ call[c] \in Call /\ o \in Orders /\ order[o].claimed
      /\ r \in Refs => /\ tracker[r] = [order |-> o, state |-> "minted"]
                       /\ \A d \in Calls \ {c} : call[d].ref # r
      /\ r \in Refs \cup {MockRef}
  BY OrderAssumption DEF IInv, TypeOK, CallsOK, CallOK, SessionsOK, Call
<1>1. /\ payment' \in [Orders -> Payment \cup {NoPayment}]
      /\ payment'[o] = doc /\ doc # NoPayment
      /\ \A q \in Orders \ {o} : payment'[q] = payment[q]
  BY <1>0, NullPaymentAssumption DEF IInv, TypeOK
<1>2. /\ call' \in [Calls -> Call] /\ call'[c] = NoCall
      /\ \A d \in Calls \ {c} : call'[d] = call[d]
      /\ CallsOK'
  <2>1. \A q \in Orders : payment[q] # NoPayment => payment'[q] # NoPayment
    BY <1>1
  <2>q. QED
    BY <2>1, CallEnds
<1>3. /\ tracker' \in [Refs -> Tracker]
      /\ r \in Refs => tracker'[r] = [order |-> o, state |-> "open"]
      /\ \A q \in Refs \ {r} : tracker'[q] = tracker[q]
      /\ \A q \in Refs : tracker'[q].order = tracker[q].order
  <2>1. CASE r = MockRef
    BY <2>1, RefAssumption DEF OfferCheckout, IInv, TypeOK
  <2>2. CASE r # MockRef
    <3>1. r \in Refs /\ tracker' = [tracker EXCEPT ![r].state = "open"]
      BY <1>0, <2>2 DEF OfferCheckout
    <3>2. tracker \in [Refs -> Tracker] /\ tracker[r].order = o
      BY <1>0, <3>1 DEF IInv, TypeOK
    <3>q. QED
      BY <3>1, <3>2 DEF Tracker
  <2>q. QED
    BY <2>1, <2>2
<1> HIDE DEF o, r
<1>4. TypeOK'
  BY <1>1, <1>2, <1>3 DEF IInv, TypeOK
<1>5. ClaimsOK'
  BY <1>0, <1>1, <1>3, PaymentWritten
<1>6. SessionsOK'
  <2>1. ASSUME NEW d \in Calls, call'[d].ref \in Refs
        PROVE  /\ tracker'[call'[d].ref] = [order |-> call'[d].order, state |-> "minted"]
               /\ \A e \in Calls \ {d} : call'[e].ref # call'[d].ref
    <3>1. d # c /\ call'[d] = call[d]
      BY <1>2, <2>1, RefAssumption DEF NoCall
    <3>2. call[d].ref # r
      BY <1>0, <2>1, <3>1
    <3>3. /\ tracker[call[d].ref] = [order |-> call[d].order, state |-> "minted"]
          /\ \A e \in Calls \ {d} : call[e].ref # call[d].ref
      BY <2>1, <3>1 DEF IInv, SessionsOK
    <3>4. tracker'[call[d].ref] = tracker[call[d].ref]
      BY <1>3, <2>1, <3>1, <3>2
    <3>5. call'[c].ref # call[d].ref
      BY <1>2, <2>1, <3>1, RefAssumption DEF NoCall
    <3>q. QED
      BY <1>2, <3>1, <3>3, <3>4, <3>5
  <2>2. ASSUME NEW q \in Orders, payment'[q] # NoPayment, payment'[q].ref \in Refs
        PROVE  tracker'[payment'[q].ref].order = q
    BY <1>0, <1>1, <1>3, <2>2 DEF IInv, SessionsOK, r
  <2>3. \A q \in Refs : tracker'[q].state = "unused" => tracker'[q].order = NoOrder
    BY <1>3 DEF IInv, SessionsOK
  <2>4. \A w \in webhooks : w.outcome = "success" => tracker'[w.ref].state = "captured"
    BY <1>0, <1>3 DEF IInv, SessionsOK, TypeOK, Event
  <2>q. QED
    BY <2>1, <2>2, <2>3, <2>4 DEF SessionsOK
<1>7. SettledOnce'
  <2>1. ASSUME NEW q \in Refs, tracker[q].state = "captured"
        PROVE  tracker'[q] = tracker[q]
    BY <1>0, <1>3, <2>1
  <2>q. QED
    BY <2>1 DEF IInv, SettledOnce
<1>q. QED
  BY <1>2, <1>4, <1>5, <1>6, <1>7, Frames DEF IInv

\* The document loaded by the lookup is written back.
LEMMA SaveExistingStep ==
  ASSUME IInv, NEW c \in Calls, SaveExisting(c)
  PROVE  IInv'
<1> DEFINE o == call[c].order
           doc == SavedPayment(call[c].seen, call[c].gateway, call[c].ref, payment[o])
<1>1. /\ call[c] \in Call /\ o \in Orders /\ payment[o] \in Payment
      /\ call[c].pc = "minted"
  BY OrderAssumption DEF IInv, TypeOK, CallsOK, CallOK, SaveExisting, Call
<1>2. doc \in Payment /\ doc.ref = call[c].ref
  BY <1>1 DEF SavedPayment, Written, Payment, PaymentStatus, Call
<1>q. QED
  BY <1>1, <1>2, PaymentOffered DEF SaveExisting

\* A first payment document is created, unless another request was faster.
LEMMA CreatePaymentStep ==
  ASSUME IInv, NEW c \in Calls, CreatePayment(c)
  PROVE  IInv'
<1> DEFINE o == call[c].order
           doc == [status |-> "pending", gateway |-> call[c].gateway, ref |-> call[c].ref]
<1>1. call[c] \in Call /\ call[c].pc = "minted"
  BY DEF IInv, TypeOK, CreatePayment
<1>2. CASE payment' = [payment EXCEPT ![o] = doc] /\ OfferCheckout(c)
  <2>1. doc \in Payment /\ doc.ref = call[c].ref
    BY <1>1 DEF Payment, PaymentStatus, Call
  <2>q. QED
    BY <1>1, <1>2, <2>1, PaymentOffered DEF CreatePayment
<1>3. CASE UNCHANGED <<payment, tracker>>
  <2>1. /\ call' \in [Calls -> Call] /\ call'[c] = NoCall
        /\ \A d \in Calls \ {c} : call'[d] = call[d]
        /\ CallsOK'
    BY <1>3, CallEnds DEF CreatePayment
  <2>2. SessionsOK'
    BY <1>3, <2>1, RefAssumption DEF IInv, SessionsOK, NoCall, CreatePayment
  <2>3. TypeOK'
    BY <1>3, <2>1 DEF IInv, TypeOK, CreatePayment
  <2>q. QED
    BY <1>3, <2>1, <2>2, <2>3, Frames DEF IInv, CreatePayment
<1>q. QED
  BY <1>2, <1>3 DEF CreatePayment

\* A request that dies leaves its claim and its session behind.
LEMMA AbandonCallStep ==
  ASSUME IInv, NEW c \in Calls, AbandonCall(c)
  PROVE  IInv'
<1>1. /\ call' \in [Calls -> Call] /\ call'[c] = NoCall
      /\ \A d \in Calls \ {c} : call'[d] = call[d]
      /\ CallsOK'
  BY CallEnds DEF AbandonCall
<1>2. SessionsOK'
  BY <1>1, RefAssumption DEF IInv, SessionsOK, NoCall, AbandonCall
<1>3. TypeOK'
  BY <1>1 DEF IInv, TypeOK, AbandonCall
<1>q. QED
  BY <1>1, <1>2, <1>3, Frames DEF IInv, AbandonCall

-----------------------------------------------------------------------------
(* Settlement *)

\* The stock a settlement takes was there.
LEMMA DecrementKeepsStock ==
  ASSUME TypeOK, NEW o \in Orders, DecrementStock(o)
  PROVE  /\ product' \in [Products -> Listing]
         /\ \A p \in Products : product'[p].quantity <= product[p].quantity
<1> DEFINE left(p) == product[p].quantity - Cart[o][p]
           sold(p) == [quantity |-> left(p), listed |-> product[p].listed /\ left(p) # 0]
<1>0. product' = [p \in Products |-> IF p \notin Items(o) THEN product[p] ELSE sold(p)]
  BY DEF DecrementStock
<1>1. \A p \in Products : product[p] \in Listing /\ product[p].quantity \in 0..MaxStock
  BY DEF TypeOK, Listing
<1>2. ASSUME NEW p \in Items(o)
      PROVE  /\ sold(p) \in Listing /\ sold(p).quantity <= product[p].quantity
  <2>1. p \in Products /\ Cart[o][p] \in Nat /\ product[p].quantity >= Cart[o][p]
    BY <1>2, CartAssumption DEF Items, InStock, DecrementStock
  <2>2. left(p) \in 0..MaxStock /\ left(p) <= product[p].quantity
    BY <1>1, <2>1, StockAssumption
  <2> HIDE DEF left
  <2>3. (product[p].listed /\ left(p) # 0) \in BOOLEAN
    OBVIOUS
  <2>q. QED
    BY <2>2, <2>3 DEF Listing
<1> HIDE DEF sold
<1>q. QED
  BY <1>0, <1>1, <1>2, StockAssumption

\* What a settlement may change: a pending payment's status, the stock, and,
\* when it succeeds on a pending order, the order and its ledger record.
LEMMA SettleEffect ==
  ASSUME IInv, NEW o \in Orders, NEW outcome \in {"success", "failed"}, Settle(o, outcome)
  PROVE  /\ payment[o] # NoPayment
         /\ payment' \in [Orders -> Payment \cup {NoPayment}]
         /\ \A q \in Orders : /\ payment'[q] = NoPayment <=> payment[q] = NoPayment
                              /\ payment[q] # NoPayment => payment'[q].ref = payment[q].ref
         /\ product' \in [Products -> Listing]
         /\ \A p \in Products : product'[p].quantity <= product[p].quantity
         /\ \/ UNCHANGED <<order, outbox>>
            \/ /\ outcome = "success"
               /\ order[o].status = "pending"
               /\ order' = [order EXCEPT ![o].status = "paid", ![o].paymentId = TRUE]
               /\ outbox' = [outbox EXCEPT ![o] = outbox[o] + 1]
<1>0. /\ payment \in [Orders -> Payment \cup {NoPayment}]
      /\ product \in [Products -> Listing]
      /\ \A p \in Products : product[p].quantity \in Nat
  BY StockAssumption DEF IInv, TypeOK, Listing
<1>1. ASSUME NEW s \in PaymentStatus, payment[o] # NoPayment,
             payment' = [payment EXCEPT ![o].status = s]
      PROVE  /\ payment' \in [Orders -> Payment \cup {NoPayment}]
             /\ \A q \in Orders : /\ payment'[q] = NoPayment <=> payment[q] = NoPayment
                                  /\ payment[q] # NoPayment => payment'[q].ref = payment[q].ref
  <2>1. payment'[o] \in Payment /\ payment'[o].ref = payment[o].ref
    BY <1>0, <1>1 DEF Payment
  <2>q. QED
    BY <1>0, <1>1, <2>1, NullPaymentAssumption
<1>2. CASE SettleReplay(o)
  BY <1>0, <1>2 DEF SettleReplay
<1>3. CASE SettleFailed(o)
  BY <1>0, <1>1, <1>3 DEF SettleFailed, PaymentStatus
<1>4. CASE outcome = "success" /\ SettleSuccess(o)
  BY <1>1, <1>4, DecrementKeepsStock DEF SettleSuccess, PaymentStatus, IInv
<1>q. QED
  BY <1>2, <1>3, <1>4 DEF Settle

\* A settlement keeps the invariant if, with the simulator off, a success
\* comes from a captured session of the order.
LEMMA SettleStep ==
  ASSUME IInv, NEW o \in Orders, NEW outcome \in {"success", "failed"}, Settle(o, outcome),
         outcome = "success" /\ ~SimulatorEnabled =>
           \E r \in Refs : tracker[r] = [order |-> o, state |-> "captured"],
         webhooks' \subseteq webhooks,
         UNCHANGED <<priced, active, call, tracker, form, supplied>>
  PROVE  IInv'
<1>1. /\ payment[o] # NoPayment
      /\ payment' \in [Orders -> Payment \cup {NoPayment}]
      /\ \A q \in Orders : /\ payment'[q] = NoPayment <=> payment[q] = NoPayment
                           /\ payment[q] # NoPayment => payment'[q].ref = payment[q].ref
      /\ product' \in [Products -> Listing]
      /\ \A p \in Products : product'[p].quantity <= product[p].quantity
  BY SettleEffect
<1>2. /\ order' \in [Orders -> OrderDocument]
      /\ outbox' \in [Orders -> Nat]
      /\ \A q \in Orders : order'[q].claimed = order[q].claimed
      /\ \A q \in Orders \ {o} : order'[q] = order[q] /\ outbox'[q] = outbox[q]
      /\ \/ UNCHANGED <<order, outbox>>
         \/ /\ outcome = "success" /\ order[o].status = "pending"
            /\ order'[o].status = "paid" /\ order'[o].paymentId = TRUE
            /\ outbox'[o] = outbox[o] + 1
  <2>1. CASE UNCHANGED <<order, outbox>>
    BY <2>1 DEF IInv, TypeOK
  <2>2. CASE /\ outcome = "success"
             /\ order[o].status = "pending"
             /\ order' = [order EXCEPT ![o].status = "paid", ![o].paymentId = TRUE]
             /\ outbox' = [outbox EXCEPT ![o] = outbox[o] + 1]
    <3> DEFINE doc == [order[o] EXCEPT !.status = "paid", !.paymentId = TRUE]
    <3>1. order \in [Orders -> OrderDocument] /\ outbox \in [Orders -> Nat]
      BY DEF IInv, TypeOK
    <3>2. /\ doc \in OrderDocument /\ doc.claimed = order[o].claimed
          /\ doc.status = "paid" /\ doc.paymentId = TRUE
      BY <3>1 DEF OrderDocument, OrderStatus
    <3>3. order' = [order EXCEPT ![o] = doc]
      BY <2>2, <3>1
    <3> HIDE DEF doc
    <3>4. order' \in [Orders -> OrderDocument] /\ outbox' \in [Orders -> Nat]
      <4>1. outbox[o] + 1 \in Nat
        BY <3>1
      <4>2. outbox' \in [Orders -> Nat]
        BY <2>2, <3>1, <4>1
      <4>q. QED
        BY <3>1, <3>2, <3>3, <4>2
    <3>q. QED
      BY <2>2, <3>1, <3>2, <3>3, <3>4
  <2>q. QED
    BY <2>1, <2>2, SettleEffect
<1>3. TypeOK'
  BY <1>1, <1>2 DEF IInv, TypeOK
<1>4. ClaimsOK'
  BY <1>1, <1>2 DEF IInv, ClaimsOK
<1>5. CallsOK'
  BY <1>1, <1>2 DEF IInv, TypeOK, CallsOK, CallOK, Call
<1>6. SessionsOK'
  BY <1>1 DEF IInv, SessionsOK
<1>7. SettledOnce'
  BY <1>2 DEF IInv, TypeOK, OrderDocument, SettledOnce
<1>8. ClaimedPartiesActive'
  BY <1>2 DEF IInv, ClaimedPartiesActive
<1>9. SupplyCovers'
  BY <1>1, StockAssumption DEF IInv, TypeOK, Listing, SupplyCovers
<1>q. QED
  BY <1>3, <1>4, <1>5, <1>6, <1>7, <1>8, <1>9 DEF IInv

\* A webhook settles the order whose payment refers to the event's session.
LEMMA HandleWebhookStep ==
  ASSUME IInv, NEW w \in webhooks, HandleWebhook(w)
  PROVE  IInv'
<1>1. PICK o \in Orders : /\ payment[o] # NoPayment
                          /\ payment[o].ref = w.ref
                          /\ Settle(o, w.outcome)
  BY DEF HandleWebhook
<1>2. w.outcome \in {"success", "failed"} /\ w.ref \in Refs
  BY DEF IInv, TypeOK, Event
<1>3. w.outcome = "success" => tracker[w.ref] = [order |-> o, state |-> "captured"]
  <2>1. tracker[w.ref] \in Tracker /\ tracker[w.ref].order = o
    BY <1>1, <1>2 DEF IInv, TypeOK, SessionsOK
  <2>2. w.outcome = "success" => tracker[w.ref].state = "captured"
    BY DEF IInv, SessionsOK
  <2>q. QED
    BY <2>1, <2>2 DEF Tracker
<1>q. QED
  BY <1>1, <1>2, <1>3, SettleStep DEF HandleWebhook

\* The simulator settles without a session, where it is enabled.
LEMMA SimulateStep ==
  ASSUME IInv, NEW o \in Orders, NEW outcome \in {"success", "failed"}, Simulate(o, outcome)
  PROVE  IInv'
BY SettleStep DEF Simulate

\* The gateway resolves an open session: no request holds it any more.
LEMMA GatewayStep ==
  ASSUME IInv, NEW r \in Refs, GatewayCaptures(r) \/ GatewayDeclines(r)
  PROVE  IInv'
<1>0. PICK state \in {"captured", "declined"}, outcome \in {"success", "failed"} :
        /\ outcome = "success" => state = "captured"
        /\ GatewayResolves(r, state, outcome)
  BY DEF GatewayCaptures, GatewayDeclines
<1>1. /\ tracker[r].state = "open"
      /\ webhooks' = webhooks \cup {[ref |-> r, outcome |-> outcome]}
      /\ UNCHANGED <<order, priced, payment, product, active, call, outbox, form, supplied>>
  BY <1>0 DEF GatewayResolves
<1>2. /\ tracker' \in [Refs -> Tracker]
      /\ tracker'[r].state = state
      /\ \A q \in Refs : tracker'[q].order = tracker[q].order
      /\ \A q \in Refs \ {r} : tracker'[q] = tracker[q]
  BY <1>0 DEF GatewayResolves, IInv, TypeOK, Tracker
<1>3. TypeOK'
  BY <1>1, <1>2 DEF IInv, TypeOK, Event
<1>4. ClaimsOK'
  BY <1>1, <1>2 DEF IInv, ClaimsOK
<1>5. SessionsOK'
  <2>1. \A c \in Calls : call[c].ref \in Refs =>
          /\ tracker'[call[c].ref] = [order |-> call[c].order, state |-> "minted"]
          /\ \A d \in Calls \ {c} : call[d].ref # call[c].ref
    BY <1>1, <1>2 DEF IInv, SessionsOK
  <2>2. \A q \in Orders : payment[q] # NoPayment /\ payment[q].ref \in Refs =>
          tracker'[payment[q].ref].order = q
    BY <1>2 DEF IInv, SessionsOK
  <2>3. \A q \in Refs : tracker'[q].state = "unused" => tracker'[q].order = NoOrder
    BY <1>2 DEF IInv, SessionsOK
  <2>4. \A w \in webhooks' : w.outcome = "success" => tracker'[w.ref].state = "captured"
    BY <1>0, <1>1, <1>2 DEF IInv, TypeOK, Event, SessionsOK
  <2>q. QED
    BY <1>1, <2>1, <2>2, <2>3, <2>4 DEF SessionsOK
<1>6. SettledOnce'
  <2>1. ASSUME NEW q \in Refs, tracker[q].state = "captured"
        PROVE  tracker'[q] = tracker[q]
    BY <1>1, <1>2, <2>1
  <2>q. QED
    BY <1>1, <2>1 DEF IInv, SettledOnce
<1>q. QED
  BY <1>1, <1>3, <1>4, <1>5, <1>6, Frames DEF IInv

-----------------------------------------------------------------------------
(* Listings and accounts *)

\* Opening a form copies a quantity.
LEMMA OpenFormStep ==
  ASSUME IInv, NEW p \in Products, OpenForm(p)
  PROVE  IInv'
<1>1. TypeOK'
  BY DEF IInv, TypeOK, Listing, OpenForm
<1>q. QED
  BY <1>1, Frames DEF IInv, OpenForm

\* The form's quantity is the listing's when the stock is saved, so what has
\* been supplied stays above what is listed.
LEMMA SaveStockStep ==
  ASSUME IInv, NEW p \in Products, NEW q \in 0..MaxStock, NEW listed \in BOOLEAN,
         SaveStock(p, q, listed)
  PROVE  IInv'
<1>1. /\ form[p] = product[p].quantity /\ form[p] \in Nat /\ q \in Nat
      /\ supplied[p] \in Nat /\ form[p] <= supplied[p]
  BY StockAssumption DEF IInv, TypeOK, SupplyCovers, SaveStock, StockUnchanged
<1>2. /\ supplied[p] + q - form[p] \in Nat
      /\ q <= supplied[p] + q - form[p]
  BY <1>1
<1>3. /\ product' \in [Products -> Listing] /\ product'[p].quantity = q
      /\ \A x \in Products \ {p} : product'[x] = product[x]
  BY DEF IInv, TypeOK, Listing, SaveStock
<1>4. /\ supplied' \in [Products -> Nat] /\ supplied'[p] = supplied[p] + q - form[p]
      /\ \A x \in Products \ {p} : supplied'[x] = supplied[x]
  BY <1>2 DEF IInv, TypeOK, SaveStock
<1>5. TypeOK'
  BY <1>3, <1>4 DEF IInv, TypeOK, SaveStock
<1>6. SupplyCovers'
  BY <1>2, <1>3, <1>4 DEF IInv, SupplyCovers
<1>q. QED
  BY <1>5, <1>6, Frames DEF IInv, SaveStock

\* A listing's status says nothing of its stock.
LEMMA UpdateListingStep ==
  ASSUME IInv, NEW p \in Products, NEW listed \in BOOLEAN, UpdateListing(p, listed)
  PROVE  IInv'
<1>1. /\ product' \in [Products -> Listing]
      /\ \A x \in Products : product'[x].quantity = product[x].quantity
  BY DEF IInv, TypeOK, Listing, UpdateListing
<1>2. TypeOK'
  BY <1>1 DEF IInv, TypeOK, UpdateListing
<1>3. SupplyCovers'
  BY <1>1 DEF IInv, SupplyCovers, UpdateListing
<1>q. QED
  BY <1>2, <1>3, Frames DEF IInv, UpdateListing

\* Nobody with a claimed or paid order is suspended.
LEMMA SuspendStep ==
  ASSUME IInv, NEW u \in Users, Suspend(u) \/ Reactivate(u)
  PROVE  IInv'
<1>1. TypeOK'
  BY DEF IInv, TypeOK, Suspend, Reactivate
<1>2. ClaimedPartiesActive'
  <2>1. \A o \in Orders : Parties(o) \subseteq Users
    BY PartyAssumption DEF Parties, Sellers, Items
  <2>2. CASE Suspend(u)
    BY <2>1, <2>2 DEF IInv, TypeOK, ClaimedPartiesActive, Suspend, HoldsAccounts
  <2>3. CASE Reactivate(u)
    BY <2>1, <2>3 DEF IInv, TypeOK, ClaimedPartiesActive, Reactivate
  <2>q. QED
    BY <2>2, <2>3
<1>q. QED
  BY <1>1, <1>2, Frames DEF IInv, Suspend, Reactivate

-----------------------------------------------------------------------------
\* Nothing has happened initially.
LEMMA InitIInv == Init => IInv
<1> SUFFICES ASSUME Init PROVE IInv
  OBVIOUS
<1> USE DEF Init
<1>1. TypeOK
  BY StockAssumption DEF TypeOK, OrderDocument, OrderStatus, Listing, Call, NoCall, Gateways, Tracker
<1>2. ClaimsOK
  BY OrderAssumption DEF ClaimsOK
<1>3. CallsOK
  BY DEF CallsOK, CallOK, NoCall
<1>4. SessionsOK
  BY RefAssumption DEF SessionsOK, NoCall
<1>5. SettledOnce
  BY DEF SettledOnce
<1>6. ClaimedPartiesActive
  BY DEF ClaimedPartiesActive
<1>7. SupplyCovers
  BY StockAssumption DEF SupplyCovers
<1>q. QED
  BY <1>1, <1>2, <1>3, <1>4, <1>5, <1>6, <1>7 DEF IInv

\* The invariant is inductive.
THEOREM Invariance == Spec => []IInv
<1>1. IInv /\ [Next]_vars => IInv'
  <2> SUFFICES ASSUME IInv, [Next]_vars PROVE IInv'
    OBVIOUS
  <2>1. CASE UNCHANGED vars
    <3>1. TypeOK'
      BY <2>1 DEF IInv, TypeOK, vars
    <3>q. QED
      BY <2>1, <3>1, Frames DEF IInv, vars
  <2>2. ASSUME NEW c \in Calls, InitiateStep(c)
        PROVE  IInv'
    BY <2>2, InitiateClaimStep, InitiateLookupStep, BeginGatewayPaymentStep,
       SaveExistingStep, CreatePaymentStep, AbandonCallStep DEF InitiateStep
  <2>q. QED
    BY <2>1, <2>2, PriceCartStep, InsertOrderStep, CancelOrderStep, InitiateReadStep,
       HandleWebhookStep, SimulateStep, GatewayStep, OpenFormStep, SaveStockStep,
       UpdateListingStep, SuspendStep DEF Next
<1>q. QED
  BY InitIInv, <1>1, PTL DEF Spec

\* Cancellation excludes payment: the claim comes before every document and
\* session, and neither a claimed order is cancelled nor a cancelled one claimed.
THEOREM CancellationExcludesPayment == Spec => []CancelledNeverPayable
<1>1. IInv => CancelledNeverPayable
  <2> SUFFICES ASSUME IInv, NEW o \in Orders, order[o].status = "cancelled"
               PROVE  /\ payment[o] = NoPayment
                      /\ \A r \in Refs : tracker[r].order # o
                      /\ \A c \in Calls : call[c].order = o => call[c].pc = "read"
    BY DEF CancelledNeverPayable
  <2>1. ~order[o].claimed
    BY DEF IInv, ClaimsOK
  <2>2. ASSUME NEW c \in Calls, call[c].order = o
        PROVE  call[c].pc = "read"
    BY <2>1, <2>2, OrderAssumption DEF IInv, TypeOK, CallsOK, CallOK, Call
  <2>q. QED
    BY <2>1, <2>2 DEF IInv, ClaimsOK
<1>q. QED
  BY Invariance, <1>1, PTL

\* Buyer and farmer stay active from the claim to the paid order.
THEOREM PartiesStayActive == Spec => []ClaimedPartiesActive
  BY Invariance, PTL DEF IInv

\* A settlement takes effect once, and without the simulator only on captured
\* money; every document keeps its type.
THEOREM SettlementOnce == Spec => []SettledExactlyOnce
<1>1. IInv => SettledExactlyOnce
  BY DEF IInv, SettledExactlyOnce, SettledOnce
<1>q. QED
  BY Invariance, <1>1, PTL

-----------------------------------------------------------------------------
(* Stock *)

LEMMA TakenIsNatural ==
  ASSUME TypeOK, NEW p \in Products
  PROVE  /\ IsFiniteSet(Orders)
         /\ \A o \in Orders : TakenBy(p)[o] \in Int
         /\ Sold(p) \in Nat
<1>1. \A o \in Orders : TakenBy(p)[o] \in Nat
  BY CartAssumption DEF TakenBy
<1>q. QED
  BY <1>1, OrderAssumption, SumOfNaturals DEF Sold

\* Nothing is sold or restocked by a step that keeps the quantities and pays no
\* order.
LEMMA StockKept ==
  ASSUME StockConserved, UNCHANGED supplied,
         \A p \in Products : product'[p].quantity = product[p].quantity,
         \A o \in Orders : order'[o].status = "paid" <=> order[o].status = "paid"
  PROVE  StockConserved'
<1>1. \A p \in Products : TakenBy(p)' = TakenBy(p)
  BY DEF TakenBy
<1>2. \A p \in Products : Sold(p)' = Sold(p)
  BY <1>1 DEF Sold
<1>q. QED
  BY <1>2 DEF StockConserved

\* A settlement takes from the stock what the order it pays has in its cart.
LEMMA SettleTakesStock ==
  ASSUME IInv, StockConserved, NEW o \in Orders, SettleSuccess(o), UNCHANGED supplied
  PROVE  StockConserved'
<1> SUFFICES ASSUME NEW p \in Products
             PROVE  product'[p].quantity + Sold(p)' = supplied[p]
  BY DEF StockConserved
<1>1. /\ order \in [Orders -> OrderDocument] /\ order[o].status = "pending"
      /\ \A q \in Orders : order'[q].status = IF q = o THEN "paid" ELSE order[q].status
  BY DEF IInv, TypeOK, SettleSuccess, OrderDocument
<1>2. Cart[o][p] \in Nat /\ product[p].quantity \in Nat
  BY CartAssumption, StockAssumption DEF IInv, TypeOK, Listing
<1>3. product'[p].quantity = product[p].quantity - Cart[o][p]
  <2>1. CASE p \in Items(o)
    BY <2>1 DEF SettleSuccess, DecrementStock
  <2>2. CASE p \notin Items(o)
    BY <1>2, <2>2 DEF SettleSuccess, DecrementStock, Items
  <2>q. QED
    BY <2>1, <2>2
<1>4. /\ IsFiniteSet(Orders) /\ Sold(p) \in Nat
      /\ \A q \in Orders : TakenBy(p)[q] \in Int
  BY TakenIsNatural DEF IInv
<1> DEFINE new == [q \in Orders |-> IF order'[q].status = "paid" THEN Cart[q][p] ELSE 0]
<1>5. TakenBy(p)' = new
  BY DEF TakenBy
<1>6. /\ TakenBy(p)[o] = 0 /\ new[o] = Cart[o][p]
      /\ \A q \in Orders \ {o} : new[q] = TakenBy(p)[q]
  BY <1>1 DEF TakenBy
<1>7. \A q \in Orders : new[q] \in Int
  BY <1>2, <1>4, <1>6
<1>8. Sold(p)' = SumFunctionOnSet(new, Orders)
  BY <1>5 DEF Sold
<1> HIDE DEF new
<1>9. SumFunctionOnSet(new, Orders) - new[o] = SumFunctionOnSet(TakenBy(p), Orders) - TakenBy(p)[o]
  BY <1>4, <1>6, <1>7, SumChange
<1>10. SumFunctionOnSet(new, Orders) \in Int
  BY <1>4, <1>7, SumType
<1>11. Sold(p)' = Sold(p) + Cart[o][p]
  BY <1>2, <1>4, <1>6, <1>8, <1>9, <1>10 DEF Sold
<1>12. product[p].quantity + Sold(p) = supplied[p]
  BY DEF StockConserved
<1>q. QED
  BY <1>2, <1>3, <1>4, <1>11, <1>12

LEMMA SettleKeepsStock ==
  ASSUME IInv, StockConserved, NEW o \in Orders, NEW outcome \in {"success", "failed"},
         Settle(o, outcome), UNCHANGED supplied
  PROVE  StockConserved'
<1>1. CASE UNCHANGED <<order, product>>
  BY <1>1, StockKept
<1>2. CASE SettleSuccess(o)
  BY <1>2, SettleTakesStock
<1>q. QED
  BY <1>1, <1>2 DEF Settle, SettleReplay, SettleFailed

\* A saved form declares the difference to the quantity it was opened with, which
\* is the current one.
LEMMA SaveDeclaresStock ==
  ASSUME IInv, StockConserved, NEW p \in Products, NEW q \in 0..MaxStock, NEW listed \in BOOLEAN,
         SaveStock(p, q, listed)
  PROVE  StockConserved'
<1>1. \A x \in Products : Sold(x)' = Sold(x)
  BY DEF SaveStock, Sold, TakenBy
<1>2. /\ form[p] = product[p].quantity /\ form[p] \in Nat /\ q \in Nat /\ supplied[p] \in Nat
  BY StockAssumption DEF IInv, TypeOK, SaveStock, StockUnchanged
<1>3. /\ product'[p].quantity = q /\ \A x \in Products \ {p} : product'[x] = product[x]
      /\ supplied'[p] = supplied[p] + q - form[p]
      /\ \A x \in Products \ {p} : supplied'[x] = supplied[x]
  BY DEF IInv, TypeOK, SaveStock
<1>4. \A x \in Products : product[x].quantity + Sold(x) = supplied[x]
  BY DEF StockConserved
<1>5. Sold(p) \in Nat
  BY TakenIsNatural DEF IInv
<1>6. q + Sold(p) = supplied[p] + q - form[p]
  BY <1>2, <1>4, <1>5
<1>7. \A x \in Products : product'[x].quantity + Sold(x) = supplied'[x]
  BY <1>3, <1>4, <1>6
<1>q. QED
  BY <1>1, <1>7 DEF StockConserved

\* Stock is neither lost nor sold twice: what a listing shows plus what paid
\* orders took is what the farmer supplied, whatever forms he saves meanwhile.
THEOREM StockIsConserved == Spec => []StockConserved
<1>1. Init => StockConserved
  <2> SUFFICES ASSUME Init, NEW p \in Products PROVE product[p].quantity + Sold(p) = supplied[p]
    BY DEF StockConserved
  <2>1. \A o \in Orders : TakenBy(p)[o] = 0
    BY DEF Init, TakenBy
  <2>2. IsFiniteSet(Orders)
    BY OrderAssumption
  <2>3. Sold(p) = Cardinality(Orders) * 0
    BY <2>1, <2>2, SumOfConstant DEF Sold
  <2>4. Cardinality(Orders) \in Nat
    BY <2>2, FS_CardinalityType
  <2>5. product[p].quantity = InitialStock[p] /\ supplied[p] = InitialStock[p] /\ InitialStock[p] \in Nat
    BY StockAssumption DEF Init
  <2>q. QED
    BY <2>3, <2>4, <2>5
<1>2. IInv /\ StockConserved /\ [Next]_vars => StockConserved'
  <2> SUFFICES ASSUME IInv, StockConserved, [Next]_vars PROVE StockConserved'
    OBVIOUS
  <2>0. order \in [Orders -> OrderDocument] /\ product \in [Products -> Listing]
    BY DEF IInv, TypeOK
  <2>1. CASE UNCHANGED <<order, product, supplied>>
    BY <2>1, StockKept
  <2>2. ASSUME NEW o \in Orders, InsertOrder(o) \/ CancelOrder(o) PROVE StockConserved'
    <3>1. order[o].status # "paid"
      BY <2>2 DEF InsertOrder, CancelOrder, Unclaimed, IInv, ClaimsOK
    <3>q. QED
      BY <2>0, <2>2, <3>1, StockKept DEF InsertOrder, CancelOrder, OrderDocument
  <2>3. ASSUME NEW c \in Calls, InitiateClaim(c) PROVE StockConserved'
    BY <2>0, <2>3, StockKept DEF InitiateClaim, OrderDocument
  <2>4. ASSUME NEW c \in Calls, InitiateStep(c) PROVE StockConserved'
    BY <2>1, <2>3, <2>4 DEF InitiateStep, InitiateLookup, BeginGatewayPayment, SaveExisting,
                            CreatePayment, AbandonCall
  <2>5. ASSUME NEW w \in webhooks, HandleWebhook(w) PROVE StockConserved'
    <3>1. w.outcome \in {"success", "failed"}
      BY DEF IInv, TypeOK, Event
    <3>q. QED
      BY <2>5, <3>1, SettleKeepsStock DEF HandleWebhook
  <2>6. ASSUME NEW o \in Orders, NEW outcome \in {"success", "failed"}, Simulate(o, outcome)
        PROVE  StockConserved'
    BY <2>6, SettleKeepsStock DEF Simulate
  <2>7. ASSUME NEW p \in Products, NEW listed \in BOOLEAN, UpdateListing(p, listed)
        PROVE  StockConserved'
    BY <2>0, <2>7, StockKept DEF UpdateListing, Listing
  <2>8. ASSUME NEW p \in Products, NEW listed \in BOOLEAN, NEW q \in 0..MaxStock,
               SaveStock(p, q, listed)
        PROVE  StockConserved'
    BY <2>8, SaveDeclaresStock
  <2>q. QED
    BY <2>1, <2>2, <2>4, <2>5, <2>6, <2>7, <2>8
       DEF Next, vars, PriceCart, InitiateRead, GatewayCaptures, GatewayDeclines, GatewayResolves,
           OpenForm, Suspend, Reactivate
<1>q. QED
  BY <1>1, <1>2, Invariance, PTL DEF Spec

-----------------------------------------------------------------------------
(* Refinement of OrderLifecycle *)

\* The stage, money and goods that the lifecycle sees.
StageOf == [o \in Orders |-> order[o].status]
MoneyOf == [o \in Orders |-> IF outbox[o] > 0 THEN "held" ELSE "none"]
GoodsOf == [o \in Orders |-> NoOrder]

\* A step that keeps the statuses and the ledger records is invisible.
LEMMA StatusKept ==
  ASSUME UNCHANGED outbox, \A o \in Orders : order'[o].status = order[o].status
  PROVE  UNCHANGED Lifecycle!vars
<1>1. StageOf' = StageOf
  BY DEF StageOf
<1>q. QED
  BY <1>1 DEF Lifecycle!vars, StageOf

\* The status of one order moves and no ledger record is written.
LEMMA StatusMoves ==
  ASSUME IInv, NEW o \in Orders, NEW to \in OrderStatus, UNCHANGED outbox,
         order' = [order EXCEPT ![o].status = to]
  PROVE  Lifecycle!Move(o, {order[o].status}, to) /\ MoneyOf' = MoneyOf
<1>1. /\ order \in [Orders -> OrderDocument]
      /\ \A q \in Orders : order'[q].status = IF q = o THEN to ELSE order[q].status
  BY DEF IInv, TypeOK, OrderDocument
<1>2. StageOf' = [StageOf EXCEPT ![o] = to] /\ StageOf[o] = order[o].status
  BY <1>1 DEF StageOf
<1>q. QED
  BY <1>2 DEF Lifecycle!Move, StageOf, MoneyOf

\* The insert places the order and the cancellation abandons it.
LEMMA DraftMoves ==
  ASSUME IInv, NEW o \in Orders, InsertOrder(o) \/ CancelOrder(o)
  PROVE  Lifecycle!Place(o) \/ Lifecycle!Abandon(o)
<1>1. CASE InsertOrder(o)
  <2>1. order[o].status = "none"
    BY <1>1 DEF InsertOrder, IInv, ClaimsOK
  <2>q. QED
    BY <1>1, <2>1, StatusMoves DEF InsertOrder, OrderStatus, Lifecycle!Place, MoneyOf
<1>2. CASE CancelOrder(o)
  <2>1. order[o].status = "pending"
    BY <1>2 DEF CancelOrder, Unclaimed
  <2>q. QED
    BY <1>2, <2>1, StatusMoves DEF CancelOrder, OrderStatus, Lifecycle!Abandon, MoneyOf
<1>q. QED
  BY <1>1, <1>2

\* A settlement pays the order, once, or changes neither status nor record.
LEMMA SettlePays ==
  ASSUME IInv, NEW o \in Orders, NEW outcome \in {"success", "failed"}, Settle(o, outcome)
  PROVE  Lifecycle!Pay(o) \/ UNCHANGED Lifecycle!vars
<1>1. CASE UNCHANGED <<order, outbox>>
  BY <1>1, StatusKept
<1>2. CASE /\ order[o].status = "pending"
           /\ order' = [order EXCEPT ![o].status = "paid", ![o].paymentId = TRUE]
           /\ outbox' = [outbox EXCEPT ![o] = outbox[o] + 1]
  <2>1. /\ order \in [Orders -> OrderDocument] /\ outbox \in [Orders -> Nat]
        /\ \A q \in Orders : order'[q].status = IF q = o THEN "paid" ELSE order[q].status
    BY <1>2 DEF IInv, TypeOK, OrderDocument
  <2>2. StageOf' = [StageOf EXCEPT ![o] = "paid"] /\ StageOf[o] = "pending"
    BY <1>2, <2>1 DEF StageOf
  <2>3. MoneyOf' = [MoneyOf EXCEPT ![o] = "held"]
    <3>1. outbox'[o] > 0 /\ \A q \in Orders \ {o} : outbox'[q] = outbox[q]
      BY <1>2, <2>1
    <3>q. QED
      BY <3>1 DEF MoneyOf
  <2>q. QED
    BY <2>2, <2>3 DEF Lifecycle!Pay, Lifecycle!Move, StageOf, MoneyOf
<1>q. QED
  BY <1>1, <1>2, SettleEffect

\* Checkout implements the first half of the lifecycle.
THEOREM CheckoutImplementsLifecycle == Spec => ImplementsLifecycle
<1>1. Init => Lifecycle!Init
  BY DEF Init, Lifecycle!Init, Lifecycle!InProgress
<1>2. IInv /\ [Next]_vars => [Lifecycle!Next]_Lifecycle!vars
  <2> SUFFICES ASSUME IInv, [Next]_vars
               PROVE  Lifecycle!Next \/ UNCHANGED Lifecycle!vars
    OBVIOUS
  <2>1. ASSUME NEW o \in Orders, InsertOrder(o) \/ CancelOrder(o)
        PROVE  Lifecycle!Next
    BY <2>1, DraftMoves DEF Lifecycle!Next
  <2>2. ASSUME NEW w \in webhooks, HandleWebhook(w)
        PROVE  Lifecycle!Next \/ UNCHANGED Lifecycle!vars
    BY <2>2, SettlePays DEF HandleWebhook, IInv, TypeOK, Event, Lifecycle!Next
  <2>3. ASSUME NEW o \in Orders, NEW outcome \in {"success", "failed"}, Simulate(o, outcome)
        PROVE  Lifecycle!Next \/ UNCHANGED Lifecycle!vars
    BY <2>3, SettlePays DEF Simulate, Lifecycle!Next
  <2>4. ASSUME NEW c \in Calls, InitiateClaim(c)
        PROVE  UNCHANGED Lifecycle!vars
    BY <2>4, StatusKept DEF InitiateClaim, IInv, TypeOK, OrderDocument
  <2>5. CASE UNCHANGED <<order, outbox>>
    BY <2>5, StatusKept
  <2>q. QED
    BY <2>1, <2>2, <2>3, <2>4, <2>5 DEF Next, vars, InitiateStep, PriceCart, InitiateRead,
       InitiateLookup, BeginGatewayPayment, SaveExisting, CreatePayment, AbandonCall,
       GatewayCaptures, GatewayDeclines, GatewayResolves, OpenForm, UpdateListing, SaveStock,
       Suspend, Reactivate
<1>q. QED
  BY Invariance, <1>1, <1>2, PTL DEF Spec, ImplementsLifecycle, Lifecycle!Spec
=============================================================================
