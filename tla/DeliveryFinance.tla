-------------------------- MODULE DeliveryFinance --------------------------
(***************************************************************************)
(* The money records an administrator keeps about deliveries: payouts of   *)
(* earnings to drivers, corrections of payouts and refunds of cancelled    *)
(* orders (DeliveryService.payout, reversePayout, refund).  Each carries a *)
(* request id so that a repeated request records nothing twice.  A request *)
(* is a process: a lookup outside any transaction, one transaction, and,   *)
(* when a unique index refuses its insert, a second lookup.                *)
(*                                                                         *)
(* A document is stored under its request id: the id is unique in each     *)
(* collection and payouts and corrections share one.  What the fingerprint *)
(* hashes are the fields of the document itself.                           *)
(***************************************************************************)
EXTENDS Naturals, FiniteSets, Functions

CONSTANTS
  Earnings,    \* one per delivered shipment
  Drivers,
  Orders,      \* orders that are cancelled after payment
  Requests,    \* request ids
  Calls,       \* requests being processed
  Owner,       \* Owner[e]: the transporter who earned e
  Amount,      \* Amount[e], in paisa
  Price,       \* Price[o]: what the buyer paid for o, in paisa
  None

ASSUME FiniteAssumption == IsFiniteSet(Earnings) /\ IsFiniteSet(Requests)
ASSUME OwnerAssumption  == Owner \in [Earnings -> Drivers]
ASSUME AmountAssumption == Amount \in [Earnings -> Nat] /\ Price \in [Orders -> Nat]
ASSUME NoneAssumption   == None \notin Requests \cup Drivers \cup Orders

VARIABLES
  earned,    \* earnings that exist
  payoutId,  \* DeliveryEarning.payoutId
  payouts,   \* delivery_payouts, by request id
  cancelled, \* orders returned to the farmer
  payment,   \* Payment.status of the orders
  refunds,   \* manual_refunds, by order
  call       \* the requests in progress

vars == <<earned, payoutId, payouts, cancelled, payment, refunds, call>>

Total(es) == SumFunctionOnSet(Amount, es)

\* What a request asks for, and what the document it records says.
Payout(d, es, n)   == [kind |-> "payout", driver |-> d, earnings |-> es, amount |-> n, of |-> None]
Reversal(id)       == [kind |-> "reversal", driver |-> None, earnings |-> {}, amount |-> 0, of |-> id]
Refund(o, n)       == [kind |-> "refund", driver |-> None, earnings |-> {}, amount |-> n, of |-> o]
Details == [kind: {"payout", "reversal", "refund", "none"}, driver: Drivers \cup {None},
            earnings: SUBSET Earnings, amount: Nat,
            of: Requests \cup Orders \cup {None}]
NoDetails == [kind |-> "none", driver |-> None, earnings |-> {}, amount |-> 0, of |-> None]
NoCall    == [pc |-> "idle", id |-> None, dto |-> NoDetails]
NoRefund  == [id |-> None, dto |-> NoDetails]

TypeOK ==
  /\ earned \subseteq Earnings
  /\ payoutId \in [Earnings -> {id \in Requests : payouts[id].kind = "payout"} \cup {None}]
  /\ payouts \in [Requests -> Details]
  /\ cancelled \subseteq Orders
  /\ payment \in [Orders -> {"success", "refunded"}]
  /\ refunds \in [Orders -> [id: Requests \cup {None}, dto: Details]]
  /\ call \in [Calls -> [pc: {"idle", "checked", "duplicate", "ok", "conflict"},
                         id: Requests \cup {None}, dto: Details]]

Init ==
  /\ earned = {}
  /\ payoutId = [e \in Earnings |-> None]
  /\ payouts = [id \in Requests |-> NoDetails]
  /\ cancelled = {}
  /\ payment = [o \in Orders |-> "success"]
  /\ refunds = [o \in Orders |-> NoRefund]
  /\ call = [c \in Calls |-> NoCall]

-----------------------------------------------------------------------------
(* The documents these records are about: see Delivery *)

Earn(e) ==
  /\ e \notin earned
  /\ earned' = earned \cup {e}
  /\ UNCHANGED <<payoutId, payouts, cancelled, payment, refunds, call>>

Cancel(o) ==
  /\ o \notin cancelled
  /\ cancelled' = cancelled \cup {o}
  /\ UNCHANGED <<earned, payoutId, payouts, payment, refunds, call>>

-----------------------------------------------------------------------------
(* What is recorded already *)

Exists(id) == payouts[id] # NoDetails

\* The corrections of a payout: at most one, by a unique index.
Corrections(id) == {r \in Requests : payouts[r].kind = "reversal" /\ payouts[r].of = id}

\* The record that answers a request, if any: payouts are looked up by their
\* request id, corrections by the payout, refunds by the order.
Prior(id, dto) ==
  CASE dto.kind = "payout"   -> IF Exists(id) THEN {[id |-> id, dto |-> payouts[id]]} ELSE {}
    [] dto.kind = "reversal" -> {[id |-> r, dto |-> payouts[r]] : r \in Corrections(dto.of)}
    [] dto.kind = "refund"   -> {refunds[dto.of]} \ {NoRefund}

\* It answers the request when it is the very same request.
Answers(id, dto) == [id |-> id, dto |-> dto] \in Prior(id, dto)

Finish(c, pc) == call' = [call EXCEPT ![c].pc = pc]

\* The lookup that precedes the transaction.
Receive(c, id, dto) ==
  /\ call[c].pc = "idle"
  /\ call' = [call EXCEPT ![c] =
       [pc |-> IF Prior(id, dto) = {} THEN "checked"
               ELSE IF Answers(id, dto) THEN "ok" ELSE "conflict",
        id |-> id, dto |-> dto]]
  /\ UNCHANGED <<earned, payoutId, payouts, cancelled, payment, refunds>>

-----------------------------------------------------------------------------
(* The transactions *)

\* Mutant: whose earnings they are is not looked at.
PayableToAnyone(dto) == /\ \A e \in dto.earnings : e \in earned /\ payoutId[e] = None
                        /\ dto.amount = Total(dto.earnings)

\* Mutant: earnings already paid are selected too.
PayableTwice(dto) == /\ \A e \in dto.earnings : e \in earned /\ Owner[e] = dto.driver
                     /\ dto.amount = Total(dto.earnings)

\* All selected earnings exist, belong to the driver, are unpaid, and add up.
Payable(dto) == /\ \A e \in dto.earnings : /\ e \in earned
                                           /\ Owner[e] = dto.driver
                                           /\ payoutId[e] = None
                /\ dto.amount = Total(dto.earnings)

RecordPayout(c) ==
  LET id == call[c].id  dto == call[c].dto IN
  /\ call[c].pc = "checked" /\ dto.kind = "payout"
  /\ \/ /\ ~Payable(dto)
        /\ Finish(c, "conflict")
        /\ UNCHANGED <<payoutId, payouts>>
     \/ /\ Payable(dto) /\ Exists(id)
        /\ Finish(c, "duplicate")
        /\ UNCHANGED <<payoutId, payouts>>
     \/ /\ Payable(dto) /\ ~Exists(id)
        /\ payouts' = [payouts EXCEPT ![id] = dto]
        /\ payoutId' = [e \in Earnings |-> IF e \in dto.earnings THEN id ELSE payoutId[e]]
        /\ Finish(c, "ok")
  /\ UNCHANGED <<earned, cancelled, payment, refunds>>

\* An original payout whose earnings are all still allocated to it.
Reversible(id) == /\ payouts[id].kind = "payout"
                  /\ \A e \in payouts[id].earnings : payoutId[e] = id

ReversePayout(c) ==
  LET id == call[c].id  dto == call[c].dto IN
  /\ call[c].pc = "checked" /\ dto.kind = "reversal"
  /\ \/ /\ ~Reversible(dto.of)
        /\ Finish(c, "conflict")
        /\ UNCHANGED <<payoutId, payouts>>
     \/ /\ Reversible(dto.of)
        /\ Exists(id) \/ Corrections(dto.of) # {}
        /\ Finish(c, "duplicate")
        /\ UNCHANGED <<payoutId, payouts>>
     \/ /\ Reversible(dto.of)
        /\ ~Exists(id) /\ Corrections(dto.of) = {}
        /\ payouts' = [payouts EXCEPT ![id] = dto]
        /\ payoutId' = [e \in Earnings |-> IF e \in payouts[dto.of].earnings THEN None
                                           ELSE payoutId[e]]
        /\ Finish(c, "ok")
  /\ UNCHANGED <<earned, cancelled, payment, refunds>>

Refundable(dto) == /\ dto.of \in cancelled
                   /\ payment[dto.of] = "success"
                   /\ dto.amount = Price[dto.of]

\* Two unique indexes: one refund for an order, one for a request id.
RefundExists(id, o) == refunds[o] # NoRefund \/ \E q \in Orders : refunds[q].id = id

RecordRefund(c) ==
  LET id == call[c].id  dto == call[c].dto IN
  /\ call[c].pc = "checked" /\ dto.kind = "refund"
  /\ \/ /\ ~Refundable(dto)
        /\ Finish(c, "conflict")
        /\ UNCHANGED <<payment, refunds>>
     \/ /\ Refundable(dto) /\ RefundExists(id, dto.of)
        /\ Finish(c, "duplicate")
        /\ UNCHANGED <<payment, refunds>>
     \/ /\ Refundable(dto) /\ ~RefundExists(id, dto.of)
        /\ refunds' = [refunds EXCEPT ![dto.of] = [id |-> id, dto |-> dto]]
        /\ payment' = [payment EXCEPT ![dto.of] = "refunded"]
        /\ Finish(c, "ok")
  /\ UNCHANGED <<earned, payoutId, payouts, cancelled>>

\* Mutant: any existing record answers a duplicate.
AnswerDuplicateBlindly(c) ==
  /\ call[c].pc = "duplicate"
  /\ Finish(c, "ok")
  /\ UNCHANGED <<earned, payoutId, payouts, cancelled, payment, refunds>>

\* The insert hit a unique index: the record that is there may be this request.
AnswerDuplicate(c) ==
  /\ call[c].pc = "duplicate"
  /\ Finish(c, IF Answers(call[c].id, call[c].dto) THEN "ok" ELSE "conflict")
  /\ UNCHANGED <<earned, payoutId, payouts, cancelled, payment, refunds>>

\* The answer is delivered, or the connection is lost and the administrator
\* does not know what became of the request.
End(c) ==
  /\ call[c].pc # "idle"
  /\ call' = [call EXCEPT ![c] = NoCall]
  /\ UNCHANGED <<earned, payoutId, payouts, cancelled, payment, refunds>>

-----------------------------------------------------------------------------
\* A payout is of at least one earning.
Selection == SUBSET Earnings \ {{}}

\* The requests an administrator makes: any driver, any earnings, an amount
\* that is right or wrong.
Request ==
  {Payout(d, es, Total(es) + n) : d \in Drivers, es \in Selection, n \in 0..1}
  \cup {Reversal(id) : id \in Requests}
  \cup {Refund(o, Price[o] + n) : o \in Orders, n \in 0..1}

Next ==
  \/ \E e \in Earnings : Earn(e)
  \/ \E o \in Orders : Cancel(o)
  \/ \E c \in Calls, id \in Requests, dto \in Request : Receive(c, id, dto)
  \/ \E c \in Calls : \/ RecordPayout(c)
                      \/ ReversePayout(c)
                      \/ RecordRefund(c)
                      \/ AnswerDuplicate(c)
                      \/ End(c)

Spec == Init /\ [][Next]_vars

-----------------------------------------------------------------------------
(* Properties *)

PaidBy(e)  == {id \in Requests : payouts[id].kind = "payout" /\ e \in payouts[id].earnings}
Current(e) == {id \in PaidBy(e) : Corrections(id) = {}}

\* An earning is paid once: of the payouts that list it all but the one it is
\* allocated to have been corrected, however requests are repeated and race.
PaidOnce ==
  \A e \in Earnings : Current(e) = (IF payoutId[e] = None THEN {} ELSE {payoutId[e]})

\* A refund is recorded exactly for the payments marked refunded, of cancelled
\* orders, in full.
RefundMatchesPayment ==
  \A o \in Orders :
    /\ payment[o] = "refunded" <=> refunds[o] # NoRefund
    /\ refunds[o] # NoRefund => o \in cancelled /\ refunds[o].dto = Refund(o, Price[o])

\* The payouts to a driver that stand, and his earnings that are paid.
Uncorrected(d) == {id \in Requests : /\ payouts[id].kind = "payout"
                                     /\ payouts[id].driver = d
                                     /\ Corrections(id) = {}}
Allocated(d)   == {e \in earned : Owner[e] = d /\ payoutId[e] # None}

\* The books balance: what drivers received by uncorrected payouts is what
\* their allocated earnings are worth, each payout is of one driver, and the
\* refunds on record are those the payments show.
BooksBalance ==
  /\ TypeOK
  /\ RefundMatchesPayment
  /\ \A d \in Drivers :
       SumFunctionOnSet([id \in Requests |-> payouts[id].amount], Uncorrected(d))
         = Total(Allocated(d))

\* A request is answered with success only if exactly this request is on
\* record, whoever recorded it; a colliding id never answers for another one.
SuccessIsRecorded ==
  \A c \in Calls : call[c].pc = "ok" => Answers(call[c].id, call[c].dto)
=============================================================================
