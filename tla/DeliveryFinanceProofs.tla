------------------------ MODULE DeliveryFinanceProofs ------------------------
(***************************************************************************)
(* Safety of payouts, corrections and refunds, for every number of         *)
(* earnings, drivers, orders, request ids and requests in progress.        *)
(***************************************************************************)
EXTENDS DeliveryFinance, SumTheorems

\* What is on record or being recorded was requested by an administrator.
Shape ==
  /\ cancelled \subseteq Orders
  /\ payoutId \in [Earnings -> Requests \cup {None}]
  /\ payouts \in [Requests -> Request \cup {NoDetails}]
  /\ payment \in [Orders -> {"success", "refunded"}]
  /\ refunds \in [Orders -> [id: Requests \cup {None}, dto: Request \cup {NoDetails}]]
  /\ call \in [Calls -> [pc: {"idle", "checked", "duplicate", "ok", "conflict"},
                         id: Requests \cup {None}, dto: Request \cup {NoDetails}]]

\* Payouts and corrections share a collection with nothing else, and a
\* correction is of a payout that is on record.
LedgerOK ==
  \A id \in Requests :
    /\ payouts[id].kind # "refund"
    /\ payouts[id].kind = "reversal" => payouts[payouts[id].of].kind = "payout"

\* A request in progress has an id and asks for something.
CallsOK == \A c \in Calls : call[c].pc # "idle" => call[c].id \in Requests /\ call[c].dto \in Request

\* A request is answered with success only by the document stored under its id,
\* if it is the same, or by the refund of its order.
Recorded(id, dto, ps, rs) ==
  IF dto.kind = "refund" THEN rs[dto.of] = [id |-> id, dto |-> dto] ELSE ps[id] = dto
AnsweredOK ==
  \A c \in Calls : call[c].pc = "ok" => Recorded(call[c].id, call[c].dto, payouts, refunds)

IInv == /\ Shape
        /\ LedgerOK
        /\ CallsOK
        /\ PaidOnce
        /\ RefundMatchesPayment
        /\ AnsweredOK

-----------------------------------------------------------------------------
(* Requests and their records *)

\* What a request of each kind says.
LEMMA RequestKinds ==
  ASSUME NEW dto \in Request
  PROVE  /\ dto.kind \in {"payout", "reversal", "refund"}
         /\ dto.kind = "payout" => dto.earnings \subseteq Earnings
         /\ dto.kind = "reversal" => dto.of \in Requests /\ dto.earnings = {}
         /\ dto.kind = "refund" => dto.of \in Orders /\ dto = Refund(dto.of, dto.amount)
         /\ dto # NoDetails
<1>1. CASE \E d \in Drivers, es \in Selection, n \in 0..1 : dto = Payout(d, es, Total(es) + n)
  BY <1>1 DEF Payout, NoDetails, Selection
<1>2. CASE \E id \in Requests : dto = Reversal(id)
  BY <1>2 DEF Reversal, NoDetails
<1>3. CASE \E o \in Orders, n \in 0..1 : dto = Refund(o, Price[o] + n)
  BY <1>3 DEF Refund, NoDetails
<1>4. \/ \E d \in Drivers, es \in Selection, n \in 0..1 : dto = Payout(d, es, Total(es) + n)
      \/ \E id \in Requests : dto = Reversal(id)
      \/ \E o \in Orders, n \in 0..1 : dto = Refund(o, Price[o] + n)
  BY DEF Request
<1>q. QED
  BY <1>1, <1>2, <1>3, <1>4

LEMMA NoDetailsKind == NoDetails.kind = "none" /\ NoDetails \notin Request
  BY RequestKinds DEF NoDetails

\* To find the record of a request is to find the request on record.
LEMMA AnswersRecorded ==
  ASSUME NEW id \in Requests, NEW dto \in Request
  PROVE  Answers(id, dto) <=> Recorded(id, dto, payouts, refunds)
<1>0. [id |-> id, dto |-> dto] # NoRefund
  BY NoneAssumption DEF NoRefund
<1>1. CASE dto.kind = "payout"
  BY <1>1, RequestKinds DEF Answers, Prior, Exists, Recorded
<1>2. CASE dto.kind = "reversal"
  <2>1. Answers(id, dto) <=> \E r \in Corrections(dto.of) : r = id /\ payouts[r] = dto
    BY <1>2 DEF Answers, Prior
  <2>q. QED
    BY <1>2, <2>1 DEF Corrections, Recorded
<1>3. CASE dto.kind = "refund"
  BY <1>0, <1>3 DEF Answers, Prior, Recorded
<1>q. QED
  BY <1>1, <1>2, <1>3, RequestKinds

\* Records are never changed.
Lasting ==
  /\ \A id \in Requests : payouts[id] # NoDetails => payouts'[id] = payouts[id]
  /\ \A o \in Orders : refunds[o] # NoRefund => refunds'[o] = refunds[o]

LEMMA RecordsLast ==
  ASSUME Lasting, NEW id \in Requests, NEW dto \in Request, Recorded(id, dto, payouts, refunds)
  PROVE  Recorded(id, dto, payouts', refunds')
<1>1. dto # NoDetails /\ [id |-> id, dto |-> dto] # NoRefund /\ (dto.kind = "refund" => dto.of \in Orders)
  BY RequestKinds, NoneAssumption DEF NoRefund
<1>q. QED
  BY <1>1 DEF Recorded, Lasting

\* A request moves to a new step: it ends, or is answered, and answered with
\* success only if it is on record by then.
LEMMA AnswerStep ==
  ASSUME IInv, Lasting, NEW c \in Calls,
         NEW r \in [pc: {"idle", "checked", "duplicate", "ok", "conflict"},
                    id: Requests \cup {None}, dto: Request \cup {NoDetails}],
         call' = [call EXCEPT ![c] = r],
         r.pc # "idle" => r.id \in Requests /\ r.dto \in Request,
         r.pc = "ok" => Recorded(r.id, r.dto, payouts', refunds')
  PROVE  /\ call' \in [Calls -> [pc: {"idle", "checked", "duplicate", "ok", "conflict"},
                                 id: Requests \cup {None}, dto: Request \cup {NoDetails}]]
         /\ CallsOK' /\ AnsweredOK'
<1>1. /\ call' \in [Calls -> [pc: {"idle", "checked", "duplicate", "ok", "conflict"},
                              id: Requests \cup {None}, dto: Request \cup {NoDetails}]]
      /\ call'[c] = r /\ \A b \in Calls \ {c} : call'[b] = call[b]
  BY DEF IInv, Shape
<1>2. CallsOK'
  BY <1>1 DEF IInv, CallsOK
<1>3. ASSUME NEW b \in Calls \ {c}, call'[b].pc = "ok"
      PROVE  Recorded(call'[b].id, call'[b].dto, payouts', refunds')
  <2>1. /\ call[b].id \in Requests /\ call[b].dto \in Request
        /\ Recorded(call[b].id, call[b].dto, payouts, refunds)
    BY <1>1, <1>3 DEF IInv, CallsOK, AnsweredOK
  <2>q. QED
    BY <1>1, <2>1, RecordsLast
<1>4. AnsweredOK'
  BY <1>1, <1>3 DEF AnsweredOK
<1>q. QED
  BY <1>1, <1>2, <1>4

\* The request that a step is about.
LEMMA FinishStep ==
  ASSUME IInv, Lasting, NEW c \in Calls, call[c].pc # "idle",
         NEW pc \in {"ok", "duplicate", "conflict"}, Finish(c, pc),
         pc = "ok" => Recorded(call[c].id, call[c].dto, payouts', refunds')
  PROVE  /\ call' \in [Calls -> [pc: {"idle", "checked", "duplicate", "ok", "conflict"},
                                 id: Requests \cup {None}, dto: Request \cup {NoDetails}]]
         /\ CallsOK' /\ AnsweredOK'
<1> DEFINE r == [call[c] EXCEPT !.pc = pc]
<1>1. /\ r \in [pc: {"idle", "checked", "duplicate", "ok", "conflict"},
                id: Requests \cup {None}, dto: Request \cup {NoDetails}]
      /\ r.pc = pc /\ r.id = call[c].id /\ r.dto = call[c].dto
  BY DEF IInv, Shape
<1>2. call' = [call EXCEPT ![c] = r]
  BY DEF Finish, IInv, Shape
<1>3. r.id \in Requests /\ r.dto \in Request
  BY <1>1 DEF IInv, CallsOK
<1> HIDE DEF r
<1>q. QED
  BY <1>1, <1>2, <1>3, AnswerStep

-----------------------------------------------------------------------------
(* Steps that record nothing *)

\* The books are the same; deliveries may be earned and orders cancelled.
LEMMA BooksKept ==
  ASSUME IInv, UNCHANGED <<payoutId, payouts, payment, refunds>>,
         cancelled \subseteq cancelled', cancelled' \subseteq Orders
  PROVE  /\ Lasting /\ LedgerOK' /\ PaidOnce' /\ RefundMatchesPayment'
         /\ payoutId' \in [Earnings -> Requests \cup {None}]
         /\ payouts' \in [Requests -> Request \cup {NoDetails}]
         /\ payment' \in [Orders -> {"success", "refunded"}]
         /\ refunds' \in [Orders -> [id: Requests \cup {None}, dto: Request \cup {NoDetails}]]
<1>1. Lasting
  BY DEF Lasting
<1>2. LedgerOK'
  BY DEF IInv, LedgerOK
<1>3. PaidOnce'
  BY DEF IInv, PaidOnce, Current, PaidBy, Corrections
<1>4. RefundMatchesPayment'
  BY DEF IInv, RefundMatchesPayment
<1>q. QED
  BY <1>1, <1>2, <1>3, <1>4 DEF IInv, Shape

LEMMA OutsideStep ==
  ASSUME IInv, (\E e \in Earnings : Earn(e)) \/ (\E o \in Orders : Cancel(o))
  PROVE  IInv'
<1>1. /\ UNCHANGED <<payoutId, payouts, payment, refunds, call>>
      /\ cancelled \subseteq cancelled' /\ cancelled' \subseteq Orders
  BY DEF Earn, Cancel, IInv, Shape
<1>2. AnsweredOK' /\ CallsOK'
  BY <1>1 DEF IInv, AnsweredOK, CallsOK
<1>q. QED
  BY <1>1, <1>2, BooksKept DEF IInv, Shape

\* A request comes in, and is answered at once if it is on record.
LEMMA ReceiveStep ==
  ASSUME IInv, NEW c \in Calls, NEW id \in Requests, NEW dto \in Request, Receive(c, id, dto)
  PROVE  IInv'
<1> DEFINE pc == IF Prior(id, dto) = {} THEN "checked"
                 ELSE IF Answers(id, dto) THEN "ok" ELSE "conflict"
           r == [pc |-> pc, id |-> id, dto |-> dto]
<1>1. /\ call' = [call EXCEPT ![c] = r]
      /\ UNCHANGED <<earned, payoutId, payouts, cancelled, payment, refunds>>
  BY DEF Receive
<1>2. pc \in {"checked", "ok", "conflict"} /\ (pc = "ok" => Answers(id, dto))
  OBVIOUS
<1> HIDE DEF pc
<1>3. /\ r \in [pc: {"idle", "checked", "duplicate", "ok", "conflict"},
                id: Requests \cup {None}, dto: Request \cup {NoDetails}]
      /\ r.pc = pc /\ r.id = id /\ r.dto = dto
  BY <1>2
<1> HIDE DEF r
<1>4. r.pc = "ok" => Recorded(r.id, r.dto, payouts', refunds')
  BY <1>1, <1>2, <1>3, AnswersRecorded
<1>5. Lasting /\ cancelled' \subseteq Orders
  BY <1>1 DEF Lasting, IInv, Shape
<1>6. /\ call' \in [Calls -> [pc: {"idle", "checked", "duplicate", "ok", "conflict"},
                              id: Requests \cup {None}, dto: Request \cup {NoDetails}]]
      /\ CallsOK' /\ AnsweredOK'
  BY <1>1, <1>3, <1>4, <1>5, AnswerStep
<1>q. QED
  BY <1>1, <1>5, <1>6, BooksKept DEF IInv, Shape

\* A request is refused, found to be a duplicate, or answered with its record.
LEMMA RefuseStep ==
  ASSUME IInv, NEW c \in Calls, call[c].pc # "idle",
         NEW pc \in {"ok", "duplicate", "conflict"}, Finish(c, pc),
         pc = "ok" => Answers(call[c].id, call[c].dto),
         UNCHANGED <<earned, payoutId, payouts, cancelled, payment, refunds>>
  PROVE  IInv'
<1>1. Lasting /\ cancelled' \subseteq Orders
  BY DEF Lasting, IInv, Shape
<1>2. call[c].id \in Requests /\ call[c].dto \in Request
  BY DEF IInv, CallsOK
<1>3. pc = "ok" => Recorded(call[c].id, call[c].dto, payouts', refunds')
  BY <1>2, AnswersRecorded
<1>4. /\ call' \in [Calls -> [pc: {"idle", "checked", "duplicate", "ok", "conflict"},
                              id: Requests \cup {None}, dto: Request \cup {NoDetails}]]
      /\ CallsOK' /\ AnsweredOK'
  BY <1>1, <1>3, FinishStep
<1>q. QED
  BY <1>1, <1>4, BooksKept DEF IInv, Shape

LEMMA EndStep ==
  ASSUME IInv, NEW c \in Calls, End(c)
  PROVE  IInv'
<1>1. /\ call' = [call EXCEPT ![c] = NoCall]
      /\ UNCHANGED <<earned, payoutId, payouts, cancelled, payment, refunds>>
  BY DEF End
<1>2. /\ NoCall \in [pc: {"idle", "checked", "duplicate", "ok", "conflict"},
                     id: Requests \cup {None}, dto: Request \cup {NoDetails}]
      /\ NoCall.pc = "idle"
  BY DEF NoCall
<1>3. Lasting /\ cancelled' \subseteq Orders
  BY <1>1 DEF Lasting, IInv, Shape
<1>4. /\ call' \in [Calls -> [pc: {"idle", "checked", "duplicate", "ok", "conflict"},
                              id: Requests \cup {None}, dto: Request \cup {NoDetails}]]
      /\ CallsOK' /\ AnsweredOK'
  BY <1>1, <1>2, <1>3, AnswerStep
<1>q. QED
  BY <1>1, <1>3, <1>4, BooksKept DEF IInv, Shape

-----------------------------------------------------------------------------
(* Steps that record *)

\* A payout is recorded: its earnings had none.
LEMMA RecordPayoutStep ==
  ASSUME IInv, NEW c \in Calls, RecordPayout(c)
  PROVE  IInv'
<1> DEFINE id == call[c].id
           dto == call[c].dto
<1>0. id \in Requests /\ dto \in Request /\ dto.kind = "payout" /\ call[c].pc # "idle"
  BY DEF RecordPayout, IInv, CallsOK
<1>1. CASE UNCHANGED <<payoutId, payouts>> /\ (Finish(c, "conflict") \/ Finish(c, "duplicate"))
  BY <1>0, <1>1, RefuseStep DEF RecordPayout
<1>2. CASE /\ Payable(dto) /\ ~Exists(id)
           /\ payouts' = [payouts EXCEPT ![id] = dto]
           /\ payoutId' = [e \in Earnings |-> IF e \in dto.earnings THEN id ELSE payoutId[e]]
           /\ Finish(c, "ok")
  <2>0. UNCHANGED <<earned, cancelled, payment, refunds>>
    BY DEF RecordPayout
  <2>1. /\ payouts' \in [Requests -> Request \cup {NoDetails}]
        /\ payouts'[id] = dto /\ \A r \in Requests \ {id} : payouts'[r] = payouts[r]
        /\ payoutId' \in [Earnings -> Requests \cup {None}]
        /\ \A e \in Earnings : payoutId'[e] = IF e \in dto.earnings THEN id ELSE payoutId[e]
    BY <1>0, <1>2 DEF IInv, Shape
  <2>2. payouts[id] = NoDetails /\ payouts[id].kind = "none"
    BY <1>2, NoDetailsKind DEF Exists
  <2>3. Lasting
    BY <2>0, <2>1, <2>2 DEF Lasting
  <2>4. Recorded(id, dto, payouts', refunds')
    BY <1>0, <2>1 DEF Recorded
  <2>5. /\ call' \in [Calls -> [pc: {"idle", "checked", "duplicate", "ok", "conflict"},
                                id: Requests \cup {None}, dto: Request \cup {NoDetails}]]
        /\ CallsOK' /\ AnsweredOK'
    BY <1>0, <1>2, <2>3, <2>4, FinishStep
  <2> HIDE DEF id, dto
  <2>6. LedgerOK'
    <3>1. \A r \in Requests : payouts[r].kind = "reversal" => payouts[r].of \in Requests
      BY RequestKinds, NoDetailsKind DEF IInv, Shape
    <3>q. QED
      BY <1>0, <2>1, <2>2, <3>1 DEF IInv, LedgerOK
  <2>7. \A r \in Requests : Corrections(r)' = Corrections(r)
    BY <1>0, <2>1, <2>2 DEF Corrections
  <2>8. Corrections(id) = {}
    BY <2>2 DEF Corrections, IInv, LedgerOK
  <2>9. ASSUME NEW e \in Earnings
        PROVE  Current(e)' = IF payoutId'[e] = None THEN {} ELSE {payoutId'[e]}
    <3>0. Current(e) = IF payoutId[e] = None THEN {} ELSE {payoutId[e]}
      BY DEF IInv, PaidOnce
    <3>1. CASE e \in dto.earnings
      <4>1. PaidBy(e)' = PaidBy(e) \cup {id}
        BY <1>0, <2>1, <2>2, <3>1 DEF PaidBy
      <4>2. Current(e)' = Current(e) \cup {id}
        BY <1>0, <2>7, <2>8, <4>1 DEF Current, PaidBy
      <4>3. payoutId[e] = None
        BY <1>2, <3>1 DEF Payable
      <4>q. QED
        BY <1>0, <2>1, <3>0, <3>1, <4>2, <4>3, NoneAssumption
    <3>2. CASE e \notin dto.earnings
      <4>1. PaidBy(e)' = PaidBy(e)
        BY <1>0, <2>1, <2>2, <3>2 DEF PaidBy
      <4>2. Current(e)' = Current(e)
        BY <2>7, <4>1 DEF Current, PaidBy
      <4>q. QED
        BY <2>1, <3>0, <3>2, <4>2
    <3>q. QED
      BY <3>1, <3>2
  <2>10. PaidOnce'
    BY <2>9 DEF PaidOnce
  <2>11. RefundMatchesPayment'
    BY <2>0 DEF IInv, RefundMatchesPayment
  <2>q. QED
    BY <2>0, <2>1, <2>5, <2>6, <2>10, <2>11 DEF IInv, Shape
<1>q. QED
  BY <1>1, <1>2 DEF RecordPayout

\* A correction is recorded: the earnings of the payout were all allocated to it.
LEMMA ReversePayoutStep ==
  ASSUME IInv, NEW c \in Calls, ReversePayout(c)
  PROVE  IInv'
<1> DEFINE id == call[c].id
           dto == call[c].dto
<1>0. /\ id \in Requests /\ dto \in Request /\ dto.kind = "reversal" /\ call[c].pc # "idle"
      /\ dto.of \in Requests
  BY RequestKinds DEF ReversePayout, IInv, CallsOK
<1>p. PICK p \in Requests : p = dto.of
  BY <1>0
<1>1. CASE UNCHANGED <<payoutId, payouts>> /\ (Finish(c, "conflict") \/ Finish(c, "duplicate"))
  BY <1>0, <1>1, RefuseStep DEF ReversePayout
<1>2. CASE /\ Reversible(p) /\ ~Exists(id) /\ Corrections(p) = {}
           /\ payouts' = [payouts EXCEPT ![id] = dto]
           /\ payoutId' = [e \in Earnings |-> IF e \in payouts[p].earnings THEN None ELSE payoutId[e]]
           /\ Finish(c, "ok")
  <2>0. UNCHANGED <<earned, cancelled, payment, refunds>>
    BY DEF ReversePayout
  <2>1. /\ payouts' \in [Requests -> Request \cup {NoDetails}]
        /\ payouts'[id] = dto /\ \A r \in Requests \ {id} : payouts'[r] = payouts[r]
        /\ payoutId' \in [Earnings -> Requests \cup {None}]
        /\ \A e \in Earnings : payoutId'[e] = IF e \in payouts[p].earnings THEN None ELSE payoutId[e]
    BY <1>0, <1>2 DEF IInv, Shape
  <2>2. /\ payouts[id] = NoDetails /\ payouts[id].kind = "none"
        /\ payouts[p].kind = "payout" /\ p # id
    BY <1>2, NoDetailsKind DEF Exists, Reversible
  <2>3. Lasting
    BY <2>0, <2>1, <2>2 DEF Lasting
  <2>4. Recorded(id, dto, payouts', refunds')
    BY <1>0, <2>1 DEF Recorded
  <2>5. /\ call' \in [Calls -> [pc: {"idle", "checked", "duplicate", "ok", "conflict"},
                                id: Requests \cup {None}, dto: Request \cup {NoDetails}]]
        /\ CallsOK' /\ AnsweredOK'
    BY <1>0, <1>2, <2>3, <2>4, FinishStep
  <2>6. LedgerOK'
    <3>1. \A r \in Requests : payouts[r].kind = "reversal" => payouts[r].of \in Requests
      BY RequestKinds, NoDetailsKind DEF IInv, Shape
    <3>2. ASSUME NEW r \in Requests \ {id}
          PROVE  /\ payouts'[r].kind # "refund"
                 /\ payouts'[r].kind = "reversal" => payouts'[payouts'[r].of].kind = "payout"
      BY <2>1, <2>2, <3>1 DEF IInv, LedgerOK
    <3>3. /\ payouts'[id].kind # "refund"
          /\ payouts'[payouts'[id].of].kind = "payout"
      BY <1>0, <1>p, <2>1, <2>2
    <3>q. QED
      BY <3>2, <3>3 DEF LedgerOK
  <2>7. /\ \A r \in Requests \ {p} : Corrections(r)' = Corrections(r)
        /\ Corrections(p)' # {}
    BY <1>0, <1>p, <2>1, <2>2 DEF Corrections
  <2>8. \A e \in Earnings : PaidBy(e)' = PaidBy(e)
    BY <1>0, <2>1, <2>2 DEF PaidBy
  <2>9. \A e \in Earnings : Current(e)' = Current(e) \ {p}
    BY <2>7, <2>8 DEF Current, PaidBy
  <2>10. ASSUME NEW e \in Earnings
         PROVE  Current(e)' = IF payoutId'[e] = None THEN {} ELSE {payoutId'[e]}
    <3>0. Current(e) = IF payoutId[e] = None THEN {} ELSE {payoutId[e]}
      BY DEF IInv, PaidOnce
    <3>1. CASE e \in payouts[p].earnings
      <4>1. payoutId[e] = p
        BY <1>2, <3>1 DEF Reversible
      <4>q. QED
        BY <1>0, <2>1, <2>9, <3>0, <3>1, <4>1, NoneAssumption
    <3>2. CASE e \notin payouts[p].earnings
      <4>1. p \notin Current(e)
        BY <3>2 DEF Current, PaidBy
      <4>q. QED
        BY <2>1, <2>9, <3>0, <3>2, <4>1
    <3>q. QED
      BY <3>1, <3>2
  <2>11. PaidOnce'
    BY <2>10 DEF PaidOnce
  <2>12. RefundMatchesPayment'
    BY <2>0 DEF IInv, RefundMatchesPayment
  <2>q. QED
    BY <2>0, <2>1, <2>5, <2>6, <2>11, <2>12 DEF IInv, Shape
<1>q. QED
  BY <1>1, <1>2, <1>p DEF ReversePayout

\* A refund is recorded, in full and for a payment not refunded before.
LEMMA RecordRefundStep ==
  ASSUME IInv, NEW c \in Calls, RecordRefund(c)
  PROVE  IInv'
<1> DEFINE id == call[c].id
           dto == call[c].dto
           o == dto.of
<1>0. /\ id \in Requests /\ dto \in Request /\ dto.kind = "refund" /\ call[c].pc # "idle"
      /\ o \in Orders /\ dto = Refund(o, dto.amount)
  BY RequestKinds DEF RecordRefund, IInv, CallsOK
<1>1. CASE UNCHANGED <<payment, refunds>> /\ (Finish(c, "conflict") \/ Finish(c, "duplicate"))
  BY <1>0, <1>1, RefuseStep DEF RecordRefund
<1>2. CASE /\ Refundable(dto) /\ ~RefundExists(id, o)
           /\ refunds' = [refunds EXCEPT ![o] = [id |-> id, dto |-> dto]]
           /\ payment' = [payment EXCEPT ![o] = "refunded"]
           /\ Finish(c, "ok")
  <2>0. UNCHANGED <<earned, payoutId, payouts, cancelled>>
    BY DEF RecordRefund
  <2>1. /\ refunds' \in [Orders -> [id: Requests \cup {None}, dto: Request \cup {NoDetails}]]
        /\ refunds'[o] = [id |-> id, dto |-> dto]
        /\ \A q \in Orders \ {o} : refunds'[q] = refunds[q]
        /\ payment' \in [Orders -> {"success", "refunded"}]
        /\ payment'[o] = "refunded" /\ \A q \in Orders \ {o} : payment'[q] = payment[q]
    BY <1>0, <1>2 DEF IInv, Shape
  <2>2. refunds[o] = NoRefund /\ [id |-> id, dto |-> dto] # NoRefund
    BY <1>0, <1>2, NoneAssumption DEF RefundExists, NoRefund
  <2>3. Lasting
    BY <2>0, <2>1, <2>2 DEF Lasting
  <2>4. Recorded(id, dto, payouts', refunds')
    BY <1>0, <2>1 DEF Recorded
  <2>5. /\ call' \in [Calls -> [pc: {"idle", "checked", "duplicate", "ok", "conflict"},
                                id: Requests \cup {None}, dto: Request \cup {NoDetails}]]
        /\ CallsOK' /\ AnsweredOK'
    BY <1>0, <1>2, <2>3, <2>4, FinishStep
  <2>6. LedgerOK' /\ PaidOnce'
    BY <2>0 DEF IInv, LedgerOK, PaidOnce, Current, PaidBy, Corrections
  <2>7. /\ payment'[o] = "refunded" /\ refunds'[o] # NoRefund
        /\ o \in cancelled' /\ refunds'[o].dto = Refund(o, Price[o])
    <3>1. o \in cancelled /\ dto.amount = Price[o]
      BY <1>2 DEF Refundable
    <3> HIDE DEF id, dto
    <3>q. QED
      BY <1>0, <2>0, <2>1, <2>2, <3>1
  <2> HIDE DEF o
  <2>8. RefundMatchesPayment'
    BY <2>0, <2>1, <2>7 DEF IInv, RefundMatchesPayment
  <2>q. QED
    BY <2>0, <2>1, <2>5, <2>6, <2>8 DEF IInv, Shape
<1>q. QED
  BY <1>1, <1>2 DEF RecordRefund

-----------------------------------------------------------------------------
(* The books *)

AmountOf == [id \in Requests |-> payouts[id].amount]

\* A payout on record is of earnings of its driver, and of what they add up to.
PayoutsOK ==
  \A id \in Requests : payouts[id].kind = "payout" =>
    /\ payouts[id].driver \in Drivers
    /\ payouts[id].earnings \subseteq earned
    /\ \A e \in payouts[id].earnings : Owner[e] = payouts[id].driver
    /\ payouts[id].amount = Total(payouts[id].earnings)

Balance == \A d \in Drivers : SumFunctionOnSet(AmountOf, Uncorrected(d)) = Total(Allocated(d))

BooksInv == /\ earned \subseteq Earnings
            /\ PayoutsOK
            /\ Balance

LEMMA TotalType == ASSUME NEW es \in SUBSET Earnings PROVE Total(es) \in Nat
<1>1. IsFiniteSet(es) /\ \A e \in es : Amount[e] \in Nat
  BY FiniteAssumption, AmountAssumption, FS_Subset
<1>q. QED
  BY <1>1, SumOfNaturals DEF Total

LEMMA RequestType == ASSUME NEW dto \in Request PROVE dto \in Details
<1>1. CASE \E d \in Drivers, es \in Selection, n \in 0..1 : dto = Payout(d, es, Total(es) + n)
  <2>1. PICK d \in Drivers, es \in Selection, n \in 0..1 : dto = Payout(d, es, Total(es) + n)
    BY <1>1
  <2>2. es \in SUBSET Earnings
    BY DEF Selection
  <2>3. Total(es) \in Nat
    BY <2>2, TotalType
  <2>4. Total(es) + n \in Nat
    BY <2>3
  <2>q. QED
    BY <2>1, <2>2, <2>4 DEF Payout, Details
<1>2. CASE \E id \in Requests : dto = Reversal(id)
  BY <1>2 DEF Reversal, Details
<1>3. CASE \E o \in Orders, n \in 0..1 : dto = Refund(o, Price[o] + n)
  <2>1. PICK o \in Orders, n \in 0..1 : dto = Refund(o, Price[o] + n)
    BY <1>3
  <2>2. Price[o] + n \in Nat
    BY AmountAssumption
  <2>q. QED
    BY <2>1, <2>2 DEF Refund, Details
<1>q. QED
  BY <1>1, <1>2, <1>3 DEF Request

LEMMA NoDetailsType == NoDetails \in Details
  BY DEF NoDetails, Details

LEMMA AmountsType == ASSUME IInv PROVE AmountOf \in [Requests -> Nat]
<1>1. \A id \in Requests : payouts[id] \in Details
  BY RequestType, NoDetailsType DEF IInv, Shape
<1>q. QED
  BY <1>1 DEF AmountOf, Details

\* An earning is allocated only if it exists.
LEMMA AllocatedEarned ==
  ASSUME IInv, BooksInv, NEW e \in Earnings, payoutId[e] # None
  PROVE  e \in earned
<1>1. payoutId[e] \in Current(e)
  BY DEF IInv, PaidOnce
<1>q. QED
  BY <1>1 DEF Current, PaidBy, BooksInv, PayoutsOK

\* A payout more on one side, and its earnings on the other, keep the balance.
LEMMA BothSides ==
  ASSUME NEW g \in [Requests -> Nat], NEW U \in SUBSET Requests, NEW x \in Requests \ U,
         NEW A \in SUBSET Earnings, NEW E \in SUBSET Earnings, A \cap E = {},
         g[x] = Total(E)
  PROVE  SumFunctionOnSet(g, U \cup {x}) = Total(A \cup E) <=> SumFunctionOnSet(g, U) = Total(A)
<1> DEFINE V == U \cup {x}
<1>1. IsFiniteSet(V) /\ IsFiniteSet(A) /\ IsFiniteSet(E)
  BY FiniteAssumption, FS_Subset
<1>2. V \ {x} = U /\ x \in V
  OBVIOUS
<1>3. \A y \in V : g[y] \in Int
  OBVIOUS
<1>4. \A e \in A \cup E : Amount[e] \in Int
  BY AmountAssumption
<1> HIDE DEF V
<1>5. /\ SumFunctionOnSet(g, V) \in Int /\ SumFunctionOnSet(g, V \ {x}) \in Int
      /\ SumFunctionOnSet(g, V) = g[x] + SumFunctionOnSet(g, V \ {x})
  BY <1>1, <1>2, <1>3, SumAdd
<1>6. Total(A \cup E) = Total(A) + Total(E)
  BY <1>1, <1>4, SumUnion DEF Total
<1>7. Total(A) \in Nat /\ Total(E) \in Nat
  BY TotalType
<1>8. SumFunctionOnSet(g, V) = Total(A \cup E) <=> SumFunctionOnSet(g, U) = Total(A)
  <2>1. SumFunctionOnSet(g, V) = Total(E) + SumFunctionOnSet(g, U) /\ SumFunctionOnSet(g, U) \in Int
    BY <1>2, <1>5
  <2>q. QED
    BY <2>1, <1>6, <1>7
<1>q. QED
  BY <1>8 DEF V

LEMMA BooksUnchanged ==
  ASSUME BooksInv, UNCHANGED <<earned, payoutId, payouts>>
  PROVE  BooksInv'
<1>1. PayoutsOK'
  BY DEF BooksInv, PayoutsOK
<1>2. AmountOf' = AmountOf /\ \A d \in Drivers : Uncorrected(d)' = Uncorrected(d)
  BY DEF AmountOf, Uncorrected, Corrections
<1>3. \A d \in Drivers : Allocated(d)' = Allocated(d)
  BY DEF Allocated
<1>4. Balance'
  BY <1>2, <1>3 DEF BooksInv, Balance
<1>q. QED
  BY <1>1, <1>4 DEF BooksInv

LEMMA EarnBooks ==
  ASSUME IInv, BooksInv, NEW x \in Earnings, Earn(x)
  PROVE  BooksInv'
<1>1. earned' = earned \cup {x} /\ x \notin earned /\ UNCHANGED <<payoutId, payouts>>
  BY DEF Earn
<1>2. payoutId[x] = None
  BY <1>1, AllocatedEarned
<1>3. PayoutsOK'
  BY <1>1 DEF BooksInv, PayoutsOK
<1>4. AmountOf' = AmountOf /\ \A d \in Drivers : Uncorrected(d)' = Uncorrected(d)
  BY <1>1 DEF AmountOf, Uncorrected, Corrections
<1>5. \A d \in Drivers : Allocated(d)' = Allocated(d)
  BY <1>1, <1>2 DEF Allocated
<1>6. Balance'
  BY <1>4, <1>5 DEF BooksInv, Balance
<1>q. QED
  BY <1>1, <1>3, <1>6 DEF BooksInv

\* A payout is recorded: one payout more to its driver, and its earnings, none
\* of which were paid, are allocated.
LEMMA RecordPayoutBooks ==
  ASSUME IInv, BooksInv, NEW c \in Calls, RecordPayout(c)
  PROVE  BooksInv'
<1>0. call[c].id \in Requests /\ call[c].dto \in Request /\ call[c].dto.kind = "payout"
  BY DEF RecordPayout, IInv, CallsOK
<1>i. PICK id \in Requests : id = call[c].id
  BY <1>0
<1>d. PICK dto \in Request : dto = call[c].dto /\ dto.kind = "payout"
  BY <1>0
<1>1. CASE UNCHANGED <<payoutId, payouts>>
  BY <1>1, BooksUnchanged DEF RecordPayout
<1>2. CASE /\ Payable(dto) /\ ~Exists(id)
           /\ payouts' = [payouts EXCEPT ![id] = dto]
           /\ payoutId' = [e \in Earnings |-> IF e \in dto.earnings THEN id ELSE payoutId[e]]
  <2>0. earned' = earned
    BY DEF RecordPayout
  <2>1. /\ payouts'[id] = dto /\ \A r \in Requests \ {id} : payouts'[r] = payouts[r]
        /\ \A e \in Earnings : payoutId'[e] = IF e \in dto.earnings THEN id ELSE payoutId[e]
    BY <1>2 DEF IInv, Shape
  <2>2. payouts[id].kind = "none"
    BY <1>2, NoDetailsKind DEF Exists
  <2>3. /\ dto.earnings \in SUBSET earned /\ dto.earnings \in SUBSET Earnings
        /\ \A e \in dto.earnings : Owner[e] = dto.driver /\ payoutId[e] = None
        /\ dto.amount = Total(dto.earnings)
    BY <1>2 DEF Payable, BooksInv
  <2>4. dto.driver \in Drivers
    <3>1. dto.earnings # {} => dto.driver \in Drivers
      BY <2>3, OwnerAssumption
    <3>2. \E d \in Drivers, es \in Selection, n \in 0..1 : dto = Payout(d, es, Total(es) + n)
      BY <1>d DEF Request, Reversal, Refund
    <3>q. QED
      BY <3>2 DEF Payout
  <2>5. PayoutsOK'
    BY <2>0, <2>1, <2>3, <2>4 DEF BooksInv, PayoutsOK
  <2>6. \A r \in Requests : Corrections(r)' = Corrections(r)
    BY <1>d, <2>1, <2>2 DEF Corrections
  <2>7. Corrections(id) = {}
    BY <2>2 DEF Corrections, IInv, LedgerOK
  <2>8. AmountOf' \in [Requests -> Nat] /\ AmountOf'[id] = Total(dto.earnings)
        /\ \A r \in Requests \ {id} : AmountOf'[r] = AmountOf[r]
    <3>1. Total(dto.earnings) \in Nat
      BY <2>3, TotalType
    <3>q. QED
      BY <2>1, <2>3, <3>1, AmountsType DEF AmountOf
  <2>9. ASSUME NEW d \in Drivers
        PROVE  SumFunctionOnSet(AmountOf', Uncorrected(d)') = Total(Allocated(d)')
    <3>0. SumFunctionOnSet(AmountOf, Uncorrected(d)) = Total(Allocated(d))
      BY DEF BooksInv, Balance
    <3>1. id \notin Uncorrected(d) /\ Uncorrected(d) \in SUBSET Requests
      BY <2>2 DEF Uncorrected
    <3>2. SumFunctionOnSet(AmountOf', Uncorrected(d)) = Total(Allocated(d))
      <4>1. IsFiniteSet(Uncorrected(d))
        BY <3>1, FiniteAssumption, FS_Subset
      <4>2. \A r \in Uncorrected(d) : AmountOf[r] \in Int /\ AmountOf'[r] = AmountOf[r]
        BY <2>8, <3>1, AmountsType
      <4>3. SumFunctionOnSet(AmountOf', Uncorrected(d)) = SumFunctionOnSet(AmountOf, Uncorrected(d))
        BY <4>1, <4>2, SumSame
      <4>q. QED
        BY <3>0, <4>3
    <3>3. CASE d = dto.driver
      <4>1. Uncorrected(d)' = Uncorrected(d) \cup {id}
        BY <1>d, <2>1, <2>6, <2>7, <3>3 DEF Uncorrected
      <4>2. Allocated(d)' = Allocated(d) \cup dto.earnings
        BY <2>0, <2>1, <2>3, <3>3, NoneAssumption DEF Allocated, BooksInv
      <4>3. Allocated(d) \cap dto.earnings = {} /\ Allocated(d) \in SUBSET Earnings
        BY <2>3 DEF Allocated, BooksInv
      <4>q. QED
        BY <2>3, <2>8, <3>1, <3>2, <4>1, <4>2, <4>3, BothSides
    <3>4. CASE d # dto.driver
      <4>1. Uncorrected(d)' = Uncorrected(d)
        BY <2>1, <2>2, <2>6, <3>4 DEF Uncorrected
      <4>2. Allocated(d)' = Allocated(d)
        BY <2>0, <2>1, <2>3, <3>4 DEF Allocated, BooksInv
      <4>q. QED
        BY <3>2, <4>1, <4>2
    <3>q. QED
      BY <3>3, <3>4
  <2>10. Balance'
    BY <2>9 DEF Balance
  <2>q. QED
    BY <2>0, <2>5, <2>10 DEF BooksInv
<1>q. QED
  BY <1>1, <1>2, <1>i, <1>d DEF RecordPayout

\* A payout is corrected: it no longer counts, and its earnings are free again.
LEMMA ReversePayoutBooks ==
  ASSUME IInv, BooksInv, NEW c \in Calls, ReversePayout(c)
  PROVE  BooksInv'
<1>0. /\ call[c].id \in Requests /\ call[c].dto \in Request
      /\ call[c].dto.kind = "reversal" /\ call[c].dto.of \in Requests
  BY RequestKinds DEF ReversePayout, IInv, CallsOK
<1>i. PICK id \in Requests : id = call[c].id
  BY <1>0
<1>d. PICK dto \in Request : dto = call[c].dto /\ dto.kind = "reversal"
  BY <1>0
<1>p. PICK p \in Requests : p = dto.of
  BY <1>0, <1>d
<1>1. CASE UNCHANGED <<payoutId, payouts>>
  BY <1>1, BooksUnchanged DEF ReversePayout
<1>2. CASE /\ Reversible(p) /\ ~Exists(id) /\ Corrections(p) = {}
           /\ payouts' = [payouts EXCEPT ![id] = dto]
           /\ payoutId' = [e \in Earnings |-> IF e \in payouts[p].earnings THEN None ELSE payoutId[e]]
  <2>0. earned' = earned
    BY DEF ReversePayout
  <2>1. /\ payouts'[id] = dto /\ \A r \in Requests \ {id} : payouts'[r] = payouts[r]
        /\ \A e \in Earnings : payoutId'[e] = IF e \in payouts[p].earnings THEN None ELSE payoutId[e]
    BY <1>2 DEF IInv, Shape
  <2>2. payouts[id].kind = "none" /\ payouts[p].kind = "payout" /\ p # id
    BY <1>2, NoDetailsKind DEF Exists, Reversible
  <2>3. /\ payouts[p].earnings \in SUBSET earned /\ payouts[p].earnings \in SUBSET Earnings
        /\ \A e \in payouts[p].earnings : Owner[e] = payouts[p].driver /\ payoutId[e] = p
        /\ payouts[p].amount = Total(payouts[p].earnings)
    BY <1>2, <2>2 DEF Reversible, BooksInv, PayoutsOK
  <2>5. PayoutsOK'
    BY <1>d, <2>0, <2>1 DEF BooksInv, PayoutsOK
  <2>6. /\ \A r \in Requests \ {p} : Corrections(r)' = Corrections(r)
        /\ id \in Corrections(p)'
    BY <1>d, <1>p, <2>1, <2>2 DEF Corrections
  <2>8. /\ AmountOf' \in [Requests -> Nat] /\ AmountOf'[p] = Total(payouts[p].earnings)
        /\ \A r \in Requests \ {id} : AmountOf'[r] = AmountOf[r]
    <3>1. dto.amount \in Nat
      BY RequestType DEF Details
    <3>q. QED
      BY <2>1, <2>2, <2>3, <3>1, AmountsType DEF AmountOf
  <2>9. ASSUME NEW d \in Drivers
        PROVE  SumFunctionOnSet(AmountOf', Uncorrected(d)') = Total(Allocated(d)')
    <3>0. SumFunctionOnSet(AmountOf, Uncorrected(d)) = Total(Allocated(d))
      BY DEF BooksInv, Balance
    <3>1. id \notin Uncorrected(d) /\ Uncorrected(d) \in SUBSET Requests
      BY <2>2 DEF Uncorrected
    <3>2. SumFunctionOnSet(AmountOf', Uncorrected(d)) = Total(Allocated(d))
      <4>1. IsFiniteSet(Uncorrected(d))
        BY <3>1, FiniteAssumption, FS_Subset
      <4>2. \A r \in Uncorrected(d) : AmountOf[r] \in Int /\ AmountOf'[r] = AmountOf[r]
        BY <2>8, <3>1, AmountsType
      <4>3. SumFunctionOnSet(AmountOf', Uncorrected(d)) = SumFunctionOnSet(AmountOf, Uncorrected(d))
        BY <4>1, <4>2, SumSame
      <4>q. QED
        BY <3>0, <4>3
    <3>3. CASE d = payouts[p].driver
      <4>1. /\ Uncorrected(d) = Uncorrected(d)' \cup {p}
            /\ p \notin Uncorrected(d)' /\ Uncorrected(d)' \in SUBSET Requests
        BY <1>2, <1>d, <2>1, <2>2, <2>6, <3>3 DEF Uncorrected
      <4>2. /\ Allocated(d) = Allocated(d)' \cup payouts[p].earnings
            /\ Allocated(d)' \cap payouts[p].earnings = {} /\ Allocated(d)' \in SUBSET Earnings
        BY <2>0, <2>1, <2>3, <3>3, NoneAssumption DEF Allocated, BooksInv
      <4>q. QED
        BY <2>3, <2>8, <3>2, <4>1, <4>2, BothSides
    <3>4. CASE d # payouts[p].driver
      <4>1. Uncorrected(d)' = Uncorrected(d)
        BY <1>d, <2>1, <2>2, <2>6, <3>4 DEF Uncorrected
      <4>2. Allocated(d)' = Allocated(d)
        BY <2>0, <2>1, <2>3, <3>4 DEF Allocated, BooksInv
      <4>q. QED
        BY <3>2, <4>1, <4>2
    <3>q. QED
      BY <3>3, <3>4
  <2>10. Balance'
    BY <2>9 DEF Balance
  <2>q. QED
    BY <2>0, <2>5, <2>10 DEF BooksInv
<1>q. QED
  BY <1>1, <1>2, <1>i, <1>d, <1>p DEF ReversePayout

-----------------------------------------------------------------------------
(* The theorems *)

LEMMA InitIInv == Init => IInv
<1> SUFFICES ASSUME Init
             PROVE  IInv
  OBVIOUS
<1>1. Shape
  BY DEF Init, Shape, NoRefund, NoCall
<1>2. \A id \in Requests : payouts[id].kind = "none"
  BY NoDetailsKind DEF Init
<1>3. LedgerOK /\ PaidOnce
  BY <1>2 DEF Init, LedgerOK, PaidOnce, Current, PaidBy
<1>4. RefundMatchesPayment
  BY DEF Init, RefundMatchesPayment
<1>5. CallsOK /\ AnsweredOK
  BY DEF Init, CallsOK, AnsweredOK, NoCall
<1>q. QED
  BY <1>1, <1>3, <1>4, <1>5 DEF IInv

LEMMA StepIInv == IInv /\ [Next]_vars => IInv'
<1> SUFFICES ASSUME IInv, [Next]_vars
             PROVE  IInv'
  OBVIOUS
<1>1. CASE (\E e \in Earnings : Earn(e)) \/ (\E o \in Orders : Cancel(o))
  BY <1>1, OutsideStep
<1>2. ASSUME NEW c \in Calls, NEW id \in Requests, NEW dto \in Request, Receive(c, id, dto)
      PROVE  IInv'
  BY <1>2, ReceiveStep
<1>3. ASSUME NEW c \in Calls, RecordPayout(c) \/ ReversePayout(c) \/ RecordRefund(c) \/ End(c)
      PROVE  IInv'
  BY <1>3, RecordPayoutStep, ReversePayoutStep, RecordRefundStep, EndStep
<1>4. ASSUME NEW c \in Calls, AnswerDuplicate(c)
      PROVE  IInv'
  BY <1>4, RefuseStep DEF AnswerDuplicate
<1>5. CASE UNCHANGED vars
  <2>1. UNCHANGED <<payoutId, payouts, cancelled, payment, refunds, call>>
    BY <1>5 DEF vars
  <2>2. AnsweredOK' /\ CallsOK'
    BY <2>1 DEF IInv, AnsweredOK, CallsOK
  <2>q. QED
    BY <2>1, <2>2, BooksKept DEF IInv, Shape
<1>q. QED
  BY <1>1, <1>2, <1>3, <1>4, <1>5 DEF Next

LEMMA InitBooks == Init => BooksInv
<1> SUFFICES ASSUME Init
             PROVE  BooksInv
  OBVIOUS
<1>1. \A id \in Requests : payouts[id].kind = "none"
  BY NoDetailsKind DEF Init
<1>2. \A d \in Drivers : Uncorrected(d) = {} /\ Allocated(d) = {}
  BY <1>1 DEF Init, Uncorrected, Allocated
<1>3. Balance
  BY <1>2, SumEmpty DEF Balance, Total
<1>q. QED
  BY <1>1, <1>3 DEF BooksInv, PayoutsOK, Init

LEMMA StepBooks == IInv /\ BooksInv /\ [Next]_vars => BooksInv'
<1> SUFFICES ASSUME IInv, BooksInv, [Next]_vars
             PROVE  BooksInv'
  OBVIOUS
<1>1. ASSUME NEW e \in Earnings, Earn(e)
      PROVE  BooksInv'
  BY <1>1, EarnBooks
<1>2. CASE UNCHANGED <<earned, payoutId, payouts>>
  BY <1>2, BooksUnchanged
<1>3. ASSUME NEW c \in Calls, RecordPayout(c) \/ ReversePayout(c)
      PROVE  BooksInv'
  BY <1>3, RecordPayoutBooks, ReversePayoutBooks
<1>4. ASSUME NEW c \in Calls, RecordRefund(c) \/ AnswerDuplicate(c) \/ End(c)
      PROVE  BooksInv'
  BY <1>2, <1>4 DEF RecordRefund, AnswerDuplicate, End
<1>5. ASSUME NEW c \in Calls, NEW id \in Requests, NEW dto \in Request, Receive(c, id, dto)
      PROVE  BooksInv'
  BY <1>2, <1>5 DEF Receive
<1>6. ASSUME NEW o \in Orders, Cancel(o)
      PROVE  BooksInv'
  BY <1>2, <1>6 DEF Cancel
<1>q. QED
  BY <1>1, <1>2, <1>3, <1>4, <1>5, <1>6 DEF Next, vars

\* The inductive invariant of delivery finance.
THEOREM Invariance == Spec => []IInv
<1>q. QED
  BY InitIInv, StepIInv, PTL DEF Spec

\* DeliveryService.payout and reversePayout never pay an earning twice.
THEOREM EarningsPaidOnce == Spec => []PaidOnce
<1>1. IInv => PaidOnce
  BY DEF IInv
<1>q. QED
  BY <1>1, Invariance, PTL

\* An administrator who is told that his request succeeded finds it on record,
\* whoever recorded it and whatever else raced with it.
THEOREM SuccessOnRecord == Spec => []SuccessIsRecorded
<1>1. IInv => SuccessIsRecorded
  BY AnswersRecorded DEF IInv, CallsOK, AnsweredOK, SuccessIsRecorded
<1>q. QED
  BY <1>1, Invariance, PTL

\* DeliveryService.refund marks exactly the payments refunded for which it has
\* recorded the full price of a cancelled order.
THEOREM RefundsMatch == Spec => []RefundMatchesPayment
<1>1. IInv => RefundMatchesPayment
  BY DEF IInv
<1>q. QED
  BY <1>1, Invariance, PTL

\* The types of the model follow from what is on record.
LEMMA Types == IInv /\ BooksInv => TypeOK
<1> SUFFICES ASSUME IInv, BooksInv
             PROVE  TypeOK
  OBVIOUS
<1>0. Request \cup {NoDetails} \subseteq Details
  BY RequestType, NoDetailsType
<1>1. payouts \in [Requests -> Details]
  BY <1>0 DEF IInv, Shape
<1>2. refunds \in [Orders -> [id: Requests \cup {None}, dto: Details]]
  <2>1. \A o \in Orders : refunds[o] \in [id: Requests \cup {None}, dto: Details]
    BY <1>0 DEF IInv, Shape
  <2>q. QED
    BY <2>1 DEF IInv, Shape
<1>3. call \in [Calls -> [pc: {"idle", "checked", "duplicate", "ok", "conflict"},
                          id: Requests \cup {None}, dto: Details]]
  <2>1. \A c \in Calls : call[c] \in [pc: {"idle", "checked", "duplicate", "ok", "conflict"},
                                      id: Requests \cup {None}, dto: Details]
    BY <1>0 DEF IInv, Shape
  <2>q. QED
    BY <2>1 DEF IInv, Shape
<1>4. payoutId \in [Earnings -> {id \in Requests : payouts[id].kind = "payout"} \cup {None}]
  <2>1. ASSUME NEW e \in Earnings, payoutId[e] # None
        PROVE  payoutId[e] \in {id \in Requests : payouts[id].kind = "payout"}
    <3>1. payoutId[e] \in Current(e)
      BY <2>1 DEF IInv, PaidOnce
    <3>q. QED
      BY <3>1 DEF Current, PaidBy
  <2>q. QED
    BY <2>1 DEF IInv, Shape
<1>q. QED
  BY <1>1, <1>2, <1>3, <1>4 DEF TypeOK, IInv, Shape, BooksInv

\* What drivers received by the payouts that stand is what their allocated
\* earnings are worth, whatever was paid and corrected in which order, and
\* refunds match payments.
THEOREM BooksAlwaysBalance == Spec => []BooksBalance
<1>1. Spec => []BooksInv
  BY InitBooks, StepBooks, Invariance, PTL DEF Spec
<1>2. IInv /\ BooksInv => BooksBalance
  BY Types DEF BooksBalance, IInv, BooksInv, Balance, AmountOf
<1>q. QED
  BY <1>1, <1>2, Invariance, PTL
=============================================================================
