----------------------------- MODULE LoanProofs -----------------------------
(***************************************************************************)
(* Safety of the loans, for every number of farmers, loans and requests    *)
(* and every bound on the months.                                          *)
(***************************************************************************)
EXTENDS Loan, SumTheorems

\* The status of a loan agrees with a decision on it.
Tells(status, decision) ==
  IF decision = "approved" THEN status \in {"approved", "repaid"} ELSE status = "rejected"

\* The version of a document counts its repayments; what a
\* schedule is built from is there from the start, and one that was not granted
\* has no repayments.
LoansOK ==
  \A l \in Loans :
    /\ loan[l].paid \subseteq 1..loan[l].months
    /\ loan[l].version = Cardinality(loan[l].paid)
    /\ loan[l].status # "none" => loan[l].amount \in Amounts /\ loan[l].months \in Durations
    /\ Approved(l) => loan[l].approvedOn \in Dates
    /\ ~Approved(l) => loan[l].paid = {}

\* A repayment in progress is of a loan that was granted and of an instalment
\* not paid when the schedule was loaded; what was loaded is still recorded.
PayingOK ==
  \A c \in Calls : call[c].pc = "paying" =>
    /\ call[c].loan \in Loans
    /\ Approved(call[c].loan)
    /\ call[c].index \in 1..loan[call[c].loan].months
    /\ call[c].index \notin call[c].paid
    /\ call[c].paid \subseteq loan[call[c].loan].paid
    /\ call[c].version = Cardinality(call[c].paid)

\* The reviewer who decided writes the only audit entry about the loan.
DecidingOK ==
  \A c \in Calls : call[c].pc = "decided" =>
    /\ call[c].loan \in Loans
    /\ Tells(loan[call[c].loan].status, call[c].decision)
    /\ \A a \in audit : a.loan # call[c].loan
    /\ \A d \in Calls : call[d].pc = "decided" /\ call[d].loan = call[c].loan => d = c

\* An application in progress is of a farmer.
ApplyingOK == \A c \in Calls : call[c].pc = "applying" => call[c].farmer \in Farmers

AuditOK ==
  /\ \A a \in audit : Tells(loan[a.loan].status, a.decision)
  /\ \A a, b \in audit : a.loan = b.loan => a = b

IInv == /\ TypeOK
        /\ LoansOK
        /\ RepaidWhenPaid
        /\ ApplyingOK
        /\ PayingOK
        /\ DecidingOK
        /\ AuditOK

-----------------------------------------------------------------------------
(* Steps of a request *)

\* A request whose step leaves the loans alone.
LEMMA RequestStep ==
  ASSUME IInv, NEW c \in Calls, NEW r \in Request,
         call' = [call EXCEPT ![c] = r], UNCHANGED <<loan, audit>>,
         r.pc # "decided",
         r.pc = "applying" => r.farmer \in Farmers,
         r.pc = "paying" => /\ r.loan \in Loans
                            /\ Approved(r.loan)
                            /\ r.index \in 1..loan[r.loan].months
                            /\ r.index \notin r.paid
                            /\ r.paid \subseteq loan[r.loan].paid
                            /\ r.version = Cardinality(r.paid)
  PROVE  IInv'
<1>1. TypeOK'
  BY DEF IInv, TypeOK
<1>2. \A d \in Calls : call'[d] = IF d = c THEN r ELSE call[d]
  BY DEF IInv, TypeOK
<1>3. LoansOK' /\ RepaidWhenPaid' /\ AuditOK'
  BY DEF IInv, LoansOK, RepaidWhenPaid, AuditOK, Approved
<1>4. ApplyingOK'
  BY <1>2 DEF IInv, ApplyingOK
<1>5. PayingOK'
  BY <1>2 DEF IInv, PayingOK, Approved
<1>6. DecidingOK'
  BY <1>2 DEF IInv, DecidingOK
<1>q. QED
  BY <1>1, <1>3, <1>4, <1>5, <1>6 DEF IInv

LEMMA IdleRequest == NoCall \in Request /\ NoCall.pc = "idle"
  BY AmountAssumption DEF NoCall, Request, Decision

LEMMA ApplyCheckStep ==
  ASSUME IInv, NEW c \in Calls, NEW f \in Farmers, ApplyCheck(c, f)
  PROVE  IInv'
<1>1. [NoCall EXCEPT !.pc = "applying", !.farmer = f] \in Request
  BY IdleRequest DEF NoCall, Request
<1>q. QED
  BY <1>1, RequestStep DEF ApplyCheck, NoCall

LEMMA LoadInstalmentStep ==
  ASSUME IInv, NEW c \in Calls, NEW l \in Loans, NEW i \in Durations, LoadInstalment(c, l, i)
  PROVE  IInv'
<1> DEFINE r == [NoCall EXCEPT !.pc = "paying", !.loan = l, !.index = i,
                               !.paid = loan[l].paid, !.version = loan[l].version]
<1>1. loan[l] \in LoanApplication
  BY DEF IInv, TypeOK
<1>2. r \in Request
  BY <1>1 DEF NoCall, Request, Decision, LoanApplication
<1>3. /\ r.pc = "paying" /\ r.loan = l /\ r.index = i
      /\ r.paid = loan[l].paid /\ r.version = loan[l].version
  BY DEF NoCall
<1>4. /\ call' = [call EXCEPT ![c] = r] /\ UNCHANGED <<loan, audit>>
      /\ Approved(l) /\ i \in 1..loan[l].months /\ i \notin loan[l].paid
  BY DEF LoadInstalment, Approved
<1>5. loan[l].version = Cardinality(loan[l].paid)
  BY DEF IInv, LoansOK
<1> HIDE DEF r
<1>q. QED
  BY <1>2, <1>3, <1>4, <1>5, RequestStep

LEMMA EndStep ==
  ASSUME IInv, NEW c \in Calls, call' = [call EXCEPT ![c] = NoCall], UNCHANGED <<loan, audit>>
  PROVE  IInv'
  BY IdleRequest, RequestStep

LEMMA WriteAuditStep ==
  ASSUME IInv, NEW c \in Calls, WriteAudit(c)
  PROVE  IInv'
<1> DEFINE a == [by |-> c, loan |-> call[c].loan, decision |-> call[c].decision]
<1>1. /\ call[c].loan \in Loans
      /\ Tells(loan[call[c].loan].status, call[c].decision)
      /\ \A b \in audit : b.loan # call[c].loan
      /\ \A d \in Calls \ {c} : call[d].pc = "decided" => call[d].loan # call[c].loan
  BY DEF IInv, DecidingOK, WriteAudit
<1>2. a \in [by: Calls, loan: Loans, decision: Decision]
  BY <1>1 DEF IInv, TypeOK, Request
<1>3. a.loan = call[c].loan /\ a.decision = call[c].decision
  OBVIOUS
<1>4. audit' = audit \cup {a} /\ call' = [call EXCEPT ![c] = NoCall] /\ loan' = loan
  BY DEF WriteAudit
<1> HIDE DEF a
<1>5. TypeOK'
  BY <1>2, <1>4, IdleRequest DEF IInv, TypeOK
<1>6. \A d \in Calls : call'[d] = IF d = c THEN NoCall ELSE call[d]
  BY <1>4 DEF IInv, TypeOK
<1>7. LoansOK' /\ RepaidWhenPaid'
  BY <1>4 DEF IInv, LoansOK, RepaidWhenPaid, Approved
<1>8. ApplyingOK' /\ PayingOK'
  BY <1>4, <1>6, IdleRequest DEF IInv, ApplyingOK, PayingOK, Approved
<1>9. DecidingOK'
  BY <1>1, <1>3, <1>4, <1>6, IdleRequest DEF IInv, DecidingOK
<1>10. AuditOK'
  BY <1>1, <1>3, <1>4 DEF IInv, AuditOK
<1>q. QED
  BY <1>5, <1>7, <1>8, <1>9, <1>10 DEF IInv

-----------------------------------------------------------------------------
(* Steps of a loan *)

\* What is on record of a loan when it is in order.
InOrder(d) ==
  LET granted == d.status \in {"approved", "repaid"} IN
  /\ d.paid \subseteq 1..d.months
  /\ d.version = Cardinality(d.paid)
  /\ d.status # "none" => d.amount \in Amounts /\ d.months \in Durations
  /\ granted => /\ d.approvedOn \in Dates
                /\ (d.status = "repaid" <=> d.paid = 1..d.months)
  /\ ~granted => d.paid = {}

\* A loan moves on: it stays granted on the same terms, it keeps what was repaid
\* and it contradicts no decision taken on it.
MovesOn(d, e) ==
  /\ d.status \in {"approved", "repaid"} => /\ e.status \in {"approved", "repaid"}
                                            /\ e.months = d.months
  /\ d.status = "rejected" => e.status = "rejected"
  /\ d.paid \subseteq e.paid

\* One loan changes, and at most one request; no request is waiting to record a
\* decision on it but the one whose decision it is.
LEMMA LoanStep ==
  ASSUME IInv, NEW l \in Loans, NEW d \in LoanApplication,
         loan' = [loan EXCEPT ![l] = d], InOrder(d), MovesOn(loan[l], d), UNCHANGED audit,
         call' \in [Calls -> Request],
         \A c \in Calls : call'[c].pc \in {"applying", "paying"} => call'[c] = call[c],
         \A c \in Calls : call'[c].pc = "decided" /\ call'[c] # call[c] =>
            /\ call'[c].loan = l
            /\ loan[l].status = "under_review"
            /\ Tells(d.status, call'[c].decision)
            /\ \A e \in Calls \ {c} : call'[e] = call[e]
  PROVE  IInv'
<1>1. TypeOK'
  BY DEF IInv, TypeOK
<1>2. \A m \in Loans : loan'[m] = IF m = l THEN d ELSE loan[m]
  BY DEF IInv, TypeOK
<1>3. \A m \in Loans : MovesOn(loan[m], loan'[m])
  BY <1>2 DEF MovesOn
<1>4. \A m \in Loans : InOrder(loan[m])
  BY DEF IInv, LoansOK, RepaidWhenPaid, Approved, InOrder
<1>5. \A m \in Loans : InOrder(loan'[m])
  BY <1>2, <1>4
<1>6. LoansOK' /\ RepaidWhenPaid'
  BY <1>5 DEF LoansOK, RepaidWhenPaid, Approved, InOrder
<1>7. ApplyingOK'
  BY DEF IInv, ApplyingOK
<1>8. PayingOK'
  <2> SUFFICES ASSUME NEW c \in Calls, call'[c].pc = "paying"
               PROVE  /\ call[c].loan \in Loans
                      /\ Approved(call[c].loan)'
                      /\ call[c].index \in 1..loan'[call[c].loan].months
                      /\ call[c].index \notin call[c].paid
                      /\ call[c].paid \subseteq loan'[call[c].loan].paid
                      /\ call[c].version = Cardinality(call[c].paid)
    BY DEF PayingOK
  <2>1. /\ call[c].loan \in Loans
        /\ Approved(call[c].loan)
        /\ call[c].index \in 1..loan[call[c].loan].months
        /\ call[c].index \notin call[c].paid
        /\ call[c].paid \subseteq loan[call[c].loan].paid
        /\ call[c].version = Cardinality(call[c].paid)
    BY DEF IInv, PayingOK
  <2>2. MovesOn(loan[call[c].loan], loan'[call[c].loan])
    BY <2>1, <1>3
  <2>q. QED
    BY <2>1, <2>2 DEF MovesOn, Approved
<1>9. DecidingOK'
  <2>0. \A m \in Loans : \A x : Tells(loan[m].status, x) => Tells(loan'[m].status, x)
    BY <1>3 DEF MovesOn, Tells
  <2>1. \A x : ~Tells("under_review", x)
    BY DEF Tells
  <2> SUFFICES ASSUME NEW c \in Calls, call'[c].pc = "decided"
               PROVE  /\ call'[c].loan \in Loans
                      /\ Tells(loan'[call'[c].loan].status, call'[c].decision)
                      /\ \A a \in audit : a.loan # call'[c].loan
                      /\ \A e \in Calls : call'[e].pc = "decided" /\ call'[e].loan = call'[c].loan => e = c
    BY DEF DecidingOK
  <2>2. CASE call'[c] = call[c]
    BY <2>0, <2>1, <2>2 DEF IInv, DecidingOK
  <2>3. CASE call'[c] # call[c]
    BY <1>2, <2>1, <2>3 DEF IInv, DecidingOK, AuditOK
  <2>q. QED
    BY <2>2, <2>3
<1>10. AuditOK'
  <2>1. \A a \in audit : a.loan \in Loans
    BY DEF IInv, TypeOK
  <2>q. QED
    BY <1>3, <2>1 DEF IInv, AuditOK, MovesOn, Tells
<1>q. QED
  BY <1>1, <1>6, <1>7, <1>8, <1>9, <1>10 DEF IInv

LEMMA ApplyCreateStep ==
  ASSUME IInv, NEW c \in Calls, NEW l \in Loans, NEW amount \in Amounts, NEW months \in Durations,
         ApplyCreate(c, l, amount, months)
  PROVE  IInv'
<1> DEFINE d == NewLoan(call[c].farmer, "pending", amount, months)
<1>1. call[c].farmer \in Farmers
  BY DEF IInv, ApplyingOK, ApplyCreate
<1>2. d \in LoanApplication
  BY <1>1, AmountAssumption DEF NewLoan, LoanApplication, Status, OPEN_STATUSES
<1>3. d.status = "pending" /\ d.paid = {} /\ d.version = 0
  BY DEF NewLoan
<1>3a. d.amount = amount /\ d.months = months
  BY DEF NewLoan
<1>4. /\ loan' = [loan EXCEPT ![l] = d] /\ call' = [call EXCEPT ![c] = NoCall] /\ audit' = audit
      /\ loan[l].status = "none"
  BY DEF ApplyCreate
<1>5. loan[l].paid = {}
  BY <1>4 DEF IInv, LoansOK, Approved
<1> HIDE DEF d
<1>6. InOrder(d) /\ MovesOn(loan[l], d)
  BY <1>3, <1>3a, <1>4, <1>5, FS_EmptySet DEF InOrder, MovesOn
<1>7. call' \in [Calls -> Request] /\ \A e \in Calls : call'[e] = IF e = c THEN NoCall ELSE call[e]
  BY <1>4, IdleRequest DEF IInv, TypeOK
<1>q. QED
  BY <1>2, <1>4, <1>6, <1>7, IdleRequest, LoanStep

LEMMA StartReviewStep ==
  ASSUME IInv, NEW l \in Loans, StartReview(l)
  PROVE  IInv'
<1> DEFINE d == [loan[l] EXCEPT !.status = "under_review"]
<1>1. loan[l] \in LoanApplication
  BY DEF IInv, TypeOK
<1>2. d \in LoanApplication
  BY <1>1 DEF LoanApplication, Status, OPEN_STATUSES
<1>3. d.status = "under_review" /\ d.paid = loan[l].paid /\ d.version = loan[l].version
      /\ d.months = loan[l].months /\ d.amount = loan[l].amount
  BY <1>1 DEF LoanApplication
<1>4. /\ loan' = [loan EXCEPT ![l] = d] /\ call' = call /\ audit' = audit
      /\ loan[l].status = "pending"
  BY DEF StartReview
<1> HIDE DEF d
<1>5. InOrder(d) /\ MovesOn(loan[l], d)
  BY <1>3, <1>4 DEF InOrder, MovesOn, IInv, LoansOK, Approved
<1>6. call' \in [Calls -> Request]
  BY <1>4 DEF IInv, TypeOK
<1>q. QED
  BY <1>2, <1>4, <1>5, <1>6, LoanStep

LEMMA DecideStep ==
  ASSUME IInv, NEW c \in Calls, NEW l \in Loans, NEW decision \in Decision, NEW today \in Dates,
         Decide(c, l, decision, today)
  PROVE  IInv'
<1> DEFINE d == [loan[l] EXCEPT !.status = decision,
                                !.approvedOn = IF decision = "approved" THEN today ELSE @]
           r == [NoCall EXCEPT !.pc = "decided", !.loan = l, !.decision = decision]
<1>1. loan[l] \in LoanApplication /\ loan[l].status = "under_review"
  BY DEF IInv, TypeOK, Decide, Decidable
<1>2. d \in LoanApplication
  BY <1>1 DEF LoanApplication, Status, OPEN_STATUSES, Decision
<1>3. /\ d.status = decision /\ d.paid = loan[l].paid /\ d.version = loan[l].version
      /\ d.months = loan[l].months /\ d.amount = loan[l].amount
      /\ decision = "approved" => d.approvedOn = today
  BY <1>1 DEF LoanApplication
<1>4. r \in Request /\ r.pc = "decided" /\ r.loan = l /\ r.decision = decision
  BY IdleRequest DEF Request, NoCall
<1>5. loan' = [loan EXCEPT ![l] = d] /\ call' = [call EXCEPT ![c] = r] /\ audit' = audit
  BY <1>1 DEF Decide, IInv, TypeOK
<1> HIDE DEF d, r
<1>6. InOrder(d) /\ MovesOn(loan[l], d)
  <2>1. /\ loan[l].paid = {} /\ loan[l].version = Cardinality({})
        /\ loan[l].amount \in Amounts /\ loan[l].months \in Durations
    BY <1>1 DEF IInv, LoansOK, Approved
  <2>2. 1..loan[l].months # {}
    BY <2>1, AmountAssumption DEF Durations
  <2>q. QED
    BY <1>1, <1>3, <2>1, <2>2 DEF InOrder, MovesOn, Decision
<1>7. call' \in [Calls -> Request] /\ \A e \in Calls : call'[e] = IF e = c THEN r ELSE call[e]
  BY <1>4, <1>5 DEF IInv, TypeOK
<1>8. Tells(d.status, decision)
  BY <1>3 DEF Tells, Decision
<1>q. QED
  BY <1>1, <1>2, <1>4, <1>5, <1>6, <1>7, <1>8, LoanStep

\* A schedule is finite.
LEMMA FiniteSchedule ==
  ASSUME NEW months \in Durations, NEW S \in SUBSET (1..months)
  PROVE  /\ IsFiniteSet(1..months) /\ Cardinality(1..months) = months
         /\ IsFiniteSet(S)
<1>1. months \in Nat /\ 1 <= months
  BY AmountAssumption DEF Durations
<1>2. /\ IsFiniteSet(1..months)
      /\ Cardinality(1..months) = IF 1 > months THEN 0 ELSE months - 1 + 1
  BY <1>1, FS_Interval
<1>3. IsFiniteSet(S)
  BY <1>2, FS_Subset
<1>q. QED
  BY <1>1, <1>2, <1>3

\* The version filter lets a save pass only if no repayment was recorded since
\* the schedule was loaded.
LEMMA NothingSavedSince ==
  ASSUME IInv, NEW c \in Calls, call[c].pc = "paying", VersionMatches(c)
  PROVE  call[c].paid = loan[call[c].loan].paid
<1> DEFINE l == call[c].loan
<1>1. /\ l \in Loans /\ Approved(l) /\ call[c].paid \subseteq loan[l].paid
      /\ call[c].version = Cardinality(call[c].paid)
  BY DEF IInv, PayingOK
<1>2. /\ loan[l].months \in Durations /\ loan[l].paid \subseteq 1..loan[l].months
      /\ loan[l].version = Cardinality(loan[l].paid)
  BY <1>1 DEF IInv, LoansOK, Approved
<1>3. IsFiniteSet(loan[l].paid)
  BY <1>2, FiniteSchedule
<1>q. QED
  BY <1>1, <1>2, <1>3, FS_Subset DEF VersionMatches

\* A save that passes the version filter writes what was recorded and one
\* instalment more.
LEMMA MarkInstalmentPaidStep ==
  ASSUME IInv, NEW c \in Calls, MarkInstalmentPaid(c)
  PROVE  IInv'
<1> DEFINE l == call[c].loan
           paid == call[c].paid \cup {call[c].index}
           d == [loan[l] EXCEPT !.paid = paid, !.version = @ + 1,
                                !.status = IF Repaid(l, paid) THEN "repaid" ELSE @]
<1>1. CASE ~VersionMatches(c)
  BY <1>1, EndStep DEF MarkInstalmentPaid
<1>2. CASE VersionMatches(c)
  <2>1. /\ l \in Loans /\ Approved(l) /\ call[c].index \in 1..loan[l].months
        /\ call[c].index \notin call[c].paid
    BY DEF IInv, PayingOK, MarkInstalmentPaid
  <2>2. /\ loan[l] \in LoanApplication /\ loan[l].months \in Durations
        /\ loan[l].paid \subseteq 1..loan[l].months
        /\ loan[l].version = Cardinality(loan[l].paid)
        /\ loan[l].amount \in Amounts /\ loan[l].approvedOn \in Dates
    BY <2>1 DEF IInv, TypeOK, LoansOK, Approved
  <2>3. /\ IsFiniteSet(1..loan[l].months) /\ Cardinality(1..loan[l].months) = loan[l].months
        /\ IsFiniteSet(loan[l].paid)
    BY <2>2, FiniteSchedule
  <2>5. call[c].paid = loan[l].paid
    BY <1>2, NothingSavedSince DEF MarkInstalmentPaid
  <2>6. loan[l].paid # 1..loan[l].months
    BY <2>1, <2>5
  <2>7. loan[l].status = "approved"
    BY <2>1, <2>6 DEF IInv, RepaidWhenPaid, Approved
  <2>8. Cardinality(paid) = loan[l].version + 1
    <3>1. Cardinality(loan[l].paid \cup {call[c].index}) =
            IF call[c].index \in loan[l].paid THEN Cardinality(loan[l].paid)
            ELSE Cardinality(loan[l].paid) + 1
      BY <2>3, FS_AddElement
    <3>q. QED
      BY <2>1, <2>2, <2>5, <3>1
  <2>9. paid \subseteq 1..loan[l].months
    BY <2>1, <2>2, <2>5
  <2>10. Cardinality(paid) \in 0..MaxDuration
    <3>1. Cardinality(paid) <= loan[l].months
      BY <2>3, <2>9, FS_Subset
    <3>2. loan[l].version + 1 \in Nat
      BY <2>2, AmountAssumption DEF LoanApplication
    <3>q. QED
      BY <2>2, <2>8, <3>1, <3>2, AmountAssumption DEF Durations
  <2>11. paid \subseteq Durations
    BY <2>2, <2>9, AmountAssumption DEF Durations
  <2>12. d \in LoanApplication
    BY <2>2, <2>8, <2>10, <2>11 DEF LoanApplication, Status, OPEN_STATUSES
  <2>13. /\ d.paid = paid /\ d.version = Cardinality(paid) /\ d.months = loan[l].months
         /\ d.amount = loan[l].amount /\ d.approvedOn = loan[l].approvedOn
         /\ d.status = IF paid = 1..loan[l].months THEN "repaid" ELSE "approved"
    BY <2>2, <2>7, <2>8 DEF LoanApplication, Repaid
  <2>14. loan' = [loan EXCEPT ![l] = d] /\ call' = [call EXCEPT ![c] = NoCall] /\ audit' = audit
    BY <1>2, <2>1 DEF MarkInstalmentPaid, IInv, TypeOK
  <2>15. loan[l].paid \subseteq paid
    BY <2>5
  <2> HIDE DEF d, paid
  <2>16. InOrder(d) /\ MovesOn(loan[l], d)
    BY <2>2, <2>7, <2>9, <2>13, <2>15 DEF InOrder, MovesOn
  <2>17. call' \in [Calls -> Request] /\ \A e \in Calls : call'[e] = IF e = c THEN NoCall ELSE call[e]
    BY <2>14, IdleRequest DEF IInv, TypeOK
  <2> HIDE DEF l
  <2>q. QED
    BY <2>1, <2>12, <2>14, <2>16, <2>17, IdleRequest, LoanStep
<1>q. QED
  BY <1>1, <1>2

-----------------------------------------------------------------------------
(* Instalments *)

\* Months have 28 to 31 days.
LEMMA DaysInMonth == ASSUME NEW m \in Nat PROVE DaysIn(m) \in 28..31
  BY DEF DaysIn

\* One month later is later, whether or not the day runs over the month's end.
LEMMA LaterMonthLater ==
  ASSUME NEW on \in [month: Nat, day: 1..31], NEW i \in Nat, NEW j \in Nat, i < j
  PROVE  Before(DueDate(on, i), DueDate(on, j))
<1>1. on.month \in Nat /\ on.day \in 1..31
  OBVIOUS
<1>2. on.month + i \in Nat /\ on.month + j \in Nat /\ on.month + i < on.month + j
  BY <1>1
<1>3. DaysIn(on.month + i) \in 28..31 /\ DaysIn(on.month + j) \in 28..31
  BY <1>2, DaysInMonth
<1>q. QED
  BY <1>1, <1>2, <1>3 DEF Before, DueDate

\* No instalment is negative, and the last one makes up for the rounding of the
\* others.
LEMMA InstalmentsCover ==
  ASSUME NEW amount \in Nat, NEW months \in Nat \ {0}
  PROVE  /\ \A i \in 1..months : Instalment(amount, months, i) \in Nat
         /\ (amount \div months) * (months - 1) + Instalment(amount, months, months) = amount
         /\ Instalment(amount, months, months) >= amount \div months
         /\ Instalment(amount, months, months) < (amount \div months) + months
<1> DEFINE base == amount \div months
<1>1. base \in Nat /\ base * months <= amount /\ amount < base * months + months
  OBVIOUS
<1> HIDE DEF base
<1>2. base * (months - 1) = base * months - base
  BY <1>1
<1>3. base * months \in Nat
  BY <1>1
<1>4. amount - base * (months - 1) = amount - base * months + base
  BY <1>1, <1>2, <1>3
<1>5. \A i \in 1..months : Instalment(amount, months, i) =
         IF i = months THEN amount - base * months + base ELSE base
  BY <1>4 DEF Instalment, base
<1>6. Instalment(amount, months, months) = amount - base * months + base
  BY <1>5
<1>7. /\ base * (months - 1) + Instalment(amount, months, months) = amount
      /\ Instalment(amount, months, months) >= base
      /\ Instalment(amount, months, months) < base + months
  BY <1>1, <1>2, <1>3, <1>6
<1>8. \A i \in 1..months : Instalment(amount, months, i) \in Nat
  BY <1>1, <1>3, <1>5
<1>q. QED
  BY <1>7, <1>8 DEF base

\* Equal instalments and the last one add up to the loan.
LEMMA InstalmentsAddUp ==
  ASSUME NEW amount \in Nat, NEW months \in Durations, NEW f,
         \A i \in 1..months : f[i] = Instalment(amount, months, i)
  PROVE  SumFunctionOnSet(f, 1..months) = amount
<1> DEFINE S == 1..months
           R == S \ {months}
           base == amount \div months
<1>0. months \in Nat \ {0} /\ base \in Nat
  BY AmountAssumption DEF Durations
<1>1. IsFiniteSet(S) /\ Cardinality(S) = months /\ months \in S
  BY <1>0, FiniteSchedule
<1>2. IsFiniteSet(R) /\ Cardinality(R) = months - 1
  BY <1>0, <1>1, FS_RemoveElement
<1>3. (\A i \in S : f[i] \in Int) /\ (\A i \in R : f[i] = base)
      /\ f[months] = Instalment(amount, months, months)
      /\ base * (months - 1) + f[months] = amount
  <2>1. /\ \A i \in 1..months : Instalment(amount, months, i) \in Nat
        /\ base * (months - 1) + Instalment(amount, months, months) = amount
    BY <1>0, InstalmentsCover
  <2>2. \A i \in R : i # months /\ i \in 1..months
    OBVIOUS
  <2>3. \A i \in R : Instalment(amount, months, i) = base
    BY <2>2 DEF Instalment
  <2>4. f[months] = Instalment(amount, months, months)
    BY <1>1
  <2>5. \A i \in R : f[i] = base
    BY <2>2, <2>3
  <2>6. \A i \in S : f[i] \in Int
    BY <2>1
  <2> HIDE DEF base, R, S
  <2>q. QED
    BY <2>1, <2>4, <2>5, <2>6
<1> HIDE DEF S, R, base
<1>4. SumFunctionOnSet(f, S) = f[months] + SumFunctionOnSet(f, S \ {months})
  BY <1>1, <1>3, SumAdd
<1>5. SumFunctionOnSet(f, R) = Cardinality(R) * base
  BY <1>0, <1>2, <1>3, SumOfConstant
<1>6. SumFunctionOnSet(f, R) = base * (months - 1)
  BY <1>0, <1>2, <1>5
<1>7. f[months] \in Int /\ base * (months - 1) \in Int
  BY <1>0, <1>1, <1>3
<1>8. SumFunctionOnSet(f, S) = amount
  BY <1>3, <1>4, <1>6, <1>7 DEF R
<1>q. QED
  BY <1>8 DEF S

-----------------------------------------------------------------------------
(* The theorems *)

\* The loan documents, the requests and the audit entries agree with each other
\* after every step of every request, in whatever order the requests run.
THEOREM Invariance == Spec => []IInv
<1>1. Init => IInv
  <2>0. \A l \in Loans : NewLoan(NoOne, "none", 0, 0) \in LoanApplication
    BY AmountAssumption DEF NewLoan, LoanApplication, Status, OPEN_STATUSES
  <2> SUFFICES ASSUME Init PROVE IInv
    OBVIOUS
  <2>1. TypeOK
    BY <2>0, IdleRequest DEF Init, TypeOK
  <2>2. \A l \in Loans : loan[l].status = "none" /\ loan[l].paid = {} /\ loan[l].version = 0
    BY DEF Init, NewLoan
  <2>3. LoansOK /\ RepaidWhenPaid
    BY <2>2, FS_EmptySet DEF LoansOK, RepaidWhenPaid, Approved
  <2>4. \A c \in Calls : call[c].pc = "idle"
    BY IdleRequest DEF Init
  <2>5. ApplyingOK /\ PayingOK /\ DecidingOK /\ AuditOK
    BY <2>4 DEF Init, ApplyingOK, PayingOK, DecidingOK, AuditOK
  <2>q. QED
    BY <2>1, <2>3, <2>5 DEF IInv
<1>2. IInv /\ [Next]_vars => IInv'
  <2> SUFFICES ASSUME IInv, [Next]_vars PROVE IInv'
    OBVIOUS
  <2>1. ASSUME NEW l \in Loans, StartReview(l) PROVE IInv'
    BY <2>1, StartReviewStep
  <2>2. ASSUME NEW c \in Calls, NEW f \in Farmers, ApplyCheck(c, f) PROVE IInv'
    BY <2>2, ApplyCheckStep
  <2>3. ASSUME NEW c \in Calls, NEW l \in Loans, NEW amount \in Amounts, NEW months \in Durations,
               ApplyCreate(c, l, amount, months)
        PROVE  IInv'
    BY <2>3, ApplyCreateStep
  <2>4. ASSUME NEW c \in Calls, NEW l \in Loans, NEW decision \in Decision, NEW today \in Dates,
               Decide(c, l, decision, today)
        PROVE  IInv'
    BY <2>4, DecideStep
  <2>5. ASSUME NEW c \in Calls, NEW l \in Loans, NEW i \in Durations, LoadInstalment(c, l, i)
        PROVE  IInv'
    BY <2>5, LoadInstalmentStep
  <2>6. ASSUME NEW c \in Calls, WriteAudit(c) PROVE IInv'
    BY <2>6, WriteAuditStep
  <2>7. ASSUME NEW c \in Calls, MarkInstalmentPaid(c) PROVE IInv'
    BY <2>7, MarkInstalmentPaidStep
  <2>8. ASSUME NEW c \in Calls, AbandonCall(c) PROVE IInv'
    BY <2>8, EndStep DEF AbandonCall
  <2>9. CASE UNCHANGED vars
    BY <2>9 DEF vars, IInv, TypeOK, LoansOK, RepaidWhenPaid, ApplyingOK, PayingOK, DecidingOK,
                AuditOK, Approved
  <2>q. QED
    BY <2>1, <2>2, <2>3, <2>4, <2>5, <2>6, <2>7, <2>8, <2>9 DEF Next
<1>q. QED
  BY <1>1, <1>2, PTL DEF Spec

\* Of reviewers who decide together one wins: a loan is decided once, and every
\* audit entry tells the decision that stands.
THEOREM LoansDecidedOnce == Spec => []DecidedOnce
<1>1. IInv => DecidedOnce
  BY DEF IInv, TypeOK, AuditOK, Tells, DecidedOnce, Approved, Decision
<1>q. QED
  BY <1>1, Invariance, PTL

\* A loan is closed when its last instalment is recorded, not before or after.
THEOREM ClosedWhenRepaid == Spec => []RepaidWhenPaid
<1>1. IInv => RepaidWhenPaid
  BY DEF IInv
<1>q. QED
  BY <1>1, Invariance, PTL

\* A recorded repayment is never lost to another one that loaded the schedule
\* before it: the version filter refuses the later save.
THEOREM NoRepaymentLost == Spec => RepaymentsKept
<1>1. IInv /\ [Next]_vars => [\A l \in Loans : loan[l].paid \subseteq loan'[l].paid]_vars
  <2> SUFFICES ASSUME IInv, Next, NEW l \in Loans
               PROVE  loan[l].paid \subseteq loan'[l].paid
    OBVIOUS
  <2>1. loan \in [Loans -> LoanApplication]
    BY DEF IInv, TypeOK
  <2>2. ASSUME NEW c \in Calls, NEW m \in Loans, NEW amount \in Amounts, NEW months \in Durations,
               ApplyCreate(c, m, amount, months)
        PROVE  loan[l].paid \subseteq loan'[l].paid
    <3>1. loan[m].paid = {}
      BY <2>2 DEF ApplyCreate, IInv, LoansOK, Approved
    <3>q. QED
      BY <2>1, <2>2, <3>1 DEF ApplyCreate
  <2>3. ASSUME NEW c \in Calls, MarkInstalmentPaid(c)
        PROVE  loan[l].paid \subseteq loan'[l].paid
    <3>1. VersionMatches(c) => call[c].paid = loan[call[c].loan].paid /\ call[c].loan \in Loans
      BY <2>3, NothingSavedSince DEF MarkInstalmentPaid, IInv, PayingOK
    <3>2. CASE UNCHANGED loan
      BY <3>2
    <3>3. CASE VersionMatches(c) /\ call[c].loan = l
      <4>1. loan'[l].paid = call[c].paid \cup {call[c].index} \/ UNCHANGED loan
        BY <2>1, <2>3, <3>3 DEF MarkInstalmentPaid, LoanApplication
      <4>q. QED
        BY <3>1, <3>3, <4>1
    <3>4. CASE VersionMatches(c) /\ call[c].loan # l
      BY <2>1, <2>3, <3>4 DEF MarkInstalmentPaid
    <3>q. QED
      BY <2>3, <3>2, <3>3, <3>4 DEF MarkInstalmentPaid
  <2>4. ASSUME NEW m \in Loans, StartReview(m)
        PROVE  loan[l].paid \subseteq loan'[l].paid
    BY <2>1, <2>4 DEF StartReview, LoanApplication
  <2>5. ASSUME NEW c \in Calls, NEW m \in Loans, NEW decision \in Decision, NEW today \in Dates,
               Decide(c, m, decision, today)
        PROVE  loan[l].paid \subseteq loan'[l].paid
    BY <2>1, <2>5 DEF Decide, LoanApplication
  <2>6. ASSUME UNCHANGED loan
        PROVE  loan[l].paid \subseteq loan'[l].paid
    BY <2>6
  <2>q. QED
    BY <2>2, <2>3, <2>4, <2>5, <2>6 DEF Next, ApplyCheck, LoadInstalment, WriteAudit, AbandonCall
<1>q. QED
  BY <1>1, Invariance, PTL DEF Spec, RepaymentsKept

\* The schedule of every granted loan is in order: no instalment is negative and
\* each falls due after the one before, whatever the day of the approval.
THEOREM SchedulesStayInOrder == Spec => []SchedulesInOrder
<1>1. IInv => SchedulesInOrder
  <2> SUFFICES ASSUME IInv, NEW l \in Loans, Approved(l)
               PROVE  DueInOrder(Schedule(l))
    BY DEF SchedulesInOrder
  <2> DEFINE months == loan[l].months
             on     == loan[l].approvedOn
             amount == loan[l].amount
  <2>1. amount \in Amounts /\ months \in Durations /\ on \in Dates
    BY DEF IInv, LoansOK, Approved
  <2>2. amount \in Nat /\ months \in Nat \ {0} /\ on \in [month: Nat, day: 1..31]
    <3>1. on \in [month: Nat, day: 1..31]
      BY <2>1, DateAssumption
    <3>2. months \in Nat \ {0}
      BY <2>1, AmountAssumption DEF Durations
    <3>q. QED
      BY <2>1, <3>1, <3>2, AmountAssumption
  <2> HIDE DEF months, on, amount
  <2>3. \A i \in 1..months : Instalment(amount, months, i) \in Nat
    BY <2>2, InstalmentsCover
  <2>4. \A i, j \in 1..months : i < j => Before(DueDate(on, i), DueDate(on, j))
    BY <2>2, LaterMonthLater
  <2> DEFINE s == Schedule(l)
  <2>5. /\ DOMAIN s = 1..months
        /\ \A i \in 1..months : /\ s[i].dueDate = DueDate(on, i)
                                 /\ s[i].amount = Instalment(amount, months, i)
    BY DEF Schedule, months, on, amount
  <2> HIDE DEF s
  <2>6. \A i \in DOMAIN s : s[i].amount >= 0
    BY <2>3, <2>5
  <2>7. \A i, j \in DOMAIN s : i < j => Before(s[i].dueDate, s[j].dueDate)
    BY <2>4, <2>5
  <2>q. QED
    BY <2>6, <2>7 DEF DueInOrder, s
<1>q. QED
  BY <1>1, Invariance, PTL

\* The instalments of a granted loan add up to it and fall due one after
\* another, and it is closed with the last of them, however their records
\* interleave (buildRepaymentSchedule, markInstalmentPaid).
THEOREM SchedulesCoverLoans == Spec => []ScheduleCoversLoan
<1>1. ASSUME IInv, NEW l \in Loans, Approved(l)
      PROVE  SumFunctionOnSet(Repayments(l), 1..loan[l].months) = loan[l].amount
  <2>1. loan[l].amount \in Nat /\ loan[l].months \in Durations
    BY <1>1, AmountAssumption DEF IInv, LoansOK, Approved
  <2>2. \A i \in 1..loan[l].months :
          Repayments(l)[i] = Instalment(loan[l].amount, loan[l].months, i)
    BY DEF Repayments, Schedule
  <2>q. QED
    BY <2>1, <2>2, InstalmentsAddUp
<1>2. IInv /\ SchedulesInOrder => ScheduleCoversLoan
  BY <1>1 DEF IInv, ScheduleCoversLoan
<1>q. QED
  BY <1>2, Invariance, SchedulesStayInOrder, PTL
=============================================================================
