-------------------------------- MODULE Loan --------------------------------
(***************************************************************************)
(* Loan applications (LoanService): a farmer applies, a financial partner  *)
(* reviews and decides, repayments are recorded one instalment at a time.  *)
(* Nothing here is a transaction.  Applying reads the farmer's open loans  *)
(* and inserts later, after the uploads; a decision is one conditional     *)
(* update followed by its audit entry; a repayment loads the document and  *)
(* saves it, which mongoose refuses when another save of the schedule came *)
(* first (the version key).                                                *)
(***************************************************************************)
EXTENDS Integers, FiniteSets, Functions

CONSTANTS
  Farmers,
  Loans,       \* loan documents that can be created (bounds the model)
  Calls,       \* requests being processed
  Amounts,     \* whole rupees
  MaxDuration, \* the longest a loan runs, in months
  Dates,       \* days on which a loan may be approved
  NoOne, NoLoan, NoDate

ASSUME AmountAssumption == Amounts \subseteq Nat /\ MaxDuration \in Nat \ {0}
ASSUME DateAssumption   == Dates \subseteq [month: Nat, day: 1..31]
ASSUME NullAssumption   == NoOne \notin Farmers /\ NoLoan \notin Loans /\ NoDate \notin Dates

VARIABLES
  loan,   \* loan_applications documents
  call,   \* requests in progress
  audit   \* audit entries of decisions

vars == <<loan, call, audit>>

OPEN_STATUSES == {"pending", "under_review", "approved"}
Status        == OPEN_STATUSES \cup {"none", "rejected", "repaid"}
Decision      == {"approved", "rejected"}
Durations     == 1..MaxDuration

\* paid: the instalments whose isPaid is set; version: the __v of the document,
\* which counts the saves of the schedule.
NewLoan(f, status, amount, months) ==
  [applicant |-> f, status |-> status, amount |-> amount, months |-> months,
   approvedOn |-> NoDate, paid |-> {}, version |-> 0]
NoCall == [pc |-> "idle", farmer |-> NoOne, loan |-> NoLoan, index |-> 0,
           decision |-> "rejected", paid |-> {}, version |-> 0]

LoanApplication ==
  [applicant: Farmers \cup {NoOne}, status: Status, amount: Amounts \cup {0},
   months: Durations \cup {0}, approvedOn: Dates \cup {NoDate},
   paid: SUBSET Durations, version: 0..MaxDuration]
Request ==
  [pc: {"idle", "applying", "decided", "paying"}, farmer: Farmers \cup {NoOne},
   loan: Loans \cup {NoLoan}, index: Durations \cup {0}, decision: Decision,
   paid: SUBSET Durations, version: 0..MaxDuration]

TypeOK ==
  /\ loan \in [Loans -> LoanApplication]
  /\ call \in [Calls -> Request]
  /\ audit \subseteq [by: Calls, loan: Loans, decision: Decision]

Init ==
  /\ loan = [l \in Loans |-> NewLoan(NoOne, "none", 0, 0)]
  /\ call = [c \in Calls |-> NoCall]
  /\ audit = {}

-----------------------------------------------------------------------------
(* buildRepaymentSchedule *)

\* Months are counted from January of a leap year.
DaysIn(m) == CASE m % 12 = 1              -> IF (m \div 12) % 4 = 0 THEN 29 ELSE 28
               [] m % 12 \in {3, 5, 8, 10} -> 30
               [] OTHER                    -> 31

\* setUTCMonth keeps the day of the month; a day the month does not have runs
\* over into the next one.
DueDate(on, i) ==
  LET m == on.month + i IN
  IF on.day <= DaysIn(m) THEN [month |-> m, day |-> on.day]
  ELSE [month |-> m + 1, day |-> on.day - DaysIn(m)]

\* Mutant: the remainder is spread over nobody.
InstalmentFloor(amount, months, i) == IF i \in 1..months THEN amount \div months ELSE 0

\* Equal instalments in whole rupees, the last one absorbing the remainder.
Instalment(amount, months, i) ==
  LET base == amount \div months IN
  IF i = months THEN amount - base * (months - 1) ELSE base

Schedule(l) ==
  [i \in 1..loan[l].months |->
     [dueDate |-> DueDate(loan[l].approvedOn, i),
      amount  |-> Instalment(loan[l].amount, loan[l].months, i)]]

-----------------------------------------------------------------------------
(* apply *)

\* The farmer has no open application; the uploads follow.
ApplyCheck(c, f) ==
  /\ call[c].pc = "idle"
  /\ ~\E l \in Loans : loan[l].applicant = f /\ loan[l].status \in OPEN_STATUSES
  /\ call' = [call EXCEPT ![c] = [NoCall EXCEPT !.pc = "applying", !.farmer = f]]
  /\ UNCHANGED <<loan, audit>>

ApplyCreate(c, l, amount, months) ==
  /\ call[c].pc = "applying"
  /\ loan[l].status = "none"
  /\ loan' = [loan EXCEPT ![l] = NewLoan(call[c].farmer, "pending", amount, months)]
  /\ call' = [call EXCEPT ![c] = NoCall]
  /\ UNCHANGED audit

(* startReview, decide: transition is a conditional update *)

StartReview(l) ==
  /\ loan[l].status = "pending"
  /\ loan' = [loan EXCEPT ![l].status = "under_review"]
  /\ UNCHANGED <<call, audit>>

\* Mutant: the update is not conditional on the status.
DecidableLater(l) == loan[l].status \in {"under_review", "approved", "rejected"}

Decidable(l) == loan[l].status = "under_review"

Decide(c, l, decision, today) ==
  /\ call[c].pc = "idle"
  /\ Decidable(l)
  /\ loan' = [loan EXCEPT ![l].status = decision,
                          ![l].approvedOn = IF decision = "approved" THEN today ELSE @]
  /\ call' = [call EXCEPT ![c] = [NoCall EXCEPT !.pc = "decided", !.loan = l,
                                                !.decision = decision]]
  /\ UNCHANGED audit

WriteAudit(c) ==
  /\ call[c].pc = "decided"
  /\ audit' = audit \cup {[by |-> c, loan |-> call[c].loan, decision |-> call[c].decision]}
  /\ call' = [call EXCEPT ![c] = NoCall]
  /\ UNCHANGED loan

(* markInstalmentPaid *)

LoadInstalment(c, l, i) ==
  /\ call[c].pc = "idle"
  /\ loan[l].status = "approved"
  /\ i \in 1..loan[l].months
  /\ i \notin loan[l].paid
  /\ call' = [call EXCEPT ![c] = [NoCall EXCEPT !.pc = "paying", !.loan = l, !.index = i,
                                    !.paid = loan[l].paid, !.version = loan[l].version]]
  /\ UNCHANGED <<loan, audit>>

\* Mutant: the schedule is written without the version filter.
VersionIgnored(c) == call[c].loan \in Loans

\* Mongoose (external) puts the loaded version into the filter of a save that
\* replaces an array, and increments it.
VersionMatches(c) == loan[call[c].loan].version = call[c].version

Repaid(l, paid) == paid = 1..loan[l].months

\* The whole schedule is written as loaded, with one more instalment paid.
MarkInstalmentPaid(c) ==
  LET l == call[c].loan  paid == call[c].paid \cup {call[c].index} IN
  /\ call[c].pc = "paying"
  /\ \/ /\ VersionMatches(c)
        /\ loan' = [loan EXCEPT ![l].paid = paid, ![l].version = @ + 1,
                                ![l].status = IF Repaid(l, paid) THEN "repaid" ELSE @]
     \/ /\ ~VersionMatches(c)
        /\ UNCHANGED loan
  /\ call' = [call EXCEPT ![c] = NoCall]
  /\ UNCHANGED audit

\* An upload or a database command fails, or the process dies.
AbandonCall(c) ==
  /\ call[c].pc # "idle"
  /\ call' = [call EXCEPT ![c] = NoCall]
  /\ UNCHANGED <<loan, audit>>

-----------------------------------------------------------------------------
Next ==
  \/ \E l \in Loans : StartReview(l)
  \/ \E c \in Calls, f \in Farmers : ApplyCheck(c, f)
  \/ \E c \in Calls, l \in Loans :
       \/ \E amount \in Amounts, months \in Durations : ApplyCreate(c, l, amount, months)
       \/ \E decision \in Decision, today \in Dates : Decide(c, l, decision, today)
       \/ \E i \in Durations : LoadInstalment(c, l, i)
  \/ \E c \in Calls : WriteAudit(c) \/ MarkInstalmentPaid(c) \/ AbandonCall(c)

Spec == Init /\ [][Next]_vars

-----------------------------------------------------------------------------
(* Properties *)

Approved(l) == loan[l].status \in {"approved", "repaid"}

\* A recorded repayment is never lost to another one that loaded the schedule
\* before it.
RepaymentsKept == [][\A l \in Loans : loan[l].paid \subseteq loan'[l].paid]_vars

\* A loan is closed when its last instalment is recorded, not before or after.
RepaidWhenPaid ==
  \A l \in Loans : Approved(l) =>
    (loan[l].status = "repaid" <=> loan[l].paid = 1..loan[l].months)

Before(d, e) == d.month < e.month \/ (d.month = e.month /\ d.day < e.day)

\* No instalment is negative and each falls due after the one before.
DueInOrder(s) == /\ \A i \in DOMAIN s : s[i].amount >= 0
                 /\ \A i, j \in DOMAIN s : i < j => Before(s[i].dueDate, s[j].dueDate)

\* The schedule of every loan that was granted is in order.
SchedulesInOrder == \A l \in Loans : Approved(l) => DueInOrder(Schedule(l))

Repayments(l) == [i \in 1..loan[l].months |-> Schedule(l)[i].amount]

\* The instalments add up to the loan and fall due one after another, and the
\* loan is closed with the last of them, however their records interleave.
ScheduleCoversLoan ==
  /\ TypeOK
  /\ RepaidWhenPaid
  /\ SchedulesInOrder
  /\ \A l \in Loans : Approved(l) =>
       SumFunctionOnSet(Repayments(l), 1..loan[l].months) = loan[l].amount

\* Of reviewers who decide together one wins: a loan is decided once, and every
\* audit entry tells the decision that stands.
DecidedOnce ==
  /\ \A a \in audit : Approved(a.loan) <=> a.decision = "approved"
  /\ \A a \in audit : loan[a.loan].status \notin {"none", "pending", "under_review"}
  /\ \A a, b \in audit : a.loan = b.loan => a = b
=============================================================================
