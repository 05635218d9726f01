------------------------------- MODULE MCLoan -------------------------------
(* Loans, and the configuration with the limits they are applied for under. *)
(* The two share nothing but what Settings.Apply reads, so that one run     *)
(* explores each with the other at rest (`part` says which).                *)
EXTENDS Loan, Settings, TLC

VARIABLE part

loanVars == <<vars, settingsVars, part>>

\* Approvals in the middle and on the last day of a January.
MCDates == {[month |-> 0, day |-> 15], [month |-> 0, day |-> 31]}

\* Unseeded, and seeded by hand with limits that cross.
MCSeeds == {[k \in Keys |-> Unset], [k \in Keys |-> IF k = "min" THEN 2 ELSE 1]}

LoanInit ==
  /\ part \in {"loan", "settings"} /\ Init /\ SettingsInit
  /\ part = "loan" => stored = [k \in Keys |-> Unset]

LoanNext ==
  /\ UNCHANGED part
  /\ \/ part = "loan" /\ Next /\ UNCHANGED settingsVars
     \/ part = "settings" /\ SettingsNext /\ UNCHANGED vars

LoanSpec == LoanInit /\ [][LoanNext]_loanVars

MCSymmetry == Permutations(Calls) \cup Permutations(Admins) \cup Permutations(Loans) \cup Permutations(Farmers)
=============================================================================
