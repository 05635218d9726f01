----------------------------- MODULE MCAccounts -----------------------------
EXTENDS Accounts, TLC
\* a1 and a2 are one email before and after the Firebase account is recreated.
MCEmailOf == [i \in Identities |-> IF i \in {"a1", "a2"} THEN "a" ELSE i]
Symmetry  == Permutations(Requests)
=============================================================================
