----------------------------- MODULE MCPlatform -----------------------------
(* Accounts, what they publish and who is notified.  No field of one is     *)
(* written by another, so that no interleaving of them matters: one run     *)
(* explores each, from all its initial states, with the others at rest      *)
(* (`part` says which).                                                     *)
EXTENDS Content, Notifications, Accounts, TLC

VARIABLE part

platformVars == <<vars, notificationVars, accountsVars, part>>

\* a1 and a2 are one email before and after the Firebase account is recreated.
MCEmailOf == [i \in Identities |-> IF i \in {"a1", "a2"} THEN "a" ELSE i]

PlatformInit ==
  /\ part \in {"content", "notifications", "accounts"}
  /\ Init /\ NotificationsInit /\ AccountsInit
  /\ part # "accounts" => born = 0

PlatformNext ==
  /\ UNCHANGED part
  /\ \/ part = "content" /\ Next /\ UNCHANGED <<notificationVars, accountsVars>>
     \/ part = "notifications" /\ NotificationsNext /\ UNCHANGED <<vars, accountsVars>>
     \/ part = "accounts" /\ AccountsNext /\ UNCHANGED <<vars, notificationVars>>

PlatformSpec == PlatformInit /\ [][PlatformNext]_platformVars

\* Requests of every kind are the same two model values: one permutation serves all.
MCSymmetry == Permutations(Calls)
=============================================================================
