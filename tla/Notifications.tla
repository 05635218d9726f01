---------------------------- MODULE Notifications ----------------------------
(***************************************************************************)
(* Notifications and the devices they are pushed to (NotificationService). *)
(* A notification is stored first and pushed in the background: the tokens *)
(* of the addressees are read, one batch is sent to FCM, and an account    *)
(* whose message was answered with a code of DEAD_TOKEN_CODES loses its    *)
(* token.  Meanwhile people sign in and out on their devices.  A token is  *)
(* moved to its new account by two separate updates.  FCM is known by the  *)
(* tokens it still serves.  A request that fails half way is one that      *)
(* never goes on.                                                          *)
(***************************************************************************)
EXTENDS Naturals, FiniteSets

CONSTANTS
  Users,
  Tokens,       \* FCM registration tokens: one per installation of the app
  SignIns,      \* PUT /notifications/device-token requests in progress
  Notices,      \* batches of notifications
  NoToken

ASSUME TokenAssumption == NoToken \notin Tokens

VARIABLES
  fcmToken,     \* users.fcmToken
  registering,  \* requests between the two updates of registerDeviceToken
  served,       \* tokens that FCM delivers to
  unread,       \* whose notification of a batch is stored and unread
  push,         \* the push of each batch
  overlapped    \* history variable: accounts that signed in at the same time

notificationVars == <<fcmToken, registering, served, unread, push, overlapped>>

\* The push of a batch: to whom, once the tokens are read on which token each,
\* and for whom FCM answered that the token is dead.
TargetTokens == UNION {[us -> Tokens] : us \in SUBSET Users}
NotSent       == [pc |-> "none"]
Pushed        == [pc |-> "done"]
StoredBatch   == [pc: {"stored"}, to: SUBSET Users]
SendingBatch  == [pc: {"sending"}, to: TargetTokens]
AnsweredBatch == [pc: {"answered"}, to: TargetTokens, dead: SUBSET Users]
Batch         == {NotSent, Pushed} \cup StoredBatch \cup SendingBatch \cup AnsweredBatch

NotificationsTypeOK ==
  /\ fcmToken \in [Users -> Tokens \cup {NoToken}]
  /\ registering \in [SignIns -> {{}} \cup {{r} : r \in Users \X Tokens}]
  /\ served \subseteq Tokens
  /\ unread \in [Notices -> SUBSET Users]
  /\ push \in [Notices -> Batch]
  /\ overlapped \subseteq Tokens \X SUBSET Users

NotificationsInit ==
  /\ fcmToken = [u \in Users |-> NoToken]
  /\ registering = [s \in SignIns |-> {}]
  /\ served = Tokens
  /\ unread = [n \in Notices |-> {}]
  /\ push = [n \in Notices |-> NotSent]
  /\ overlapped = {}

-----------------------------------------------------------------------------
(* Devices *)

\* The other accounts that are being given token t right now.
Rivals(u, t) == {v \in Users \ {u} : \E s \in SignIns : registering[s] = {<<v, t>>}}

\* Mutant: the token is not taken from the account that had it.
KeptByOthers(u, t) == fcmToken

TakenFromOthers(u, t) ==
  [v \in Users |-> IF v # u /\ fcmToken[v] = t THEN NoToken ELSE fcmToken[v]]

\* The first update of registerDeviceToken.
TakeToken(s, u, t) ==
  /\ registering[s] = {}
  /\ t \in served
  /\ fcmToken' = TakenFromOthers(u, t)
  /\ registering' = [registering EXCEPT ![s] = {<<u, t>>}]
  /\ overlapped' = {o \in overlapped : o[1] # t \/ Rivals(u, t) # {}}
                     \cup {<<t, {u, v}>> : v \in Rivals(u, t)}
  /\ UNCHANGED <<served, unread, push>>

\* The second.
GiveToken(s) ==
  \E u \in Users, t \in Tokens :
    /\ registering[s] = {<<u, t>>}
    /\ fcmToken' = [fcmToken EXCEPT ![u] = t]
    /\ registering' = [registering EXCEPT ![s] = {}]
    /\ UNCHANGED <<served, unread, push, overlapped>>

ClearToken(u) ==
  /\ fcmToken' = [fcmToken EXCEPT ![u] = NoToken]
  /\ UNCHANGED <<registering, served, unread, push, overlapped>>

\* The app is removed from a device: FCM no longer knows the token.
Uninstall(t) ==
  /\ served' = served \ {t}
  /\ UNCHANGED <<fcmToken, registering, unread, push, overlapped>>

-----------------------------------------------------------------------------
(* notify and push *)

Notify(n, to) ==
  /\ push[n] = NotSent
  /\ to # {}
  /\ unread' = [unread EXCEPT ![n] = to]
  /\ push' = [push EXCEPT ![n] = [pc |-> "stored", to |-> to]]
  /\ UNCHANGED <<fcmToken, registering, served, overlapped>>

ReadTokens(n) ==
  LET targets == {u \in push[n].to : fcmToken[u] # NoToken} IN
  /\ push[n].pc = "stored"
  /\ push' = [push EXCEPT ![n] = IF targets = {} THEN Pushed
                                 ELSE [pc |-> "sending", to |-> [u \in targets |-> fcmToken[u]]]]
  /\ UNCHANGED <<fcmToken, registering, served, unread, overlapped>>

DEAD_TOKEN_CODES == {"registration-token-not-registered", "invalid-registration-token", "invalid-argument"}

\* What FCM says of a message: a token it no longer serves is not reached; any other is,
\* unless the message or FCM itself is at fault.
FcmCodes   == DEAD_TOKEN_CODES \cup {"success", "server-unavailable"}
Answers(t) == IF t \in served THEN {"success", "invalid-argument", "server-unavailable"}
              ELSE FcmCodes \ {"success"}

\* deadUserIds: decided by the code alone.
DeadAmong(code) == {u \in DOMAIN code : code[u] \in DEAD_TOKEN_CODES}

\* sendEach: one answer per message.
Send(n) ==
  LET to == push[n].to IN
  /\ push[n].pc = "sending"
  /\ \E code \in [DOMAIN to -> FcmCodes] :
       /\ \A u \in DOMAIN to : code[u] \in Answers(to[u])
       /\ push' = [push EXCEPT ![n] =
            IF DeadAmong(code) = {} THEN Pushed
            ELSE [pc |-> "answered", to |-> to, dead |-> DeadAmong(code)]]
  /\ UNCHANGED <<fcmToken, registering, served, unread, overlapped>>

\* Removed by account, whatever token it has by now.
DropDead(n) ==
  /\ push[n].pc = "answered"
  /\ fcmToken' = [u \in Users |-> IF u \in push[n].dead THEN NoToken ELSE fcmToken[u]]
  /\ push' = [push EXCEPT ![n] = Pushed]
  /\ UNCHANGED <<registering, served, unread, overlapped>>

-----------------------------------------------------------------------------
(* The inbox *)

MarkRead(u, n) ==
  /\ unread' = [unread EXCEPT ![n] = @ \ {u}]
  /\ UNCHANGED <<fcmToken, registering, served, push, overlapped>>

MarkAllRead(u) ==
  /\ unread' = [n \in Notices |-> unread[n] \ {u}]
  /\ UNCHANGED <<fcmToken, registering, served, push, overlapped>>

NotificationsNext ==
  \/ \E s \in SignIns, u \in Users, t \in Tokens : TakeToken(s, u, t)
  \/ \E s \in SignIns : GiveToken(s)
  \/ \E u \in Users : ClearToken(u) \/ MarkAllRead(u)
  \/ \E t \in Tokens : Uninstall(t)
  \/ \E n \in Notices, to \in SUBSET Users : Notify(n, to)
  \/ \E n \in Notices : ReadTokens(n) \/ Send(n) \/ DropDead(n)
  \/ \E u \in Users, n \in Notices : MarkRead(u, n)

NotificationsSpec == NotificationsInit /\ [][NotificationsNext]_notificationVars

-----------------------------------------------------------------------------
(* Properties *)

\* "A token moves to whoever signed in on that device last": two accounts have
\* the same token only if they signed in on the device at the same time, and
\* only until the next sign-in there; their notifications reach one screen.
TokenMoves ==
  /\ NotificationsTypeOK
  /\ \A u, v \in Users : u # v /\ fcmToken[u] = fcmToken[v] /\ fcmToken[u] # NoToken =>
       <<fcmToken[u], {u, v}>> \in overlapped

\* The answers of a push take a token from an account only if it is the token they are
\* about: an account that enabled another device meanwhile, to which its pushes move,
\* keeps that one.
OnlyReportedCleared ==
  [][\A n \in Notices : push[n].pc = "answered" /\ push'[n].pc = "done" =>
       \A u \in Users : fcmToken[u] # NoToken /\ fcmToken'[u] = NoToken =>
         u \in push[n].dead /\ fcmToken[u] = push[n].to[u]]_notificationVars
=============================================================================
