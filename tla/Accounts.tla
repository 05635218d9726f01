------------------------------ MODULE Accounts ------------------------------
(***************************************************************************)
(* Accounts: onboarding and sign-in with a Firebase identity               *)
(* (auth.service.ts), and the avatar of an account (account.service.ts,    *)
(* storage.service.ts with Cloudinary).                                    *)
(*                                                                         *)
(* Onboarding creates a user and its profile without a transaction and     *)
(* deletes the user when the profile cannot be created.  Every database    *)
(* command and every request to Cloudinary is a step; requests interleave, *)
(* a command may fail, and a call may end between two steps (a crash).  A   *)
(* failed deletion of an avatar is only logged.                            *)
(***************************************************************************)
EXTENDS Naturals

CONSTANTS
  Identities,   \* Firebase users (uid); a deleted and recreated one shares the email
  EmailOf,      \* the verified email of an identity
  AdminEmails,  \* ADMIN_EMAIL_ALLOWLIST
  PartnerEmails, \* FINANCIAL_PARTNER_EMAIL_ALLOWLIST
  Roles,        \* roles that are onboarded
  Cnics,        \* identity numbers
  Legacy,       \* an email that may have an account from before Firebase (no uid)
  Requests,     \* concurrent requests
  MaxUsers, MaxUploads,  \* bounds the model
  NoOne

ASSUME EmailAssumption  == Legacy \in {EmailOf[i] : i \in Identities} \ AdminEmails
ASSUME RoleAssumption   == "admin" \notin Roles
ASSUME NoOneAssumption  == NoOne \notin Identities
ASSUME BoundAssumption  == MaxUsers \in Nat \ {0} /\ MaxUploads \in Nat

VARIABLES
  users,     \* the users collection, by id; ids are never used again
  profiles,  \* the profiles of all roles
  born,      \* ids given out
  tokens,    \* accounts for which a session was issued
  request,   \* the step and the local variables of each request
  asset,     \* version of the avatar Cloudinary holds for an id, 0 for none
  uploads,   \* versions given out
  doomed,    \* deleteAvatar requests not awaited by their handler
  leftover,  \* history variable: versions that a failed deletion or a crash left there
  lost       \* history variable: accounts whose onboarding a crash cut off

accountsVars == <<users, profiles, born, tokens, request, asset, uploads, doomed, leftover,
                  lost>>
avatarVars  == <<asset, uploads, doomed, leftover>>
recordVars  == <<users, profiles, born, tokens>>

UserIds   == 1..MaxUsers
Emails    == {EmailOf[i] : i \in Identities}
NoRequest == [pc |-> "idle", identity |-> NoOne, role |-> "none", cnic |-> NoOne, user |-> 0,
              previous |-> 0, path |-> 0]
Steps     == {"idle", "cnic", "create", "profile", "rollback", "email", "link", "admin",
              "upload", "path", "unset", "destroy"}

AccountsTypeOK ==
  /\ DOMAIN users \subseteq 1..born /\ born \in 0..MaxUsers
  /\ \A u \in DOMAIN users :
       /\ users[u].email \in Emails /\ users[u].uid \in Identities \cup {NoOne}
       /\ users[u].role \in Roles \cup {"admin"} /\ users[u].avatar \in 0..uploads
  /\ profiles \subseteq [user : UserIds, role : Roles, cnic : Cnics]
  /\ tokens \subseteq 1..born /\ doomed \in [UserIds -> Nat] /\ lost \subseteq 1..born
  /\ \A q \in Requests : request[q].pc \in Steps
  /\ asset \in [UserIds -> 0..uploads] /\ leftover \subseteq 0..uploads /\ uploads \in 0..MaxUploads

AccountsInit ==
  \E old \in {0, 1}, r \in Roles, n \in Cnics :
    /\ users = [u \in 1..old |-> [email |-> Legacy, uid |-> NoOne, role |-> r, avatar |-> 0]]
    /\ profiles = {[user |-> u, role |-> r, cnic |-> n] : u \in 1..old}
    /\ born = old /\ tokens = {} /\ request = [q \in Requests |-> NoRequest]
    /\ asset = [u \in UserIds |-> 0] /\ uploads = 0 /\ doomed = [u \in UserIds |-> 0]
    /\ leftover = {} /\ lost = {}

At(q, pc)   == request[q].pc = pc
Goto(q, pc) == request' = [request EXCEPT ![q].pc = pc]
Return(q)   == request' = [request EXCEPT ![q] = NoRequest]

-----------------------------------------------------------------------------
(* Onboarding *)

HasUid(i)   == \E u \in DOMAIN users : users[u].uid = i
HasEmail(i) == \E u \in DOMAIN users : users[u].email = EmailOf[i]

\* A verified identity that is not linked to an account.
Unlinked(i) == ~HasUid(i) /\ ~HasEmail(i)
BeginOnboarding(q, i, r, n) ==
  /\ At(q, "idle") /\ (r = "partner" => EmailOf[i] \in PartnerEmails)
  /\ Unlinked(i)
  /\ request' = [request EXCEPT ![q] = [NoRequest EXCEPT !.pc = "cnic", !.identity = i, !.role = r, !.cnic = n]]
  /\ UNCHANGED <<recordVars, avatarVars, lost>>

CnicTaken(r, n) == \E p \in profiles : p.role = r /\ p.cnic = n
CheckCnic(q) ==
  /\ At(q, "cnic")
  /\ IF CnicTaken(request[q].role, request[q].cnic) THEN Return(q) ELSE Goto(q, "create")
  /\ UNCHANGED <<recordVars, avatarVars, lost>>

\* The unique indexes of users.
Insertable(i) == ~HasUid(i) /\ ~HasEmail(i)
InsertUser(i, r) ==
  /\ born < MaxUsers /\ born' = born + 1
  /\ users' = [u \in DOMAIN users \cup {born'} |->
                 IF u = born' THEN [email |-> EmailOf[i], uid |-> i, role |-> r, avatar |-> 0]
                 ELSE users[u]]

\* Mutant: an upsert by email, which may find the account of another request.
UpsertFirebaseUser(q) ==
  LET i == request[q].identity IN
  /\ At(q, "create")
  /\ \/ Insertable(i) /\ InsertUser(i, request[q].role)
        /\ request' = [request EXCEPT ![q].pc = "profile", ![q].user = born']
     \/ \E u \in DOMAIN users : users[u].email = EmailOf[i]
        /\ request' = [request EXCEPT ![q].pc = "profile", ![q].user = u] /\ UNCHANGED <<users, born>>
  /\ UNCHANGED <<profiles, tokens, avatarVars, lost>>
\* The insert is refused by an index, or fails.
CreateFirebaseUser(q) ==
  /\ At(q, "create")
  /\ \/ Insertable(request[q].identity) /\ InsertUser(request[q].identity, request[q].role)
        /\ request' = [request EXCEPT ![q].pc = "profile", ![q].user = born']
     \/ Return(q) /\ UNCHANGED <<users, born>>
  /\ UNCHANGED <<profiles, tokens, avatarVars, lost>>

Profile(q) == [user |-> request[q].user, role |-> request[q].role, cnic |-> request[q].cnic]
\* The profile is inserted, or refused by its unique index or for another reason.
CreateProfile(q) ==
  /\ At(q, "profile")
  /\ \/ ~CnicTaken(request[q].role, request[q].cnic)
        /\ profiles' = profiles \cup {Profile(q)}
        /\ tokens' = tokens \cup {request[q].user} /\ Return(q)
     \/ Goto(q, "rollback") /\ UNCHANGED <<profiles, tokens>>
  /\ UNCHANGED <<users, born, avatarVars, lost>>

Rollback(q) ==
  /\ At(q, "rollback") /\ Return(q)
  /\ users' = [u \in DOMAIN users \ {request[q].user} |-> users[u]]
  /\ UNCHANGED <<profiles, born, tokens, avatarVars, lost>>

-----------------------------------------------------------------------------
(* Sign-in *)

SignIn(q, i) ==
  /\ At(q, "idle")
  /\ \/ \E u \in DOMAIN users : users[u].uid = i /\ tokens' = tokens \cup {u}
        /\ UNCHANGED request
     \/ ~HasUid(i) /\ UNCHANGED tokens
        /\ request' = [request EXCEPT ![q] = [NoRequest EXCEPT !.pc = "email", !.identity = i]]
  /\ UNCHANGED <<users, profiles, born, avatarVars, lost>>

FindByEmail(q) ==
  LET i == request[q].identity IN
  /\ At(q, "email")
  /\ \/ \E u \in DOMAIN users : users[u].email = EmailOf[i]
        /\ request' = [request EXCEPT ![q].pc = "link", ![q].user = u]
     \/ ~HasEmail(i) /\ IF EmailOf[i] \in AdminEmails THEN Goto(q, "admin") ELSE Return(q)
  /\ UNCHANGED <<recordVars, avatarVars, lost>>

\* byEmail.save(): refused when the user is gone or another one has the uid.
Link(q) ==
  LET i == request[q].identity  u == request[q].user
      saved == u \in DOMAIN users /\ \A v \in DOMAIN users \ {u} : users[v].uid # i IN
  /\ At(q, "link") /\ Return(q)
  /\ IF saved THEN users' = [users EXCEPT ![u].uid = i] /\ tokens' = tokens \cup {u}
     ELSE UNCHANGED <<users, tokens>>
  /\ UNCHANGED <<profiles, born, avatarVars, lost>>

CreateAdmin(q) ==
  LET i == request[q].identity IN
  /\ At(q, "admin") /\ Return(q)
  /\ \/ Insertable(i) /\ InsertUser(i, "admin") /\ tokens' = tokens \cup {born'}
     \/ UNCHANGED <<users, born, tokens>>
  /\ UNCHANGED <<profiles, avatarVars, lost>>

-----------------------------------------------------------------------------
(* The avatar: MongoDB keeps a versioned path, Cloudinary one asset per id *)

Avatar(u) == users[u].avatar

\* loadUser; the account of a session may be gone.
SetAvatar(q, u) ==
  /\ At(q, "idle") /\ u \in tokens \cap DOMAIN users
  /\ request' = [request EXCEPT ![q] = [NoRequest EXCEPT !.pc = "upload", !.user = u, !.previous = Avatar(u)]]
  /\ UNCHANGED <<recordVars, avatarVars, lost>>

\* A new version replaces the asset of the public id; the upload may fail.
UploadAvatar(q) ==
  /\ At(q, "upload")
  /\ \/ uploads < MaxUploads /\ uploads' = uploads + 1 /\ asset' = [asset EXCEPT ![request[q].user] = uploads']
        /\ request' = [request EXCEPT ![q].pc = "path", ![q].path = uploads']
     \/ Return(q) /\ UNCHANGED <<asset, uploads>>
  /\ UNCHANGED <<recordVars, doomed, leftover, lost>>

\* The path is set, and the previous one's asset deleted in the background.
Replaced(q) == request[q].previous # 0 /\ request[q].previous # request[q].path
SetPath(q) ==
  LET u == request[q].user IN
  /\ At(q, "path") /\ Return(q)
  /\ users' = [v \in DOMAIN users |-> IF v = u THEN [users[v] EXCEPT !.avatar = request[q].path] ELSE users[v]]
  /\ doomed' = IF Replaced(q) THEN [doomed EXCEPT ![u] = @ + 1] ELSE doomed
  /\ UNCHANGED <<profiles, born, tokens, asset, uploads, leftover, lost>>

\* Cloudinary destroys by public id, whatever the version in the path.
Destroyed(u) == asset' = [asset EXCEPT ![u] = 0]

LeftThere(version) == leftover' = leftover \cup ({version} \ {0})

\* deleteAvatar is best effort: a failure is logged, and its caller goes on.
DeletePrevious(u) ==
  /\ doomed[u] > 0 /\ doomed' = [doomed EXCEPT ![u] = @ - 1]
  /\ Destroyed(u) \/ UNCHANGED asset
  /\ UNCHANGED <<recordVars, request, uploads, leftover, lost>>

RemoveAvatar(q, u) ==
  /\ At(q, "idle") /\ u \in tokens \cap DOMAIN users /\ Avatar(u) # 0
  /\ request' = [request EXCEPT ![q] = [NoRequest EXCEPT !.pc = "unset", !.user = u, !.previous = Avatar(u)]]
  /\ UNCHANGED <<recordVars, avatarVars, lost>>

UnsetPath(q) ==
  LET u == request[q].user IN
  /\ At(q, "unset") /\ Goto(q, "destroy")
  /\ users' = [v \in DOMAIN users |-> IF v = u THEN [users[v] EXCEPT !.avatar = 0] ELSE users[v]]
  /\ UNCHANGED <<profiles, born, tokens, avatarVars, lost>>

\* Mutant: only the version that was read is deleted.
DestroyVersion(q) ==
  /\ At(q, "destroy") /\ Return(q)
  /\ \/ asset[request[q].user] = request[q].previous /\ Destroyed(request[q].user) /\ UNCHANGED leftover
     \/ asset[request[q].user] # request[q].previous /\ UNCHANGED <<asset, leftover>>
     \/ UNCHANGED asset /\ LeftThere(asset[request[q].user])
  /\ UNCHANGED <<recordVars, uploads, doomed, lost>>
Destroy(q) ==
  /\ At(q, "destroy") /\ Return(q)
  /\ \/ Destroyed(request[q].user) /\ UNCHANGED leftover
     \/ UNCHANGED asset /\ LeftThere(asset[request[q].user])
  /\ UNCHANGED <<recordVars, uploads, doomed, lost>>

-----------------------------------------------------------------------------

\* The process ends, the database fails the rest of the call, or the answer of an
\* upload is lost.
Crash(q) ==
  /\ ~At(q, "idle") /\ Return(q)
  /\ lost' = IF request[q].pc \in {"profile", "rollback"} THEN lost \cup {request[q].user} ELSE lost
  /\ \/ At(q, "path") /\ LeftThere(request[q].path)
     \/ At(q, "destroy") /\ LeftThere(asset[request[q].user])
     \/ request[q].pc \notin {"path", "destroy"} /\ UNCHANGED leftover
  /\ UNCHANGED <<recordVars, asset, uploads, doomed>>

Onboarding(q) ==
  \/ \E i \in Identities, r \in Roles, n \in Cnics : BeginOnboarding(q, i, r, n)
  \/ CheckCnic(q) \/ CreateFirebaseUser(q) \/ CreateProfile(q) \/ Rollback(q)
SigningIn(q) == (\E i \in Identities : SignIn(q, i)) \/ FindByEmail(q) \/ Link(q) \/ CreateAdmin(q)
Avatars(q) ==
  \/ \E u \in UserIds : SetAvatar(q, u) \/ RemoveAvatar(q, u)
  \/ UploadAvatar(q) \/ SetPath(q) \/ UnsetPath(q) \/ Destroy(q)

AccountsNext ==
  \/ \E q \in Requests : Onboarding(q) \/ SigningIn(q) \/ Avatars(q) \/ Crash(q)
  \/ \E u \in UserIds : DeletePrevious(u)
AccountsSpec == AccountsInit /\ [][AccountsNext]_accountsVars

-----------------------------------------------------------------------------
(* Properties *)

ProfilesOf(u) == {p \in profiles : p.user = u}
Busy(u, S)    == \E q \in Requests : request[q].user = u /\ request[q].pc \in S
Settled(u)    == doomed[u] = 0 /\ ~Busy(u, {"upload", "path", "unset", "destroy"})

\* Requests that race with one identity, one email or one CNIC never leave an
\* account without exactly one profile of its role, nor a profile without its
\* account (another request's roll back took it), except for the account whose
\* onboarding a crash has cut off.  An identity has one account to sign in to.
AccountsWhole ==
  /\ AccountsTypeOK
  /\ \A u \in DOMAIN users :
       \/ users[u].role = "admin" \/ u \in lost \/ Busy(u, {"profile", "rollback"})
       \/ \E n \in Cnics : ProfilesOf(u) = {[user |-> u, role |-> users[u].role, cnic |-> n]}
  /\ \A p \in profiles : p.user \in DOMAIN users
  /\ \A u, v \in DOMAIN users : u # v =>
       /\ users[u].email # users[v].email
       /\ users[u].uid # users[v].uid \/ users[u].uid = NoOne

\* A request still has to point account u to its asset, or to destroy it.
Holds(r, u) == r.user = u /\ (r.pc = "destroy" \/ (r.pc = "path" /\ r.path = asset[u]))

\* A photo that its owner removed is not left with Cloudinary, in whatever order
\* uploads, removals and deletions of several devices run, except while a request
\* still has to point to it or to destroy it, and for exactly the versions whose
\* deletion failed (deleteAvatar logs that and the removal succeeds) or was cut off.
RemovedPhotoIsGone ==
  \A u \in DOMAIN users : Avatar(u) = 0 /\ asset[u] # 0 =>
    asset[u] \in leftover \/ \E q \in Requests : Holds(request[q], u)

\* The photo an account points to exists.
AvatarShown ==
  \A u \in DOMAIN users : Settled(u) /\ Avatar(u) # 0 => asset[u] # 0
=============================================================================
