------------------------------ MODULE Settings ------------------------------
(***************************************************************************)
(* The platform's configuration: the screen on which administrators load   *)
(* and save it (AdminService.config, saveConfig), the typed readers        *)
(* (SystemConfigService) and a farmer's request that is decided by two of  *)
(* its keys (LoanService.apply).  Every key is a document of its own, and  *)
(* every read of one is an action: only the revision tells a reader that   *)
(* others were written in between.  The keys are the two loan limits, the  *)
(* only ones that depend on each other; each of the others is read like    *)
(* one of them, with its own default.                                      *)
(***************************************************************************)
EXTENDS Naturals, Sequences

CONSTANTS
  Admins, Applicants,
  LimitAmounts,                     \* what may be stored or applied for
  defaultLoanMin, defaultLoanMax,   \* used where a key is missing
  Unset,                            \* a key without a document
  Seeds,                            \* what the owner may have seeded: see Stored
  ATTEMPTS,                         \* to read an unchanged page (3 in the code)
  MaxSaves                          \* bound on the revisions

Keys   == {"min", "max"}
NoPage == [revision |-> 0, limits |-> <<>>]

ASSUME DefaultsAssumption == /\ {defaultLoanMin, defaultLoanMax} \subseteq Nat
                             /\ defaultLoanMin <= defaultLoanMax
ASSUME LimitAssumption == LimitAmounts \subseteq Nat /\ Unset \notin LimitAmounts
ASSUME SavesAssumption == MaxSaves \in Nat /\ ATTEMPTS \in Nat \ {0}

Limits == [min: LimitAmounts \cup {defaultLoanMin}, max: LimitAmounts \cup {defaultLoanMax}]
Stored == [Keys -> LimitAmounts \cup {Unset}]

\* An audit entry; shown: what the form had shown (a history field).
AuditLog == [shown: Limits, before: Stored, after: Limits]

ASSUME SeedsAssumption == Seeds \subseteq Stored

VARIABLES
  stored,       \* system_config: one value per key
  revision,     \* the admin_config_revision document, 0 before it exists
  page,         \* what the screen of an administrator shows
  admin,        \* his request in progress
  configAudit,  \* audit entries of the saves
  application,  \* loan requests being decided
  history       \* history variable: stored as of each revision, from 0

settingsVars == <<stored, revision, page, admin, configAudit, application, history>>

\* getLoanLimits, from the two values it read.
LoanLimits(min, max) ==
  LET l == [min |-> IF min = Unset THEN defaultLoanMin ELSE min,
            max |-> IF max = Unset THEN defaultLoanMax ELSE max]
  IN IF l.min <= l.max THEN l ELSE [min |-> defaultLoanMin, max |-> defaultLoanMax]

Effective(s) == LoanLimits(s["min"], s["max"])

\* What saveConfig accepts.
Valid(l) == l.min <= l.max

\* Some of the keys have been read.
PartlyRead == UNION {[ks -> LimitAmounts \cup {Unset}] : ks \in SUBSET Keys}

\* A request of an administrator, before: the revision, or the snapshot.
Resting == [pc |-> "idle"]
Loading == [pc: {"keys", "again"}, attempt: 1..ATTEMPTS, before: 0..MaxSaves, read: PartlyRead]
Saving  == [pc: {"saving"}, revision: 0..MaxSaves, before: Stored, values: Limits]

\* A loan request.
Waiting == [pc |-> "none"]
Reading == [pc: {"reading"}, amount: LimitAmounts, from: 0..MaxSaves, read: PartlyRead]
Decided == [pc: {"accepted", "refused"}]

SettingsTypeOK ==
  /\ stored \in Stored
  /\ revision \in 0..MaxSaves
  /\ page \in [Admins -> {NoPage} \cup [revision: 0..MaxSaves, limits: Limits]]
  /\ admin \in [Admins -> {Resting} \cup Loading \cup Saving]
  /\ configAudit \in Seq(AuditLog)
  /\ application \in [Applicants -> {Waiting} \cup Reading \cup Decided]
  /\ history \in Seq(Stored) /\ Len(history) = revision + 1

SettingsInit ==
  /\ stored \in Seeds
  /\ revision = 0
  /\ page = [a \in Admins |-> NoPage]
  /\ admin = [a \in Admins |-> Resting]
  /\ configAudit = <<>>
  /\ application = [f \in Applicants |-> Waiting]
  /\ history = <<stored>>

\* Mutant: the process keeps the values it started with.
ValueAtStart(k) == history[1][k]

readValue(k) == stored[k]

-----------------------------------------------------------------------------
(* Loading the screen: AdminService.config *)

Load(a) ==
  /\ admin[a].pc = "idle"
  /\ admin' = [admin EXCEPT ![a] = [pc |-> "keys", attempt |-> 1, before |-> revision,
                                    read |-> <<>>]]
  /\ UNCHANGED <<stored, revision, page, configAudit, application, history>>

\* The reads run in parallel and finish in any order.
ReadKey(a, k) ==
  /\ admin[a].pc = "keys"
  /\ k \notin DOMAIN admin[a].read
  /\ admin' = [admin EXCEPT ![a].read = [x \in DOMAIN @ \cup {k} |-> IF x = k THEN readValue(k)
                                                                     ELSE @[x]]]
  /\ UNCHANGED <<stored, revision, page, configAudit, application, history>>

\* Mutant: what was read is shown although it was saved meanwhile.
AsItWas(a) == TRUE

\* beforeRevision = afterRevision
Unmoved(a) == revision = admin[a].before

\* The second read of the revision: show the page, try again, or answer 409.
EndLoad(a) ==
  /\ admin[a].pc = "keys" /\ DOMAIN admin[a].read = Keys
  /\ IF Unmoved(a)
     THEN /\ page' = [page EXCEPT ![a] = [revision |-> revision,
                                          limits |-> Effective(admin[a].read)]]
          /\ admin' = [admin EXCEPT ![a] = Resting]
     ELSE /\ page' = page
          /\ admin' = [admin EXCEPT ![a] = IF @.attempt < ATTEMPTS
                                           THEN [@ EXCEPT !.pc = "again"] ELSE Resting]
  /\ UNCHANGED <<stored, revision, configAudit, application, history>>

LoadAgain(a) ==
  /\ admin[a].pc = "again"
  /\ admin' = [admin EXCEPT ![a] = [pc |-> "keys", attempt |-> @.attempt + 1,
                                    before |-> revision, read |-> <<>>]]
  /\ UNCHANGED <<stored, revision, page, configAudit, application, history>>

-----------------------------------------------------------------------------
(* Saving: AdminService.saveConfig *)

\* Mutant: the revision of the form is not looked at.
AnyRevision(a) == TRUE

CurrentRevision(a) == revision = page[a].revision

\* The transaction's snapshot.  A form with an old revision is refused.
BeginSave(a, values) ==
  /\ admin[a].pc = "idle" /\ page[a] # NoPage
  /\ Valid(values)
  /\ CurrentRevision(a)
  /\ admin' = [admin EXCEPT ![a] = [pc |-> "saving", revision |-> revision,
                                    before |-> stored, values |-> values]]
  /\ UNCHANGED <<stored, revision, page, configAudit, application, history>>

\* The revision is written by every save, so of two that overlap the second
\* fails to commit (or to insert: its key is unique).
FirstCommitter(a) == revision = admin[a].revision

CommitSave(a) ==
  LET s == admin[a] IN
  /\ s.pc = "saving"
  /\ FirstCommitter(a)
  /\ revision < MaxSaves
  /\ stored' = s.values
  /\ revision' = s.revision + 1
  /\ configAudit' = Append(configAudit, [shown |-> page[a].limits, before |-> s.before,
                                         after |-> s.values])
  /\ history' = Append(history, s.values)
  /\ page' = [page EXCEPT ![a] = [revision |-> s.revision + 1, limits |-> s.values]]
  /\ admin' = [admin EXCEPT ![a] = Resting]
  /\ UNCHANGED application

\* Retried by withTransaction, it meets the new revision: 409.
RefuseSave(a) ==
  /\ admin[a].pc = "saving"
  /\ ~FirstCommitter(a)
  /\ admin' = [admin EXCEPT ![a] = Resting]
  /\ UNCHANGED <<stored, revision, page, configAudit, application, history>>

-----------------------------------------------------------------------------
(* A reader: the limits of LoanService.apply *)

Apply(f, amount) ==
  /\ application[f] = Waiting
  /\ application' = [application EXCEPT ![f] = [pc |-> "reading", amount |-> amount,
                                                from |-> revision, read |-> <<>>]]
  /\ UNCHANGED <<stored, revision, page, admin, configAudit, history>>

ReadLimit(f, k) ==
  /\ application[f].pc = "reading"
  /\ k \notin DOMAIN application[f].read
  /\ application' = [application EXCEPT ![f].read =
                       [x \in DOMAIN @ \cup {k} |-> IF x = k THEN readValue(k) ELSE @[x]]]
  /\ UNCHANGED <<stored, revision, page, admin, configAudit, history>>

DecideApplication(f) ==
  LET a == application[f]
      l == Effective(a.read) IN
  /\ a.pc = "reading" /\ DOMAIN a.read = Keys
  /\ application' = [application EXCEPT ![f] =
       [pc |-> IF a.amount < l.min \/ a.amount > l.max THEN "refused" ELSE "accepted"]]
  /\ UNCHANGED <<stored, revision, page, admin, configAudit, history>>

-----------------------------------------------------------------------------
SettingsNext ==
  \/ \E a \in Admins : Load(a) \/ EndLoad(a) \/ LoadAgain(a) \/ CommitSave(a) \/ RefuseSave(a)
  \/ \E a \in Admins, k \in Keys : ReadKey(a, k)
  \/ \E a \in Admins, min, max \in LimitAmounts : BeginSave(a, [min |-> min, max |-> max])
  \/ \E f \in Applicants, amount \in LimitAmounts : Apply(f, amount)
  \/ \E f \in Applicants, k \in Keys : ReadLimit(f, k)
  \/ \E f \in Applicants : DecideApplication(f)

SettingsSpec == SettingsInit /\ [][SettingsNext]_settingsVars

-----------------------------------------------------------------------------
(* Properties *)

\* A screen shows the configuration of one revision, its own: never the values
\* of two saves mixed, although it reads key by key and saves go on meanwhile.
PageIsOneRevision ==
  \A a \in Admins : page[a] # NoPage =>
    page[a].limits = Effective(history[page[a].revision + 1])

\* No save is lost: each one replaced exactly what the administrator who made
\* it had on his screen, and the audit log tells the whole story, each entry
\* starting where the one before it ended.
NoSaveLost ==
  /\ SettingsTypeOK
  /\ Len(configAudit) = revision
  /\ stored = history[revision + 1]
  /\ \A i \in 1..Len(configAudit) :
       LET e == configAudit[i] IN
       /\ e.before = history[i] /\ e.after = history[i + 1]
       /\ e.shown = Effective(e.before)

\* An application that is taken lies within limits that were in force while it
\* was read: a minimum of one revision and a maximum of the same or another one,
\* or the defaults where those two cross (the reader has no revision to compare).
TakenWithinLimits ==
  [][\A f \in Applicants : application[f].pc = "reading" /\ application'[f].pc = "accepted" =>
       \E i, j \in (application[f].from + 1)..Len(history) :
         LET l == LoanLimits(history[i]["min"], history[j]["max"]) IN
         application[f].amount \in l.min..l.max]_settingsVars
=============================================================================
