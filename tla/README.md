# Farm2Fork backend: specification and proofs

TLA+ models of the Farm2Fork backend (NestJS, MongoDB, Hyperledger Fabric), the
TLC runs that check them and the theorems TLAPS proves about them. Every
definition that models code names the lines it models in `PROJECT.json` (`map`).

    tlc -config Delivery_orders.cfg MCDelivery.tla      # one run
    tlapm DeliveryProofs.tla                            # the proofs

## 1. The system

Farm2Fork is a marketplace between farmers and buyers, with transporters who
deliver, financial partners who lend to farmers, and administrators. The state is
in MongoDB (a replica set: transactions are used); the API processes keep none
between requests. One worker process relays records to Hyperledger Fabric.
Requests of different users run concurrently; there is no locking but what
MongoDB gives.

| component | state it keeps | operations | what makes it correct |
|---|---|---|---|
| Orders (`modules/order`) | `orders` | quote, create, cancel | no draft is both cancelled and payable; stock and prices are the server's |
| Payments (`modules/payment`) | `payments`, one per order | initiate, webhook, simulate | settled once, only for captured money, together with stock, order and ledger record |
| Marketplace (`modules/marketplace`) | `products` | create, update, remove, images, browse | an edit never brings sold stock back, nor a listing an administrator hid |
| Accounts (`modules/auth`) | `users`, one profile collection per role, Cloudinary assets | onboarding, sign-in, linking, avatar | an account has exactly one profile; the photo it names exists, a removed one does not |
| Suspension (`modules/admin`) | `users.isActive`, the transporter's profile | set user status | nobody with open obligations is suspended |
| Dispatch (`modules/transport`) | `shipments`, transporter profiles | availability, location, offers, decline, claim, status | one delivery per transporter, order and shipment agree |
| Delivery (`modules/delivery`) | shipment issue and code, earnings | code, complete, issue, reassign, resolve | goods stay with one driver; handover proved by the code; attempts are limited |
| Delivery finance (`modules/delivery`) | `delivery_earnings`, `delivery_payouts`, `manual_refunds` | payout, correction, refund | an earning is paid once, records are never rewritten, retries are safe |
| Ledger outbox (`modules/blockchain`) | `blockchain_transactions` | lease, look up, submit, confirm, retry | confirmed means committed; every record is decided |
| Loans (`modules/loan`) | `loan_applications`, audit | apply, review, decide, record repayment | one open loan, decided once, no repayment lost |
| Traceability (`modules/traceability`) | a cache of verified ledger keys | trace a product | an origin shown as verified is on the ledger |
| Configuration (`modules/admin`) | `system_config`, audit | load, save with revision, typed reads | no save is lost, a screen shows one revision |
| Community (`modules/community`) | `posts`, `comments` | create, comment, remove | the counter is in step with the comments |
| Moderation (`modules/admin`) | visibility of posts, comments, listings; audit | hide, restore | what was removed returns only by a recorded decision |
| Notifications (`modules/notification`) | `notifications`, `users.fcmToken` | notify, push, register and clear a device, read | a device belongs to the last sign-in, a push takes away only the token it was about |
| AI, farm profiles, guards, clients | little or none | calls and reads | see section 7 |
| Deploy agent (`ops/`) | receipts, journal, markers and images on disk; containers | poll, activate, roll back, recover, retry | a failed or interrupted deployment is undone or finished, and the receipt says which |

How they interact: `OrderService` and `PaymentService` meet on the order document
(`paymentStartedAt` against `status`), payments and suspension on the user
documents, settlement and stock edits on the products, dispatch, delivery
operations and suspension on the transporter's profile, and everything that must
reach the ledger on `blockchain_transactions`, where it is inserted in the same
transaction. What the ledger says comes back to the public through the trace and the
verified-origin filter of the marketplace. Administrators and authors meet on posts,
comments and listings, the administrators with each other and with every reader on the
configuration. Notifications are sent in the background after the commit and are
never waited for; their pushes meet sign-ins and sign-outs on `users.fcmToken`.

What is hard: two users acting on one document at the same time; a request that
reads, calls a gateway and writes (payment, code, loan, avatar); two documents
written without a transaction (onboarding, device tokens); several documents
read one after another (configuration, traces); webhooks that are repeated or late;
leases that expire while the holder is still working; retries of requests whose answer was lost; crashes between two steps; a deployment that
stops half way.

### What one step is

- A Mongo transaction (`session.withTransaction`) is one action. It reads a
  snapshot, and if a document it writes was changed meanwhile it is retried as a
  whole. That makes it atomic only if the documents it *depends on* are written
  too (snapshot isolation allows write skew), and the code takes care of that: a
  claim, a reassignment, a retry and a suspension each write the transporter's
  profile (`lastClaimAt`, `dispatchSuspended`), a payment claim writes both user
  documents (`$inc __v`). Each transaction modelled as one action was checked for
  this.
- A conditional update (`findOneAndUpdate` with the expected values in the
  filter) is one action.
- Everything else is a process with a program counter: each database command and
  each gateway call is an action, and other actions happen between two of them.
- A mongoose `save()` outside a transaction writes only the paths that were
  modified on the loaded document (`OrderPayment.Written`), and has no version
  check unless an array was replaced (`Loan.VersionMatches`).

## 2. The modules

| module | models | state |
|---|---|---|
| `OrderLifecycle` | what is promised about an order | `stage`, `money`, `goods` |
| `OrderPayment` | cart to paid order: orders, payments, stock, suspension of buyers and farmers, the gateway | the documents, `call` (POST /payments in progress), `tracker`, `webhooks`, `form` |
| `Delivery` | paid order to delivery, return and refund; suspension of transporters | the documents, `view` (code requests in progress) |
| `DeliveryFinance` | payouts, corrections, refunds | the three collections, `call` |
| `FabricOutbox` | the relay to the ledger | `tx`, `attempt` per worker, `ledger`, `inflight` |
| `Traceability` | the public trace and the verified-origin listing, on top of `FabricOutbox` | `trace` (the request in progress), `verified` (the cache), `browsed` |
| `Loan` | loans | `loan`, `call`, `audit` |
| `Accounts` | onboarding, sign-in, avatar | `users`, `profiles`, `tokens`, `asset` (what Cloudinary holds), `request` |
| `DeployAgent` | the release consumer of the production host | the files, the containers, `agent` (the run in progress) |
| `Content` | community posts and comments, listings, moderation | `post`, `comment`, `product`, `audit`, `call` |
| `Settings` | the configuration, its screen, and an application that reads it | `stored`, `revision`, `page` (what an administrator sees), `admin` (his request), `configAudit`, `application` |
| `Notifications` | devices, pushes, the inbox | `fcmToken`, `registering`, `served`, `unread`, `push` |
| `MC*` | constants and symmetry for TLC; `MCPlatform` joins `Content`, `Notifications` and `Accounts`, `MCLoan` joins `Loan` and `Settings` | |
| `DeliveryProofs`, `OrderPaymentProofs`, `DeliveryFinanceProofs`, `LoanProofs`, `DeployAgentProofs` | theorems about the module of that name | |
| `TraceabilityProofs` | theorems about `FabricOutbox` and `Traceability` | |
| `PlatformProofs` | theorems about `Content`, `Settings`, `Notifications` and `Accounts` | |
| `SumTheorems` | sums over finite sets, for those proofs | |

`OrderPayment` and `Delivery` both implement `OrderLifecycle`
(`ImplementsLifecycle`, an `INSTANCE` with a refinement mapping): stage, money and
goods of an order are computed from four documents, and every step of either
module must be a step of the lifecycle or leave the three alone. `OrderPayment`
covers the first half (placed, abandoned, paid; "held" means that the ledger record
exists, which is how the mapping sees that settlement records and pays in one step),
`Delivery` the second (accepted, collected, delivered, returned, refunded).

The modules are separate because they meet on few documents, and each models
its neighbours by the steps it can see: `Delivery.Settle` is all it needs to know of
`OrderPayment`, `DeliveryFinance.Earn` and `Cancel` of `Delivery`,
`FabricOutbox.Enqueue` of everything that queues a record, `Content.UpdateStock` of the
stock edit in `OrderPayment`, `Settings.Apply` to `DecideApplication` of the loan
request in `Loan`. `Traceability` is composed with `FabricOutbox` for real: it extends
it, and their steps interleave. `Content`, `Notifications` and `Accounts` write no field
another of them reads: `MCPlatform` only puts them into one run, where `part`
chooses in the initial state which of them moves; the other two rest. `MCLoan` does the
same with `Loan` and `Settings`.

### Correspondence, where it is not obvious

- **OrderPayment.** `claimed` is `paymentStartedAt`, `paymentId` its presence on the
  order. `priced` is the gap between `price()` and the insert. `gateway = "mock"`
  stands for every gateway other than Safepay: they answer a pending payment at
  once and their references never receive a webhook. A session is `minted` before
  the response hands the checkout out (`open`): a request abandoned in between
  leaves a session nobody can pay. `form` is the quantity the farmer's edit
  carries as `expectedQuantity`; `supplied` is a history variable.
- **Delivery.** A driver is `inReach` when his location is fresh and within the
  radius; time makes it false. The nonce of a code is represented by the code: the
  filter compares nonces, which never repeat, the model codes, which may, so the
  model allows more. `Unpinned` are orders without a pickup location: a claim of one
  is not checked for distance, but it is offered to nobody and cannot be reassigned.
  `blocked` is `proofBlockedUntil`, `BlockExpires` the passing of
  15 minutes. `stage` and `resolved` are the issue. `LegacyFailed` shipments failed
  before issues existed; `ReturnToFarmer` gives them one, as the code does.
- **DeliveryFinance.** Payouts are stored under their request id, since the id is
  unique; the fingerprint of a request is the record of its fields. A transaction
  that hits a unique index ends in `duplicate`, and the second lookup decides
  whether the record there answers this request.
- **FabricOutbox.** The lease token is the worker's name: a worker makes one attempt
  at a time, and `OwnsLease` compares what the update's filter compares. `live`
  and `due` are the two timestamps against the clock. A crash and a timeout
  leave what was sent `inflight`: it may still commit.
- **Traceability.** The records of one product; `Listed` is that of its "listed" event, the
  others are shipment and payment records. A request that was answered without the peer
  leaves reads under way (`waiting`), which may still feed the cache; `Promise.all`
  gives up at the first failure. Transaction ids are abstracted: the worker confirms a
  record with the id it found on the ledger under its key, so that "mismatch" would mean
  a ledger that changed. `Recorded` records were relayed before the model starts.
- **Content.** A document that does not exist has status "none". `Visibility` is one
  transaction whose filter demands the opposite value; `audit` keeps the last entry and
  the number of entries of a document. `seen` is the status a farmer's edit was loaded
  with: `save()` writes the status only if the edit differs from it.
- **Settings.** Every read of a key is a step. `history` remembers what was stored as of
  each revision, `AuditLog.shown` what the administrator had on his screen. A save is a
  transaction with a snapshot (`BeginSave`) and a commit (`CommitSave`) that succeeds for
  the first writer of the revision document. `Seeds` are configurations that were put
  into the database by hand, among them limits that cross.
- **Notifications.** A request between the two updates of `registerDeviceToken` is in
  `registering`; one that stops there is a request that failed. `served` is what FCM
  would still deliver to, `Answers` what it may say of a token, a living one included:
  the code goes by the list of codes alone (`DeadAmong`). `overlapped` is a history variable: accounts that were given
  one token at the same time.
- **Accounts.** Firebase and its tokens are abstracted to the identity a request
  names; two identities with one email are a Firebase user that was deleted and
  created again. `Legacy` may have an account from before Firebase, without a uid.
  Ids are never used again. `CreateProfile` is the profile's insert and, when it is
  accepted, the token of the response. Cloudinary keeps one asset per public id
  (`asset`, the version it holds) whatever version a path names; `doomed` counts
  the deletions that run in the background. A deletion may fail: the code logs it and
  goes on, and the history variable `leftover` remembers the version that stays. Suspended accounts, and
  privileged ones whose email has left its allowlist, are refused a session; that
  check is left out. A failing command has no effect; a
  `Crash` ends a call between two of them, any number of times, and the history variable
  `lost` remembers the accounts whose onboarding it cut off, `leftover` the photos.
- **DeployAgent.** A release is a commit number and `Content` what it consists of. An
  exception is a jump (`Raise`) to the handler the code has around the step: the roll
  back of the activation, `process`'s `except`, or the end of the run. A command
  that fails may have done any part of its work (the `SUBSET`s of containers).
  `marker` is the backup's own journal. `Kill` is the service's start timeout, or a
  reboot: containers have restart policies, so what was up is up afterwards.
  A manual `f2fctl backup` is not modelled.
- **Loan.** `version` is `__v`. Dates are a month counted from January of a leap
  year and a day, enough for what `setUTCMonth` does with short months.

## 3. Runs

| run | states | what it shows |
|---|---|---|
| `OrderPayment_race` | 1.8M | two orders for one unit, two requests, two sessions: cancelled orders are never payable, claimed parties stay active, settlement takes effect once and only for captured money |
| `OrderPayment_live` | 0.24M | two products shared by two orders, simulator on: stock is conserved, checkout implements the lifecycle, captured money is settled (liveness) |
| `OrderPayment_reopened` | fails | finding 1 |
| `Delivery_orders` | 0.14M | two orders, one without a pickup location, new ones or old failed deliveries, two transporters: one delivery each, both documents agree, earned or refunded, suspension safe, the lifecycle is implemented |
| `Delivery_code` | 0.56M | one delivery, two code requests: lockout, custody, codes not silently replaced |
| `Traceability` | 0.15M | two records, two workers, two crashes, a trace in progress, API restarts: confirmed is committed, final is final, what a trace or a verified-origin listing says is true, every record is decided (liveness) |
| `DeliveryFinance` | 1.2M | three earnings of two drivers, two request ids, two racing requests, one cancelled order: paid once, success means recorded, books balance, refunds match payments |
| `Loans` | 0.74M | loans: three concurrent requests, no repayment lost, repaid when paid, schedule adds up, decided once; settings: a screen is one revision, no save is lost, an application is taken within limits that were in force |
| `Accounts_avatar` | fails | finding 2 |
| `DeployAgent` | 0.16M | two releases of the backend, three of the chaincode, two faults: receipts are true, nothing is left half done, one undoable activation at a time, every activation ends, every release is decided (liveness) |
| `Platform` | 1.05M | content: the comment counter is in step, the audit log tells what is visible, only a recorded decision republishes; notifications: a token moves to the last sign-in; accounts: two requests of three identities, two of which share an email, leave accounts and profiles whole through races, roll backs and crashes, and a removed photo is gone unless its deletion failed or was cut off |
| `Notifications_dropped` | fails | finding 3 |

Several properties begin with their module's `TypeOK`: the type invariant is checked
with the property whose state it describes, so that each run has one reading.

**Bounds.** Two of whatever competes (orders for one unit, transporters for one
offer, requests for one payment, workers for one record) is where each race shows;
three loan requests are used because two repayments race with a decision's audit.
One unit of stock makes the last unit the normal case; two sessions allow one
re-initiation, and a late event of the old session. `MaxFailures` is 2 (5 in the code) and
1 where the code is not the subject: the code compares, it never computes with the
number. `MAX_RETRIES` is 3 as in the code. In `Traceability` one record is new (the listing) and one
was relayed before, so that a trace reads both kinds. In `Platform`, two
concurrent requests of authors and up to two moderations of a document (`MaxAudit`) make
every pair of operations overlap; two accounts, two tokens,
two sign-ins and one batch are what the hand-over of a device and a push need; for
`Accounts`, `MaxUsers = 2` account ids are enough for a roll back and a second account,
`MaxUploads = 2` for a replaced photo, and one CNIC makes its index the normal case, while
the one email that may become a partner is also an administrator's. In `Loans`, two saves
(`MaxSaves`) tear a page that is read twice, and `ATTEMPTS` is 2 (3 in the code: the loop
only counts to it). `MaxCrashes`, `Refs`, `Decliners`,
`Loans` bound what would otherwise grow. `Delivery.LegacyFailed` are the orders
that *may* start as failed before issues existed; whether they do is chosen in `Init`,
so one run covers old and new orders and both together. In `DeployAgent`, the
releases include one that does not answer, one that answers but fails the dependency
probe, one without a change and good ones; `MaxFaults = 2` is a failing activation
whose recovery is interrupted as well.
Deadlock is checked where somebody can always act (`Delivery_*`, `DeliveryFinance`,
`DeployAgent`); in the other runs bounded supplies (orders, sessions,
loans, records, saves, moderations) run out and the system legitimately stops.

**Fairness.** `OrderPayment.FairSpec`: an event that was not acknowledged is
delivered again until it is (Safepay retries; the code answers 4xx to what it
cannot apply). Nothing is assumed of buyers or requests. `FabricOutbox.Fairness`:
the poll timer keeps each worker going (`setInterval`), leases and backoff
run out because clocks advance, and a call to the gateway ends somehow. The last
is an assumption about gRPC: the code sets no deadline. The run has two workers, more
than `docker-compose.yml` and `ops/compose.yml` deploy; with two, calls that always take
longer than the lease hand a record back and forth for ever, each outcome being
discarded and no retry counted: `EventuallyDecided` excludes exactly the behaviours in
which leases are outlived again and again. Of readers and the API nothing is assumed.
`DeployAgent.FairSpec`: weak fairness of the run as a whole. The systemd
timer starts the agent again a minute after it ended (`farm2fork-deploy.timer`), and
every command it waits for has a timeout, whose expiry is one of the faults. The
liveness properties say that the agent gets there once faults cease, since a run
that is killed every time never gets anywhere; the bound on faults is that premise.

**Mutants.** Every property of a passing run is violated under that run's own
configuration by a plausible bug in one definition (`PROJECT.json`, `mutants`); the
mutated operators stand before the originals, marked "Mutant".

## 4. Where the code and its documents disagree

Three runs show it:

1. *Only a pending order can receive a new payment* (design of 2026-08-11): a buyer asks
   again for the payment of his order while a session of it is open. The claim finds the
   order pending; the session is captured and settled; the lookup that follows
   (`payment.service.ts:135`) finds the successful payment and does not look at its status;
   a new session is opened and the payment saved as pending. The order is paid once, but
   its payment then reads pending, with the reference of a session nobody has paid
   (`OrderPayment_reopened`, with a single request).
2. *Only a changed path (local dev files) needs explicit cleanup*
   (`account.service.ts:146`): the path contains the version of the upload, so it
   changes every time, and deleting the previous one destroys the public id that by
   then holds the new photo. Every replacement leaves the account with a photo that
   does not exist (`Accounts_avatar`).
3. *Enabling a second device moves push delivery to that device*
   (`docs/testing/notifications-and-fabric.md:8`): FCM's answers are about the tokens a push
   read, but the token is removed by account (`notification.service.ts:216`). An account
   that enables another device while a push to the first is under way loses the new token
   when the old one is called dead, and gets no pushes until it registers again
   (`Notifications_dropped`).

Met while modelling, and visible in the models, but not checked as runs:

- *A farmer can have only one application in flight* (`loan.service.ts:48`): check
  (`:125`) and insert are separate, with no unique index.
- *Due on the same day of each following month*: `setUTCMonth` rolls over after the
  28th.
- *Only one concurrent worker submits a record* (the outbox test): not when the
  lease expires during a gateway call. The ledger refuses the second submission, and
  the record can end failed although it is on the ledger.
- A crash between the user and its profile leaves an account that can sign in, has no
  profile and can never be onboarded again; nothing repairs it.
- *Illustrative PKR bounds until the owner seeds min/max_loan_amount*
  (`system-config.service.ts:36`): the two limits are read one after another, so a save in
  between can give a pair that crosses, and then the illustrative defaults decide an
  application although both limits have been seeded.
- *A token moves to whoever signed in on that device last* (`notification.service.ts:87`):
  two sign-ins at the same time leave both accounts with it until the next one.
- A removal of the photo answers success although Cloudinary failed to delete it
  (`storage.service.ts:140`, "Best effort"): the photo stays until the account uploads
  another one.
- An administrator's "restore" also brings back what its author removed himself: both
  removals are the same status (`admin-content.service.ts:303`).
- The deploy agent marks a receipt as deployed before it writes it
  (`deploy-agent.py:281`). If that write, or the removal of the journal, fails, the
  receipt of the failure keeps the claim: the release is rolled back and, being
  named as deployed, is never attempted again.

## 5. Proofs

Every invariant and every action property that a passing run checks, and both
refinements of `OrderLifecycle`, are theorems as well: the run shows them on the small
instance, TLAPS for all values of the constants. `PROJECT.json` (`theorems`) lists the
results.

| module | theorems (property) | for any |
|---|---|---|
| `DeliveryProofs` | `OneDeliveryEach`, `SuspendedAreFree`, `OneStory`, `MoneyGoesOneWay`, `AttemptsBounded`, `CustodyNeverChanges`, `CodesReplacedOnRequest`, `DeliveryImplementsLifecycle` | orders, transporters, codes, code requests, `MaxFailures > 0` |
| `OrderPaymentProofs` | `CancellationExcludesPayment`, `PartiesStayActive`, `SettlementOnce`, `StockIsConserved`, `CheckoutImplementsLifecycle` | finite set of orders; products, carts, users, sessions, requests |
| `TraceabilityProofs` | `ConfirmedIsCommitted`, `DecidedIsFinal`, `TracesAreTrue`, `ReadersDisturbNothing` | records, workers, retries, crashes |
| `DeliveryFinanceProofs` | `EarningsPaidOnce`, `SuccessOnRecord`, `RefundsMatch`, `BooksAlwaysBalance` | finite sets of earnings and request ids; drivers, orders, amounts, requests in progress |
| `LoanProofs` | `LoansDecidedOnce`, `NoRepaymentLost`, `ClosedWhenRepaid`, `SchedulesStayInOrder`, `SchedulesCoverLoans` | farmers, loans, requests, amounts, days, bound on the months |
| `DeployAgentProofs` | `ReceiptsTrue`, `NothingIsHalfDone`, `ActivationsUndoable` | images, releases, contents that do not answer or do not work, faults |
| `PlatformProofs` | `Content`: `CounterInStep`, `LogTellsVisibility`, `RepublishedByDecision`; `Settings`: `OneRevisionShown`, `SavesKept`, `AcceptedWithinLimits`; `Notifications`: `TokensMove`; `Accounts`: `AccountsStayWhole`, `RemovedPhotosGone` | documents, requests, saves, accounts, devices, batches, identities, uploads, crashes |
| `SumTheorems` | lemmas only: sums over finite sets | |

**Assumptions.** Only the named `ASSUME`s of the modules, which TLC evaluates in every run:
constants have their types, null values are no values, the sets that are summed or
counted over are finite. Two say more about the world: `Delivery.LegacyAssumption` (which
orders may be old) and `DeployAgent.ContentAssumption` (the release that is installed at the
start works; without it there is nothing to roll back to). The bounds that keep TLC's
state finite (`MaxCrashes`, `MaxSaves`, `MaxFaults`, ...) are arbitrary numbers in the theorems.

**Layout.** Each module states the inductive invariant `IInv` (`OutboxInv`, `ContentInv`,
... where a module has several) as a conjunction of named parts, then one lemma per
operation (`OpStep`: the invariant and the operation give the invariant again, one step
per part the operation can disturb), then `Invariance`, then the properties. All of these
invariants were checked with TLC before they were proved. No property was inductive
alone; what had to be added is the part of the argument the code never states:

- **Delivery.** `DocumentsOK` (a shipment that exists has a driver; an unresolved issue
  exists only on a failed one), `PaymentsOK` (an order past pending has been paid, a
  refunded one is cancelled) and `AccountsOK`: the profile's suspension flag is the
  negation of the account's activity, which is what makes the claim's check of the flag
  enough. The refinement has a lemma per operation that says which step of the lifecycle it
  is, and for which order. `OffersAreClaimable` adds that, whatever the state, an offer
  listed for a transporter is one his claim would accept: the filter of the list and the
  claim's have not drifted apart.
- **OrderPayment.** `ClaimsOK`: the claim is the gate, since only a claimed draft ever has a
  payment or a session. `CallsOK`: what a request in progress may still rely on after its
  reads. `SessionsOK`: a session belongs to one order for ever, and a success event means
  that it was captured. `SupplyCovers` keeps a stale stock form from taking the declared
  total below zero.
- **FabricOutbox.** `LeasesOK` (only a pending record is leased, and only once its backoff
  has ended) and `AttemptsOK` (a worker that still holds its lease counts from the retries
  it read, and believes in a commit only when the key is on the ledger). They are why a
  worker that comes back late cannot touch a decided record. `ReadersDisturbNothing` shows
  that the outbox with its readers implements the outbox without them, so that what is proved
  of the second holds of the first.
- **DeliveryFinance.** `LedgerOK` (a correction is of a payout on record) and `AnsweredOK`
  (success means exactly this request is stored). `BooksInv` is the part about sums: what a
  driver received by payouts that were not corrected is what the earnings allocated to him
  add up to, the driver of each allocated earning being the payee.
- **Loan.** `LoansOK`: the version of a document counts its repayments. With `PayingOK`
  (what a repayment loaded is still recorded) it gives `NothingSavedSince`: if the version
  matches at the save, nothing was recorded in between. `DecidingOK` makes the reviewer who
  decided the only one to write the audit entry. That the instalments add up and fall due in order is
  proved of the arithmetic of the code, the rolled-over days of short months included.
- **DeployAgent.** `World` is what survives a kill at any step: without a journal
  everything runs and works; with one, all that may be out of order is what the journal
  can put back, and a receipt that says success was written by the deployment in the journal, at its end.
  `AgentOK` is what the run knows at each step (`FlagsOK`, `ReleaseOK`, `MarkerOK`,
  `ActivationOK`, `UndoOK`). Every step is shown to keep both, and `Kill` needs `World` only.
- **Content.** `CountsOK`, `ThreadsOK`, `CallsOK`: what a late writer finds may have been
  removed or hidden, but it exists and is of its kind, so that the decrement meets the
  right counter.
- **Settings.** `LoadsOK`: as long as the revision is the one found before the keys were
  read, the keys read are those stored; the second look at the revision therefore
  suffices. `SavesOK`: a save works on the snapshot of the revision on the form.
  `HistoryOK`, `ApplicationsOK` say what was in force when.
- **Notifications.** `ClaimsOK` speaks of the requests between the two updates as well,
  of which `TokenMoves` says nothing.
- **Accounts.** A request that onboards owns the account it inserted, which has no profile
  yet (`RequestsOK`): a roll back can only take what is its own. `OneProfileEach`,
  `OneAccountEach`. `AssetsOK`: the version of a photo that its account does not point to
  is one that a request will point to, or is about to destroy, or one of the `leftover`.

**Sums.** `StockIsConserved`, `BooksAlwaysBalance`, `SchedulesCoverLoans` and the counts are
about sums over sets of any size. `SumTheorems` shows that the community modules'
`SumFunctionOnSet` obeys the rules one expects (one element more, one value changed, a
union of two sets, a constant). Induction is stated there for subsets of a given set
instead of predicates: a set of naturals that contains 0 and successors is all of them, and a
set of subsets that is closed under adding an element contains every finite one.

**Left to TLC.** The four liveness properties (`CapturedSettles`, `EventuallyDecided`,
`Recovers`, `ReleaseDecided`): they need rules for fairness and ENABLED, which the
installed provers do not have. And the three runs that show a disagreement (section 4),
which are counterexamples.

## 6. Plan

The modules were written in the order of section 2: checkout and delivery first, since
money and goods meet there; then what pays, records and lends; then accounts
and the deploy agent; then what reads the ledger, and the platform's own pages
(content, configuration, notifications); then the proofs, in the same order. Next:

1. Quote and checkout amounts: the platform fee and the delivery settings an order is
   priced with, against a save of the configuration.
2. The dispatch push: candidates and busy transporters are read one after another.
3. A manual backup beside the deploy agent.
4. Towards the liveness properties: variants, i.e. what each step of a worker, of a run of
   the agent or of the gateway decreases, as action properties with proofs.

## 7. What is not modelled

Safepay, Fabric, MongoDB, Cloudinary, Docker and Firebase themselves: only what the
code relies on. Money amounts of orders (floating point) and distances. Guards, CSRF,
rate limits, DTO validation: stateless, before the handlers; the models start where a
request has been admitted, and leave out who may do what where a refusal changes nothing.
Who is notified of what, and the dispatch push: they follow a commit and nothing waits
for them; `Notifications` starts where a list of addressees is given. `updateProfile` and
the farm's location: single fields, the last writer wins. Farm profiles, search, the QR
code, the overview and the lists of administrators only read; AI is a single call to
another service and one insert; photos and documents are uploaded before the document
that names them and never cleaned up. The Safepay client signs and parses; delivery
pricing is floating-point geometry. Infrastructure clients wrap Redis, Firebase and the
environment. Scripts and benchmarks are not part of the running system. The manual backup is
planned (section 6).
