---------------------------- MODULE FabricOutbox ----------------------------
(***************************************************************************)
(* The ledger outbox: BlockchainOutboxWorker relays the records that       *)
(* settlements and shipment changes queued to Hyperledger Fabric.  Several *)
(* worker processes may run; a record is leased for one attempt, and the   *)
(* lease can expire while the attempt is still waiting for Fabric, because *)
(* the gateway is given no deadline.  Every database command and every     *)
(* gateway call is a step of its own; a worker may crash between two.      *)
(***************************************************************************)
EXTENDS Naturals, FiniteSets

CONSTANTS
  Records,      \* outbox records: the record's id is its key on the ledger
  Recorded,     \* those that were relayed before the model starts
  Workers,      \* worker processes, each busy with one record at a time
  MAX_RETRIES,  \* 3 in the code
  MaxCrashes,   \* bound on worker crashes
  NoWorker, NoRecord

ASSUME RetryAssumption == MAX_RETRIES \in Nat \ {0}
ASSUME RecordedAssumption == Recorded \subseteq Records
ASSUME CrashAssumption == MaxCrashes \in Nat
ASSUME NullAssumption  == NoWorker \notin Workers /\ NoRecord \notin Records

VARIABLES
  tx,        \* blockchain_transactions documents
  attempt,   \* processNext in progress, per worker
  ledger,    \* keys committed on the ledger
  inflight,  \* transactions sent for ordering: who waits for the outcome
  crashes    \* number of crashes so far

vars == <<tx, attempt, ledger, inflight, crashes>>

\* live: leaseExpiresAt lies in the future; due: nextAttemptAt does not.
Document == [status: {"none", "pending", "confirmed", "failed"}, retryCount: 0..(MAX_RETRIES - 1),
             lease: Workers \cup {NoWorker}, live: BOOLEAN, due: BOOLEAN]
Attempt  == [pc: {"idle", "leased", "absent", "waiting", "committed", "transient", "permanent"},
             record: Records \cup {NoRecord}, retryCount: 0..(MAX_RETRIES - 1)]
Idle     == [pc |-> "idle", record |-> NoRecord, retryCount |-> 0]

TypeOK ==
  /\ tx \in [Records -> Document]
  /\ attempt \in [Workers -> Attempt]
  /\ ledger \subseteq Records
  /\ inflight \subseteq [by: Workers \cup {NoWorker}, record: Records]
  /\ crashes \in 0..MaxCrashes

Init ==
  /\ tx = [r \in Records |-> [status |-> IF r \in Recorded THEN "confirmed" ELSE "none",
                              retryCount |-> 0, lease |-> NoWorker,
                              live |-> FALSE, due |-> TRUE]]
  /\ attempt = [w \in Workers |-> Idle]
  /\ ledger = Recorded
  /\ inflight = {}
  /\ crashes = 0

\* The transaction of a settlement, a claim or a status change queues a record.
Enqueue(r) ==
  /\ tx[r].status = "none"
  /\ tx' = [tx EXCEPT ![r].status = "pending"]
  /\ UNCHANGED <<attempt, ledger, inflight, crashes>>

-----------------------------------------------------------------------------
(* processNext *)

\* Mutant: a lease is never taken over.
EligibleUnleased(r) == /\ tx[r].status = "pending"
                       /\ tx[r].retryCount < MAX_RETRIES
                       /\ tx[r].due
                       /\ tx[r].lease = NoWorker

Eligible(r) == /\ tx[r].status = "pending"
               /\ tx[r].retryCount < MAX_RETRIES
               /\ tx[r].due
               /\ ~tx[r].live

Goto(w, pc) == attempt' = [attempt EXCEPT ![w].pc = pc]
EndAttempt(w) == attempt' = [attempt EXCEPT ![w] = Idle]

\* findOneAndUpdate with a fresh lease token, which the worker's name stands
\* for: a worker makes one attempt at a time (the processing flag).
Lease(w, r) ==
  /\ attempt[w].pc = "idle"
  /\ Eligible(r)
  /\ tx' = [tx EXCEPT ![r].lease = w, ![r].live = TRUE]
  /\ attempt' = [attempt EXCEPT ![w] = [pc |-> "leased", record |-> r,
                                        retryCount |-> tx[r].retryCount]]
  /\ UNCHANGED <<ledger, inflight, crashes>>

FindByLedgerKey(w) ==
  /\ attempt[w].pc = "leased"
  /\ Goto(w, IF attempt[w].record \in ledger THEN "committed" ELSE "absent")
  /\ UNCHANGED <<tx, ledger, inflight, crashes>>

\* Mutant: the commit status is not awaited.
SubmitAndForget(w) ==
  /\ attempt[w].pc = "absent"
  /\ Goto(w, "committed")
  /\ inflight' = inflight \cup {[by |-> NoWorker, record |-> attempt[w].record]}
  /\ UNCHANGED <<tx, ledger, crashes>>

\* The chaincode refuses a key that exists (a permanent failure); otherwise
\* the transaction is sent for ordering and the worker waits for its status.
Submit(w) ==
  /\ attempt[w].pc = "absent"
  /\ \/ /\ attempt[w].record \in ledger
        /\ Goto(w, "permanent")
        /\ UNCHANGED inflight
     \/ /\ attempt[w].record \notin ledger
        /\ Goto(w, "waiting")
        /\ inflight' = inflight \cup {[by |-> w, record |-> attempt[w].record]}
  /\ UNCHANGED <<tx, ledger, crashes>>

\* Mutant: the update is not filtered on the lease token.
OwnsLeaseAnyway(w) == attempt[w].record \in Records

\* The lease of this very attempt still stands on the record.
OwnsLease(w) == tx[attempt[w].record].lease = w

Released(t, status, retries, due) ==
  [t EXCEPT !.status = status, !.retryCount = retries, !.due = due,
            !.lease = NoWorker, !.live = FALSE]

Confirm(w) ==
  LET r == attempt[w].record IN
  /\ attempt[w].pc = "committed"
  /\ tx' = IF OwnsLease(w)
           THEN [tx EXCEPT ![r] = Released(@, "confirmed", @.retryCount, TRUE)]
           ELSE tx
  /\ EndAttempt(w)
  /\ UNCHANGED <<ledger, inflight, crashes>>

\* A permanent failure, or the last of the allowed transient ones.
Exhausted(w) == \/ attempt[w].pc = "permanent"
                \/ attempt[w].retryCount + 1 >= MAX_RETRIES

HandleFailure(w) ==
  LET r == attempt[w].record IN
  /\ attempt[w].pc \in {"transient", "permanent"}
  /\ tx' = IF ~OwnsLease(w) THEN tx
           ELSE IF Exhausted(w)
           THEN [tx EXCEPT ![r] = Released(@, "failed", @.retryCount, @.due)]
           ELSE [tx EXCEPT ![r] = Released(@, "pending", @.retryCount + 1, FALSE)]
  /\ EndAttempt(w)
  /\ UNCHANGED <<ledger, inflight, crashes>>

\* Nobody waits any more for what this worker sent.
Orphan(w) == {[s EXCEPT !.by = IF @ = w THEN NoWorker ELSE @] : s \in inflight}

\* The gateway is unavailable or times out; what was sent may still commit.
\* A database error while confirming is reported as a transient failure too.
GatewayUnavailable(w) ==
  /\ attempt[w].pc \in {"leased", "absent", "waiting", "committed"}
  /\ Goto(w, "transient")
  /\ inflight' = Orphan(w)
  /\ UNCHANGED <<tx, ledger, crashes>>

\* Endorsement refuses the query or the payload, or a call ends with an error
\* that classifyFabricError does not know: permanent, even if it is the wait for
\* the commit status that failed.
GatewayRejects(w) ==
  /\ attempt[w].pc \in {"leased", "absent", "waiting"}
  /\ Goto(w, "permanent")
  /\ inflight' = Orphan(w)
  /\ UNCHANGED <<tx, ledger, crashes>>

-----------------------------------------------------------------------------
(* Fabric (external) and time *)

\* A transaction is ordered and validated: the first one for a key commits,
\* a later one fails validation (a read conflict on the key).
Validate(s, outcome) ==
  /\ s \in inflight
  /\ outcome = "committed" => s.record \notin ledger
  /\ ledger' = IF outcome = "committed" THEN ledger \cup {s.record} ELSE ledger
  /\ inflight' = inflight \ {s}
  /\ attempt' = IF s.by \in Workers THEN [attempt EXCEPT ![s.by].pc = outcome] ELSE attempt
  /\ UNCHANGED <<tx, crashes>>

LeaseExpires(r) ==
  /\ tx[r].live
  /\ tx' = [tx EXCEPT ![r].live = FALSE]
  /\ UNCHANGED <<attempt, ledger, inflight, crashes>>

BackoffEnds(r) ==
  /\ ~tx[r].due
  /\ tx' = [tx EXCEPT ![r].due = TRUE]
  /\ UNCHANGED <<attempt, ledger, inflight, crashes>>

\* The process dies and is restarted; its lease stays until it expires.
Crash(w) ==
  /\ attempt[w].pc # "idle"
  /\ crashes < MaxCrashes
  /\ crashes' = crashes + 1
  /\ EndAttempt(w)
  /\ inflight' = Orphan(w)
  /\ UNCHANGED <<tx, ledger>>

-----------------------------------------------------------------------------
WorkerStep(w) == \/ \E r \in Records : Lease(w, r)
                 \/ FindByLedgerKey(w)
                 \/ Submit(w)
                 \/ Confirm(w)
                 \/ HandleFailure(w)

\* Some answer to a transaction that a worker waits for.
Answer(w) ==
  \/ GatewayUnavailable(w)
  \/ \E s \in inflight, outcome \in {"committed", "permanent"} : s.by = w /\ Validate(s, outcome)

Next ==
  \/ \E r \in Records : Enqueue(r) \/ LeaseExpires(r) \/ BackoffEnds(r)
  \/ \E w \in Workers : \/ WorkerStep(w)
                        \/ GatewayUnavailable(w)
                        \/ GatewayRejects(w)
                        \/ Crash(w)
  \/ \E s \in inflight, outcome \in {"committed", "permanent"} : Validate(s, outcome)

Spec == Init /\ [][Next]_vars

\* The poll timer keeps a worker going, clocks advance, and a worker is not
\* left waiting for ever: the peer answers or the connection breaks.
Fairness == /\ \A w \in Workers : WF_vars(WorkerStep(w)) /\ WF_vars(Answer(w) /\ attempt[w].pc = "waiting")
            /\ \A r \in Records : WF_vars(LeaseExpires(r)) /\ WF_vars(BackoffEnds(r))

FairSpec == Spec /\ Fairness

-----------------------------------------------------------------------------
(* Properties *)

\* A record shown as confirmed is on the ledger, whatever attempts timed out,
\* were repeated by another worker or ended with the worker.
ConfirmedOnLedger == \A r \in Records : tx[r].status = "confirmed" => r \in ledger

\* A confirmed or failed record is final: a worker that returns after its lease
\* has expired, from whatever attempt, does not reopen or relabel it.
Final == [][\A r \in Records :
              tx[r].status \in {"confirmed", "failed"} => tx'[r] = tx[r]]_vars

\* A lease ran out under an attempt that still waits for Fabric.
LeaseOutlived == \E w \in Workers : /\ attempt[w].record # NoRecord
                                    /\ LeaseExpires(attempt[w].record)

\* Every queued record is eventually confirmed or given up, through crashes,
\* backoff and workers that compete for the leases - unless attempts outlive
\* their leases for ever: a stolen attempt counts no retry.
EventuallyDecided ==
  \/ []<><<LeaseOutlived>>_vars
  \/ \A r \in Records : tx[r].status = "pending" ~> tx[r].status \in {"confirmed", "failed"}
=============================================================================
