------------------------- MODULE TraceabilityProofs -------------------------
(***************************************************************************)
(* Safety of the ledger outbox and of the provenance read from it, for     *)
(* every number of records, workers, retries and crashes.                  *)
(***************************************************************************)
EXTENDS Traceability, TLAPS

\* Only a pending record is leased or backing off, and it is leased only once
\* its backoff has ended: hence no returning worker finds its own lease on a
\* record that has been decided.
LeasesOK ==
  \A r \in Records :
    /\ tx[r].lease # NoWorker => tx[r].status = "pending" /\ tx[r].due
    /\ tx[r].live => tx[r].lease # NoWorker
    /\ ~tx[r].due => tx[r].status = "pending"

\* A worker counts retries from the document it leased, believes in a commit
\* only when the key is on the ledger, and waits for every transaction it has
\* sent: the outcome it is told is that of its own record.
AttemptOK(w) ==
  LET a == attempt[w] IN
  /\ a.pc = "idle" <=> a.record = NoRecord
  /\ a.pc # "idle" /\ tx[a.record].lease = w => tx[a.record].retryCount = a.retryCount
  /\ a.pc = "committed" => a.record \in ledger
  /\ \A s \in inflight : s.by = w => a.pc = "waiting" /\ a.record = s.record
AttemptsOK == \A w \in Workers : AttemptOK(w)

OutboxInv == /\ TypeOK
             /\ LeasesOK
             /\ AttemptsOK
             /\ ConfirmedOnLedger

\* Whatever a reader remembers of a record, it saw it confirmed or found it on
\* the ledger, and the ledger only grows.
ReaderOK ==
  /\ trace.shown \cup trace.waiting \cup verified \cup browsed \subseteq ledger
  /\ trace.originVerified => Listed \in ledger
  /\ \A r \in Records : trace.onChain[r] # "not_found"

IInv == OutboxInv /\ TraceTypeOK /\ ReaderOK

-----------------------------------------------------------------------------
(* The steps of a worker *)

\* A worker moves on within its attempt.
LEMMA GotoEffect ==
  ASSUME TypeOK, NEW w \in Workers, NEW pc, Goto(w, pc),
         pc \in {"idle", "leased", "absent", "waiting", "committed", "transient", "permanent"}
  PROVE  /\ attempt' \in [Workers -> Attempt]
         /\ attempt'[w].pc = pc /\ attempt'[w].record = attempt[w].record
         /\ attempt'[w].retryCount = attempt[w].retryCount
         /\ \A v \in Workers \ {w} : attempt'[v] = attempt[v]
<1>1. attempt[w] \in Attempt
  BY DEF TypeOK
<1>2. [attempt[w] EXCEPT !.pc = pc] \in Attempt
  BY <1>1 DEF Attempt
<1>q. QED
  BY <1>1, <1>2 DEF Goto, TypeOK, Attempt

\* A worker ends its attempt.
LEMMA EndAttemptEffect ==
  ASSUME TypeOK, NEW w \in Workers, EndAttempt(w)
  PROVE  /\ attempt' \in [Workers -> Attempt]
         /\ attempt'[w].pc = "idle" /\ attempt'[w].record = NoRecord
         /\ \A v \in Workers \ {w} : attempt'[v] = attempt[v]
<1>1. Idle \in Attempt
  BY RetryAssumption DEF Idle, Attempt
<1>q. QED
  BY <1>1 DEF EndAttempt, TypeOK, Idle

\* Nothing in flight is waited for by an orphaning worker; what the others
\* wait for was in flight before.
LEMMA OrphanEffect ==
  ASSUME TypeOK, NEW w \in Workers
  PROVE  /\ Orphan(w) \subseteq [by: Workers \cup {NoWorker}, record: Records]
         /\ \A s \in Orphan(w) : s.by \in Workers => s \in inflight /\ s.by # w
<1> SUFFICES ASSUME NEW s \in Orphan(w)
             PROVE  /\ s \in [by: Workers \cup {NoWorker}, record: Records]
                    /\ s.by \in Workers => s \in inflight /\ s.by # w
  OBVIOUS
<1>1. PICK q \in inflight : s = [q EXCEPT !.by = IF q.by = w THEN NoWorker ELSE q.by]
  BY DEF Orphan
<1>2. q \in [by: Workers \cup {NoWorker}, record: Records]
  BY DEF TypeOK
<1>3. CASE q.by = w
  BY <1>1, <1>2, <1>3, NullAssumption
<1>4. CASE q.by # w
  <2>1. s = q
    BY <1>1, <1>2, <1>4
  <2>q. QED
    BY <1>2, <1>4, <2>1
<1>q. QED
  BY <1>3, <1>4

\* A record is queued.
LEMMA EnqueueStep ==
  ASSUME OutboxInv, NEW r \in Records, Enqueue(r)
  PROVE  OutboxInv'
<1>1. /\ tx \in [Records -> Document] /\ tx[r].status = "none"
      /\ tx' \in [Records -> Document]
      /\ tx'[r].status = "pending" /\ tx'[r].lease = tx[r].lease /\ tx'[r].live = tx[r].live
      /\ tx'[r].due = tx[r].due /\ tx'[r].retryCount = tx[r].retryCount
      /\ \A q \in Records \ {r} : tx'[q] = tx[q]
  BY DEF OutboxInv, TypeOK, Enqueue, Document
<1>2. TypeOK'
  BY <1>1 DEF OutboxInv, TypeOK, Enqueue
<1>3. LeasesOK'
  BY <1>1 DEF OutboxInv, LeasesOK
<1>4. AttemptsOK'
  BY <1>1 DEF OutboxInv, TypeOK, AttemptsOK, AttemptOK, Attempt, Enqueue
<1>5. ConfirmedOnLedger'
  BY <1>1 DEF OutboxInv, ConfirmedOnLedger, Enqueue
<1>q. QED
  BY <1>2, <1>3, <1>4, <1>5 DEF OutboxInv

\* A lease runs out or a backoff ends: the record stays whose it was.
LEMMA ClockStep ==
  ASSUME OutboxInv, NEW r \in Records, LeaseExpires(r) \/ BackoffEnds(r)
  PROVE  OutboxInv'
<1>1. /\ tx \in [Records -> Document]
      /\ tx' \in [Records -> Document]
      /\ tx'[r].status = tx[r].status /\ tx'[r].lease = tx[r].lease
      /\ tx'[r].retryCount = tx[r].retryCount
      /\ tx'[r].live => tx[r].live
      /\ tx[r].due => tx'[r].due
      /\ \A q \in Records \ {r} : tx'[q] = tx[q]
  <2>1. CASE LeaseExpires(r)
    BY <2>1 DEF OutboxInv, TypeOK, LeaseExpires, Document
  <2>2. CASE BackoffEnds(r)
    BY <2>2 DEF OutboxInv, TypeOK, BackoffEnds, Document
  <2>q. QED
    BY <2>1, <2>2
<1>2. TypeOK'
  BY <1>1 DEF OutboxInv, TypeOK, LeaseExpires, BackoffEnds
<1>3. LeasesOK'
  BY <1>1 DEF OutboxInv, LeasesOK
<1>4. AttemptsOK'
  BY <1>1 DEF OutboxInv, TypeOK, AttemptsOK, AttemptOK, Attempt, LeaseExpires, BackoffEnds
<1>5. ConfirmedOnLedger'
  BY <1>1 DEF OutboxInv, ConfirmedOnLedger, LeaseExpires, BackoffEnds
<1>q. QED
  BY <1>2, <1>3, <1>4, <1>5 DEF OutboxInv

\* A lease is taken, or taken over from an attempt that outlived it.
LEMMA LeaseStep ==
  ASSUME OutboxInv, NEW w \in Workers, NEW r \in Records, Lease(w, r)
  PROVE  OutboxInv'
<1>1. /\ tx[r] \in Document /\ tx[r].status = "pending" /\ tx[r].due
      /\ tx' \in [Records -> Document]
      /\ tx'[r].status = "pending" /\ tx'[r].lease = w /\ tx'[r].due
      /\ tx'[r].retryCount = tx[r].retryCount
      /\ \A q \in Records \ {r} : tx'[q] = tx[q]
  BY DEF OutboxInv, TypeOK, Lease, Eligible, Document
<1>2. /\ attempt[w].pc = "idle"
      /\ attempt' \in [Workers -> Attempt]
      /\ attempt'[w] = [pc |-> "leased", record |-> r, retryCount |-> tx[r].retryCount]
      /\ \A v \in Workers \ {w} : attempt'[v] = attempt[v]
  BY <1>1 DEF OutboxInv, TypeOK, Lease, Document, Attempt
<1>0. UNCHANGED <<ledger, inflight, crashes>>
  BY DEF Lease
<1>3. TypeOK'
  BY <1>0, <1>1, <1>2 DEF OutboxInv, TypeOK
<1>4. LeasesOK'
  BY <1>1, NullAssumption DEF OutboxInv, LeasesOK
<1>5. AttemptsOK'
  <2>1. AttemptOK(w)'
    BY <1>0, <1>1, <1>2, NullAssumption DEF OutboxInv, AttemptsOK, AttemptOK
  <2>2. ASSUME NEW v \in Workers \ {w}
        PROVE  AttemptOK(v)'
    BY <1>0, <1>1, <1>2, <2>2 DEF OutboxInv, TypeOK, AttemptsOK, AttemptOK, Attempt
  <2>q. QED
    BY <2>1, <2>2 DEF AttemptsOK
<1>6. ConfirmedOnLedger'
  BY <1>0, <1>1 DEF OutboxInv, ConfirmedOnLedger
<1>q. QED
  BY <1>3, <1>4, <1>5, <1>6 DEF OutboxInv

\* The key is looked up on the ledger.
LEMMA FindByLedgerKeyStep ==
  ASSUME OutboxInv, NEW w \in Workers, FindByLedgerKey(w)
  PROVE  OutboxInv'
<1>1. /\ attempt[w].pc = "leased"
      /\ attempt' \in [Workers -> Attempt]
      /\ attempt'[w].pc = IF attempt[w].record \in ledger THEN "committed" ELSE "absent"
      /\ attempt'[w].record = attempt[w].record
      /\ attempt'[w].retryCount = attempt[w].retryCount
      /\ \A v \in Workers \ {w} : attempt'[v] = attempt[v]
  BY GotoEffect DEF OutboxInv, FindByLedgerKey
<1>0. UNCHANGED <<tx, ledger, inflight, crashes>>
  BY DEF FindByLedgerKey
<1>2. TypeOK'
  BY <1>0, <1>1 DEF OutboxInv, TypeOK
<1>3. AttemptsOK'
  BY <1>0, <1>1 DEF OutboxInv, AttemptsOK, AttemptOK
<1>q. QED
  BY <1>0, <1>2, <1>3 DEF OutboxInv, LeasesOK, ConfirmedOnLedger

\* The transaction is refused, or sent and waited for.
LEMMA SubmitStep ==
  ASSUME OutboxInv, NEW w \in Workers, Submit(w)
  PROVE  OutboxInv'
<1> DEFINE r == attempt[w].record
<1>0. /\ UNCHANGED <<tx, ledger, crashes>>
      /\ attempt[w].pc = "absent" /\ r \in Records
  BY DEF OutboxInv, TypeOK, Attempt, AttemptsOK, AttemptOK, Submit
<1>1. PICK pc \in {"permanent", "waiting"} :
        /\ Goto(w, pc)
        /\ \/ UNCHANGED inflight
           \/ pc = "waiting" /\ inflight' = inflight \cup {[by |-> w, record |-> r]}
  BY DEF Submit
<1>2. /\ attempt' \in [Workers -> Attempt]
      /\ attempt'[w].pc = pc /\ attempt'[w].record = r
      /\ attempt'[w].retryCount = attempt[w].retryCount
      /\ \A v \in Workers \ {w} : attempt'[v] = attempt[v]
  BY <1>1, GotoEffect DEF OutboxInv
<1>3. TypeOK'
  BY <1>0, <1>1, <1>2 DEF OutboxInv, TypeOK
<1>4. AttemptsOK'
  <2>0. \A s \in inflight : s.by # w
    BY <1>0 DEF OutboxInv, AttemptsOK, AttemptOK
  <2>1. AttemptOK(w)'
    BY <1>0, <1>1, <1>2, <2>0 DEF OutboxInv, AttemptsOK, AttemptOK
  <2>2. ASSUME NEW v \in Workers \ {w}
        PROVE  AttemptOK(v)'
    BY <1>0, <1>1, <1>2, <2>2 DEF OutboxInv, AttemptsOK, AttemptOK
  <2>q. QED
    BY <2>1, <2>2 DEF AttemptsOK
<1>q. QED
  BY <1>0, <1>3, <1>4 DEF OutboxInv, LeasesOK, ConfirmedOnLedger

\* The end of an attempt: a worker that still owns the lease releases the
\* record with a new status, one that does not leaves it alone.
LEMMA ReleaseStep ==
  ASSUME OutboxInv, NEW w \in Workers, EndAttempt(w), attempt[w].pc # "idle",
         UNCHANGED <<ledger, inflight, crashes>>, attempt[w].pc # "waiting",
         NEW status \in {"pending", "confirmed", "failed"},
         NEW retries \in 0..(MAX_RETRIES - 1), NEW due \in BOOLEAN,
         status = "confirmed" => attempt[w].record \in ledger,
         status = "pending" \/ due,
         tx' = IF OwnsLease(w)
               THEN [tx EXCEPT ![attempt[w].record] =
                       Released(tx[attempt[w].record], status, retries, due)]
               ELSE tx
  PROVE  OutboxInv'
<1> DEFINE r == attempt[w].record
<1>0. r \in Records /\ tx[r] \in Document /\ tx \in [Records -> Document]
  BY DEF OutboxInv, TypeOK, Attempt, AttemptsOK, AttemptOK
<1>1. /\ attempt' \in [Workers -> Attempt]
      /\ attempt'[w].pc = "idle" /\ attempt'[w].record = NoRecord
      /\ \A v \in Workers \ {w} : attempt'[v] = attempt[v]
  BY EndAttemptEffect DEF OutboxInv
<1>2. /\ tx' \in [Records -> Document]
      /\ \A q \in Records : \/ tx'[q] = tx[q]
                            \/ /\ q = r
                               /\ tx'[q].status = status /\ tx'[q].lease = NoWorker
                               /\ ~tx'[q].live /\ tx'[q].due = due
  <2>1. CASE OwnsLease(w)
    <3> DEFINE doc == Released(tx[r], status, retries, due)
    <3>1. /\ doc \in Document
          /\ doc.status = status /\ doc.lease = NoWorker /\ ~doc.live /\ doc.due = due
      BY <1>0 DEF Released, Document
    <3>2. tx' = [tx EXCEPT ![r] = doc]
      BY <2>1
    <3> HIDE DEF doc, r
    <3>q. QED
      BY <1>0, <3>1, <3>2
  <2>2. CASE ~OwnsLease(w)
    BY <1>0, <2>2
  <2>q. QED
    BY <2>1, <2>2
<1> HIDE DEF r
<1>3. TypeOK'
  BY <1>1, <1>2 DEF OutboxInv, TypeOK
<1>4. LeasesOK'
  BY <1>2 DEF OutboxInv, LeasesOK
<1>5. AttemptsOK'
  <2>1. AttemptOK(w)'
    BY <1>1 DEF OutboxInv, AttemptsOK, AttemptOK
  <2>2. ASSUME NEW v \in Workers \ {w}
        PROVE  AttemptOK(v)'
    <3>1. attempt[v].pc # "idle" => attempt[v].record \in Records
      BY DEF OutboxInv, TypeOK, Attempt, AttemptsOK, AttemptOK
    <3>q. QED
      BY <1>1, <1>2, <2>2, <3>1, NullAssumption DEF OutboxInv, AttemptsOK, AttemptOK
  <2>q. QED
    BY <2>1, <2>2 DEF AttemptsOK
<1>6. ConfirmedOnLedger'
  BY <1>2 DEF OutboxInv, ConfirmedOnLedger, r
<1>q. QED
  BY <1>3, <1>4, <1>5, <1>6 DEF OutboxInv

\* Confirmation.
LEMMA ConfirmStep ==
  ASSUME OutboxInv, NEW w \in Workers, Confirm(w)
  PROVE  OutboxInv'
<1> DEFINE r == attempt[w].record
<1>1. /\ r \in Records /\ r \in ledger /\ tx[r] \in Document
      /\ tx[r].retryCount \in 0..(MAX_RETRIES - 1)
  BY DEF OutboxInv, TypeOK, Attempt, AttemptsOK, AttemptOK, Confirm, Document
<1>q. QED
  BY <1>1, ReleaseStep DEF Confirm

\* A failed attempt: the retry it counts is the one after those it leased with.
LEMMA HandleFailureStep ==
  ASSUME OutboxInv, NEW w \in Workers, HandleFailure(w)
  PROVE  OutboxInv'
<1> DEFINE r == attempt[w].record
<1>1. /\ r \in Records /\ tx[r] \in Document /\ tx[r].due \in BOOLEAN
      /\ attempt[w].pc \in {"transient", "permanent"}
      /\ tx[r].retryCount \in 0..(MAX_RETRIES - 1)
      /\ attempt[w].retryCount \in 0..(MAX_RETRIES - 1)
  BY DEF OutboxInv, TypeOK, Attempt, AttemptsOK, AttemptOK, HandleFailure, Document
<1>2. OwnsLease(w) => tx[r].retryCount = attempt[w].retryCount /\ tx[r].due
  BY <1>1, NullAssumption DEF OutboxInv, AttemptsOK, AttemptOK, LeasesOK, OwnsLease
<1>3. CASE ~OwnsLease(w)
  BY <1>1, <1>3, ReleaseStep DEF HandleFailure
<1>4. CASE OwnsLease(w) /\ Exhausted(w)
  BY <1>1, <1>2, <1>4, ReleaseStep DEF HandleFailure
<1>5. CASE OwnsLease(w) /\ ~Exhausted(w)
  <2>1. tx[r].retryCount + 1 \in 0..(MAX_RETRIES - 1)
    BY <1>1, <1>2, <1>5, RetryAssumption DEF Exhausted
  <2>q. QED
    BY <1>1, <1>5, <2>1, ReleaseStep DEF HandleFailure
<1>q. QED
  BY <1>3, <1>4, <1>5

\* A call to the gateway ends without an answer, or with a refusal.
LEMMA GatewayStep ==
  ASSUME OutboxInv, NEW w \in Workers, GatewayUnavailable(w) \/ GatewayRejects(w)
  PROVE  OutboxInv'
<1>0. /\ UNCHANGED <<tx, ledger, crashes>> /\ inflight' = Orphan(w)
      /\ attempt[w].pc \in {"leased", "absent", "waiting", "committed"}
  BY DEF GatewayUnavailable, GatewayRejects
<1>1. PICK pc \in {"transient", "permanent"} : Goto(w, pc)
  BY DEF GatewayUnavailable, GatewayRejects
<1>2. /\ attempt' \in [Workers -> Attempt]
      /\ attempt'[w].pc = pc /\ attempt'[w].record = attempt[w].record
      /\ attempt'[w].retryCount = attempt[w].retryCount
      /\ \A v \in Workers \ {w} : attempt'[v] = attempt[v]
  BY <1>1, GotoEffect DEF OutboxInv
<1>3. /\ inflight' \subseteq [by: Workers \cup {NoWorker}, record: Records]
      /\ \A s \in inflight' : s.by \in Workers => s \in inflight /\ s.by # w
  BY <1>0, OrphanEffect DEF OutboxInv
<1>4. TypeOK'
  BY <1>0, <1>2, <1>3 DEF OutboxInv, TypeOK
<1>5. AttemptsOK'
  BY <1>0, <1>2, <1>3 DEF OutboxInv, AttemptsOK, AttemptOK
<1>q. QED
  BY <1>0, <1>4, <1>5 DEF OutboxInv, LeasesOK, ConfirmedOnLedger

\* A worker dies: its lease stays and nobody waits for what it sent.
LEMMA CrashStep ==
  ASSUME OutboxInv, NEW w \in Workers, Crash(w)
  PROVE  OutboxInv'
<1>0. UNCHANGED <<tx, ledger>> /\ inflight' = Orphan(w)
  BY DEF Crash
<1>1. /\ attempt' \in [Workers -> Attempt]
      /\ attempt'[w].pc = "idle" /\ attempt'[w].record = NoRecord
      /\ \A v \in Workers \ {w} : attempt'[v] = attempt[v]
  BY EndAttemptEffect DEF OutboxInv, Crash
<1>2. /\ inflight' \subseteq [by: Workers \cup {NoWorker}, record: Records]
      /\ \A s \in inflight' : s.by \in Workers => s \in inflight /\ s.by # w
  BY <1>0, OrphanEffect DEF OutboxInv
<1>3. crashes' \in 0..MaxCrashes
  BY CrashAssumption DEF OutboxInv, TypeOK, Crash
<1>4. TypeOK'
  BY <1>0, <1>1, <1>2, <1>3 DEF OutboxInv, TypeOK
<1>5. AttemptsOK'
  BY <1>0, <1>1, <1>2 DEF OutboxInv, AttemptsOK, AttemptOK
<1>q. QED
  BY <1>0, <1>4, <1>5 DEF OutboxInv, LeasesOK, ConfirmedOnLedger

\* Fabric validates a transaction; whoever still waits for it waits for this
\* record, and a commit puts the record on the ledger.
LEMMA ValidateStep ==
  ASSUME OutboxInv, NEW s \in inflight, NEW outcome \in {"committed", "permanent"},
         Validate(s, outcome)
  PROVE  OutboxInv'
<1>0. /\ UNCHANGED <<tx, crashes>> /\ inflight' = inflight \ {s}
      /\ s \in [by: Workers \cup {NoWorker}, record: Records]
      /\ ledger' = IF outcome = "committed" THEN ledger \cup {s.record} ELSE ledger
  BY DEF Validate, OutboxInv, TypeOK
<1>1. CASE s.by \in Workers
  <2>1. /\ attempt' \in [Workers -> Attempt]
        /\ attempt'[s.by].pc = outcome /\ attempt'[s.by].record = attempt[s.by].record
        /\ attempt'[s.by].retryCount = attempt[s.by].retryCount
        /\ \A v \in Workers \ {s.by} : attempt'[v] = attempt[v]
    <3>1. Goto(s.by, outcome)
      BY <1>1 DEF Validate, Goto
    <3>q. QED
      BY <1>1, <3>1, GotoEffect DEF OutboxInv
  <2>2. TypeOK'
    BY <1>0, <2>1 DEF OutboxInv, TypeOK
  <2>3. attempt[s.by].pc = "waiting" /\ attempt[s.by].record = s.record
    BY <1>1 DEF OutboxInv, AttemptsOK, AttemptOK
  <2>4. \A t \in inflight' : t.by # s.by
    <3>1. ASSUME NEW t \in inflight, t.by = s.by
          PROVE  t = s
      <4>1. t.record = s.record
        BY <1>1, <2>3, <3>1 DEF OutboxInv, AttemptsOK, AttemptOK
      <4>q. QED
        BY <3>1, <4>1 DEF OutboxInv, TypeOK
    <3>q. QED
      BY <1>0, <3>1
  <2>5. AttemptsOK'
    <3>1. AttemptOK(s.by)'
      BY <1>0, <1>1, <2>1, <2>3, <2>4 DEF OutboxInv, AttemptsOK, AttemptOK
    <3>2. ASSUME NEW v \in Workers \ {s.by}
          PROVE  AttemptOK(v)'
      BY <1>0, <2>1, <3>2 DEF OutboxInv, AttemptsOK, AttemptOK
    <3>q. QED
      BY <3>1, <3>2 DEF AttemptsOK
  <2>q. QED
    BY <1>0, <2>2, <2>5 DEF OutboxInv, LeasesOK, ConfirmedOnLedger
<1>2. CASE s.by \notin Workers
  <2>1. UNCHANGED attempt
    BY <1>2 DEF Validate
  <2>2. TypeOK'
    BY <1>0, <2>1 DEF OutboxInv, TypeOK
  <2>3. AttemptsOK'
    BY <1>0, <2>1 DEF OutboxInv, AttemptsOK, AttemptOK
  <2>q. QED
    BY <1>0, <2>2, <2>3 DEF OutboxInv, LeasesOK, ConfirmedOnLedger
<1>q. QED
  BY <1>1, <1>2

-----------------------------------------------------------------------------
(* The outbox *)

LEMMA InitOutbox == Init => OutboxInv
<1> SUFFICES ASSUME Init
             PROVE  OutboxInv
  OBVIOUS
<1>1. /\ \A r \in Records : /\ tx[r].lease = NoWorker /\ ~tx[r].live /\ tx[r].due
                            /\ tx[r].status = "confirmed" <=> r \in Recorded
      /\ tx \in [Records -> Document]
  BY RetryAssumption DEF Init, Document
<1>2. \A w \in Workers : attempt[w].pc = "idle" /\ attempt[w].record = NoRecord
  BY DEF Init, Idle
<1>3. TypeOK
  <2>1. Idle \in Attempt
    BY RetryAssumption DEF Idle, Attempt
  <2>q. QED
    BY <1>1, <2>1, RecordedAssumption, CrashAssumption DEF Init, TypeOK
<1>4. LeasesOK
  BY <1>1 DEF LeasesOK
<1>5. AttemptsOK
  BY <1>2 DEF Init, AttemptsOK, AttemptOK
<1>6. ConfirmedOnLedger
  BY <1>1 DEF Init, ConfirmedOnLedger
<1>q. QED
  BY <1>3, <1>4, <1>5, <1>6 DEF OutboxInv

LEMMA OutboxStep == OutboxInv /\ [Next]_vars => OutboxInv'
<1> SUFFICES ASSUME OutboxInv, [Next]_vars
             PROVE  OutboxInv'
  OBVIOUS
<1>1. ASSUME NEW r \in Records, Enqueue(r)
      PROVE  OutboxInv'
  BY <1>1, EnqueueStep
<1>2. ASSUME NEW r \in Records, LeaseExpires(r) \/ BackoffEnds(r)
      PROVE  OutboxInv'
  BY <1>2, ClockStep
<1>3. ASSUME NEW w \in Workers, NEW r \in Records, Lease(w, r)
      PROVE  OutboxInv'
  BY <1>3, LeaseStep
<1>4. ASSUME NEW w \in Workers, FindByLedgerKey(w)
      PROVE  OutboxInv'
  BY <1>4, FindByLedgerKeyStep
<1>5. ASSUME NEW w \in Workers, Submit(w)
      PROVE  OutboxInv'
  BY <1>5, SubmitStep
<1>6. ASSUME NEW w \in Workers, Confirm(w)
      PROVE  OutboxInv'
  BY <1>6, ConfirmStep
<1>7. ASSUME NEW w \in Workers, HandleFailure(w)
      PROVE  OutboxInv'
  BY <1>7, HandleFailureStep
<1>8. ASSUME NEW w \in Workers, GatewayUnavailable(w) \/ GatewayRejects(w)
      PROVE  OutboxInv'
  BY <1>8, GatewayStep
<1>9. ASSUME NEW w \in Workers, Crash(w)
      PROVE  OutboxInv'
  BY <1>9, CrashStep
<1>10. ASSUME NEW s \in inflight, NEW outcome \in {"committed", "permanent"},
              Validate(s, outcome)
       PROVE  OutboxInv'
  BY <1>10, ValidateStep
<1>11. CASE UNCHANGED vars
  BY <1>11 DEF OutboxInv, TypeOK, LeasesOK, AttemptsOK, AttemptOK, ConfirmedOnLedger, vars
<1>q. QED
  BY <1>1, <1>2, <1>3, <1>4, <1>5, <1>6, <1>7, <1>8, <1>9, <1>10, <1>11 DEF Next, WorkerStep

\* The lease discipline that the worker's proofs rest on is an invariant of the
\* outbox: only pending records that are due are leased, an attempt counts the
\* retries of the record it leased, and a worker believes in a commit only if
\* the key is on the ledger.
THEOREM OutboxInvariance == Spec => []OutboxInv
<1>q. QED
  BY InitOutbox, OutboxStep, PTL DEF Spec

\* A record that BlockchainOutboxWorker marks confirmed is on the ledger,
\* whatever attempts were stolen, timed out, repeated or lost in a crash.
THEOREM ConfirmedIsCommitted == Spec => []ConfirmedOnLedger
<1>1. OutboxInv => ConfirmedOnLedger
  BY DEF OutboxInv
<1>q. QED
  BY <1>1, OutboxInvariance, PTL

\* The end of an attempt changes no record that has been decided: its lease is gone.
LEMMA DecidedUnleased ==
  ASSUME OutboxInv, NEW r \in Records, tx[r].status \in {"confirmed", "failed"}
  PROVE  tx[r].lease = NoWorker /\ ~tx[r].live /\ tx[r].due
  BY DEF OutboxInv, LeasesOK

\* A confirmed or failed record is never written again, by no worker returning
\* from an attempt that outlived its lease and by no clock.
THEOREM DecidedIsFinal == Spec => Final
<1>1. ASSUME OutboxInv, [Next]_vars, NEW r \in Records, tx[r].status \in {"confirmed", "failed"}
      PROVE  tx'[r] = tx[r]
  <2>0. /\ tx[r].lease = NoWorker /\ ~tx[r].live /\ tx[r].due
        /\ tx \in [Records -> Document]
    BY <1>1, DecidedUnleased DEF OutboxInv, TypeOK
  <2>1. ASSUME NEW q \in Records, Enqueue(q) \/ LeaseExpires(q) \/ BackoffEnds(q)
        PROVE  tx'[r] = tx[r]
    BY <1>1, <2>0, <2>1 DEF Enqueue, LeaseExpires, BackoffEnds
  <2>2. ASSUME NEW w \in Workers, NEW q \in Records, Lease(w, q)
        PROVE  tx'[r] = tx[r]
    BY <1>1, <2>0, <2>2 DEF Lease, Eligible
  <2>3. ASSUME NEW w \in Workers, Confirm(w) \/ HandleFailure(w)
        PROVE  tx'[r] = tx[r]
    <3>1. OwnsLease(w) => attempt[w].record # r
      BY <2>0, <2>3, NullAssumption DEF OwnsLease
    <3>2. CASE Confirm(w)
      BY <2>0, <3>1, <3>2 DEF Confirm
    <3>3. CASE HandleFailure(w)
      BY <2>0, <3>1, <3>3 DEF HandleFailure
    <3>q. QED
      BY <2>3, <3>2, <3>3
  <2>4. ASSUME NEW w \in Workers,
               \/ FindByLedgerKey(w) \/ Submit(w) \/ Crash(w)
               \/ GatewayUnavailable(w) \/ GatewayRejects(w)
        PROVE  tx'[r] = tx[r]
    BY <2>4 DEF FindByLedgerKey, Submit, Crash, GatewayUnavailable, GatewayRejects
  <2>5. ASSUME NEW s \in inflight, NEW outcome \in {"committed", "permanent"},
               Validate(s, outcome)
        PROVE  tx'[r] = tx[r]
    BY <2>5 DEF Validate
  <2>6. CASE UNCHANGED vars
    BY <2>6 DEF vars
  <2>q. QED
    BY <1>1, <2>1, <2>2, <2>3, <2>4, <2>5, <2>6 DEF Next, WorkerStep
<1>2. OutboxInv /\ [Next]_vars
        => [\A r \in Records : tx[r].status \in {"confirmed", "failed"} => tx'[r] = tx[r]]_vars
  BY <1>1
<1>q. QED
  BY <1>2, OutboxInvariance, PTL DEF Spec, Final

\* The ledger only grows.
LEMMA LedgerGrows == [Next]_vars => ledger \subseteq ledger'
<1> SUFFICES ASSUME [Next]_vars
             PROVE  ledger \subseteq ledger'
  OBVIOUS
<1>1. ASSUME NEW s \in inflight, NEW outcome \in {"committed", "permanent"}, Validate(s, outcome)
      PROVE  ledger \subseteq ledger'
  BY <1>1 DEF Validate
<1>q. QED
  BY <1>1 DEF Next, WorkerStep, vars, Enqueue, LeaseExpires, BackoffEnds, Lease, FindByLedgerKey,
     Submit, Confirm, HandleFailure, GatewayUnavailable, GatewayRejects, Crash

-----------------------------------------------------------------------------
(* The readers *)

\* Readers only read: next to them the outbox runs as it does alone.
THEOREM ReadersDisturbNothing == TraceSpec => Spec
<1>1. AllInit => Init
  BY DEF AllInit
<1>2. [\/ Next /\ UNCHANGED traceVars
       \/ TraceNext]_allVars => [Next]_vars
  BY DEF allVars, TraceNext, ReadRecords, CheckOne, CheckFails, Reply, BrowseVerified, ApiRestart
<1>q. QED
  BY <1>1, <1>2, PTL DEF TraceSpec, Spec

LEMMA InitReader == AllInit => TraceTypeOK /\ ReaderOK
  BY ListedAssumption DEF AllInit, TraceInit, TraceTypeOK, Trace, NoCheck, ReaderOK

\* A confirmed record that is read is on the ledger.
LEMMA ConfirmedRecordsOnLedger ==
  ASSUME OutboxInv
  PROVE  ConfirmedRecords \subseteq ledger /\ ConfirmedRecords \subseteq Records
  BY DEF OutboxInv, ConfirmedOnLedger, ConfirmedRecords

LEMMA ReaderStep ==
  ASSUME IInv, TraceNext
  PROVE  TraceTypeOK' /\ ReaderOK'
<1>0. /\ trace \in Trace /\ verified \subseteq Records /\ browsed \subseteq Records
      /\ OutboxInv /\ ReaderOK /\ NoCheck \in [Records -> {"none", "verified", "not_found"}]
  BY DEF IInv, TraceTypeOK, NoCheck
<1>1. ASSUME NEW available \in BOOLEAN, ReadRecords(available)
      PROVE  TraceTypeOK' /\ ReaderOK'
  <2>1. /\ trace' \in Trace /\ trace'.shown = ConfirmedRecords
        /\ trace'.waiting \subseteq ConfirmedRecords \cup trace.waiting
        /\ ~trace'.originVerified /\ trace'.onChain = NoCheck
    BY <1>0, <1>1, ConfirmedRecordsOnLedger DEF ReadRecords, Trace
  <2>q. QED
    BY <1>0, <1>1, <2>1, ConfirmedRecordsOnLedger
       DEF ReadRecords, TraceTypeOK, ReaderOK, NoCheck, vars
<1>2. ASSUME NEW r \in Records, CheckOne(r)
      PROVE  TraceTypeOK' /\ ReaderOK'
  <2>1. r \in ledger
    BY <1>0, <1>2 DEF CheckOne, ReaderOK
  <2>2. /\ trace' \in Trace /\ trace'.shown = trace.shown
        /\ trace'.waiting \subseteq trace.waiting
        /\ trace'.originVerified = trace.originVerified
        /\ \A q \in Records : trace'.onChain[q] # "not_found"
    BY <1>0, <1>2, <2>1 DEF CheckOne, Trace, ReaderOK
  <2>q. QED
    BY <1>0, <1>2, <2>1, <2>2 DEF CheckOne, TraceTypeOK, ReaderOK, vars
<1>3. ASSUME NEW r \in Records, CheckFails(r)
      PROVE  TraceTypeOK' /\ ReaderOK'
  <2>1. /\ trace' \in Trace /\ trace'.shown = trace.shown
        /\ trace'.waiting \subseteq trace.waiting
        /\ trace'.originVerified = trace.originVerified
        /\ \A q \in Records : trace'.onChain[q] # "not_found"
    BY <1>0, <1>3 DEF CheckFails, Trace, ReaderOK, NoCheck
  <2>q. QED
    BY <1>0, <1>3, <2>1 DEF CheckFails, TraceTypeOK, ReaderOK, vars
<1>4. ASSUME Reply
      PROVE  TraceTypeOK' /\ ReaderOK'
  <2>1. /\ trace' \in Trace /\ trace'.shown = trace.shown
        /\ trace'.waiting = trace.waiting /\ trace'.onChain = trace.onChain
        /\ trace'.originVerified => Listed \in trace.shown
    BY <1>0, <1>4 DEF Reply, Trace, OriginVerified
  <2>q. QED
    BY <1>0, <1>4, <2>1 DEF Reply, TraceTypeOK, ReaderOK, vars
<1>5. ASSUME BrowseVerified
      PROVE  TraceTypeOK' /\ ReaderOK'
  BY <1>0, <1>5, ConfirmedRecordsOnLedger DEF BrowseVerified, TraceTypeOK, ReaderOK, vars
<1>6. ASSUME ApiRestart
      PROVE  TraceTypeOK' /\ ReaderOK'
  <2>1. /\ trace' \in Trace /\ trace'.shown = {} /\ trace'.waiting = {}
        /\ ~trace'.originVerified /\ trace'.onChain = NoCheck
    BY <1>0, <1>6 DEF ApiRestart, Trace
  <2>q. QED
    BY <1>0, <1>6, <2>1 DEF ApiRestart, TraceTypeOK, ReaderOK, NoCheck, vars
<1>q. QED
  BY <1>1, <1>2, <1>3, <1>4, <1>5, <1>6 DEF TraceNext

\* The inductive invariant of the outbox and its readers.
THEOREM Invariance == TraceSpec => []IInv
<1>1. AllInit => IInv
  BY InitOutbox, InitReader DEF AllInit, IInv
<1>2. IInv /\ [\/ Next /\ UNCHANGED traceVars
               \/ TraceNext]_allVars => IInv'
  <2> SUFFICES ASSUME IInv, [\/ Next /\ UNCHANGED traceVars
                             \/ TraceNext]_allVars
               PROVE  IInv'
    OBVIOUS
  <2>1. CASE TraceNext
    <3>1. UNCHANGED vars
      BY <2>1 DEF TraceNext, ReadRecords, CheckOne, CheckFails, Reply, BrowseVerified, ApiRestart
    <3>q. QED
      BY <2>1, <3>1, ReaderStep, OutboxStep DEF IInv
  <2>2. CASE [Next]_vars /\ UNCHANGED traceVars
    <3>1. OutboxInv' /\ ledger \subseteq ledger'
      BY <2>2, OutboxStep, LedgerGrows DEF IInv
    <3>q. QED
      BY <2>2, <3>1 DEF IInv, TraceTypeOK, ReaderOK, traceVars
  <2>q. QED
    BY <2>1, <2>2 DEF allVars
<1>q. QED
  BY <1>1, <1>2, PTL DEF TraceSpec

\* What a public trace and the verified-origin listing say of a product is true
\* of the ledger, although TraceabilityService and MarketplaceService act on
\* records they read earlier.
THEOREM TracesAreTrue == TraceSpec => []TraceTrue
<1>1. IInv => TraceTrue
  BY DEF IInv, OutboxInv, ReaderOK, TraceTrue
<1>q. QED
  BY <1>1, Invariance, PTL
=============================================================================
