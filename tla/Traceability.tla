---------------------------- MODULE Traceability ----------------------------
(***************************************************************************)
(* The public provenance of a product, read while the outbox worker runs:  *)
(* TraceabilityService reads the outbox records first and asks the Fabric  *)
(* peer about the confirmed ones later, in parallel, each with a timeout   *)
(* of its own; MarketplaceService lists the products whose origin record   *)
(* was confirmed when the first of its two queries ran.  The records are   *)
(* those of one product, Listed among them.                                *)
(***************************************************************************)
EXTENDS FabricOutbox

CONSTANT Listed   \* the record of the product's "listed" event

ASSUME ListedAssumption == Listed \in Records

VARIABLES
  trace,     \* the trace request in progress, or the last one answered
  verified,  \* verifiedKeys: positive checks, cached for the life of the process
  browsed    \* records found confirmed by a listing with verifiedOrigin

traceVars == <<trace, verified, browsed>>
allVars   == <<vars, traceVars>>

\* shown: events read as confirmed; waiting: checks that have not answered,
\* also those of a request that was answered without them.
Trace == [pc: {"idle", "checking", "unavailable", "answered"}, shown: SUBSET Records,
          waiting: SUBSET Records, onChain: [Records -> {"none", "verified", "not_found"}],
          originVerified: BOOLEAN]

NoCheck == [r \in Records |-> "none"]

TraceTypeOK ==
  /\ trace \in Trace
  /\ verified \subseteq Records
  /\ browsed \subseteq Records

TraceInit ==
  /\ trace = [pc |-> "idle", shown |-> {}, waiting |-> {}, onChain |-> NoCheck,
              originVerified |-> FALSE]
  /\ verified = {}
  /\ browsed = {}

ConfirmedRecords == {r \in Records : tx[r].status = "confirmed"}

\* traceProduct: the records are read, and a check is started for each that is
\* confirmed; without a connection to Fabric there is nothing to wait for.
ReadRecords(available) ==
  /\ trace.pc \in {"idle", "answered"}
  /\ trace' = [trace EXCEPT !.pc = IF available THEN "checking" ELSE "unavailable",
                            !.shown = ConfirmedRecords,
                            !.waiting = IF available THEN ConfirmedRecords ELSE @,
                            !.onChain = NoCheck,
                            !.originVerified = FALSE]
  /\ UNCHANGED <<vars, verified, browsed>>

\* checkOne: a cached verification is not repeated, any other key is read from
\* the peer.  A check that answers after its request only feeds the cache.
CheckOne(r) ==
  LET found == r \in verified \cup ledger IN
  /\ r \in trace.waiting
  /\ trace' = [trace EXCEPT !.waiting = @ \ {r},
                            !.onChain[r] = IF trace.pc = "answered" THEN @
                                           ELSE IF found THEN "verified" ELSE "not_found"]
  /\ verified' = IF found THEN verified \cup {r} ELSE verified
  /\ UNCHANGED <<vars, browsed>>

\* One check times out or fails: the results of all of them are dropped, and
\* those still under way may write theirs before the answer is built.
CheckFails(r) ==
  /\ r \in trace.waiting
  /\ trace' = [trace EXCEPT !.pc = IF @ = "checking" THEN "unavailable" ELSE @,
                            !.waiting = @ \ {r},
                            !.onChain = IF trace.pc = "checking" THEN NoCheck ELSE @]
  /\ UNCHANGED <<vars, verified, browsed>>

\* Mutant: an origin without a check counts as verified, confirmed or not.
OriginVerifiedUnlessDisputed == trace.onChain[Listed] # "not_found"

\* Confirmed by the worker and, when the peer answered, found on the ledger.
OriginVerified == /\ Listed \in trace.shown
                  /\ trace.onChain[Listed] \in {"none", "verified"}

\* The answer is built when every check has answered or one has failed.
Reply ==
  /\ \/ trace.pc = "checking" /\ trace.waiting = {}
     \/ trace.pc = "unavailable"
  /\ trace' = [trace EXCEPT !.pc = "answered", !.originVerified = OriginVerified]
  /\ UNCHANGED <<vars, verified, browsed>>

\* findAll with verifiedOrigin: the confirmed origins are read before the page.
BrowseVerified ==
  /\ browsed' = ConfirmedRecords \cap {Listed}
  /\ UNCHANGED <<vars, trace, verified>>

\* The API process is restarted: the request, its checks and the cache are lost.
ApiRestart ==
  /\ trace' = [trace EXCEPT !.pc = "idle", !.shown = {}, !.waiting = {}, !.onChain = NoCheck,
                            !.originVerified = FALSE]
  /\ verified' = {}
  /\ UNCHANGED <<vars, browsed>>

-----------------------------------------------------------------------------
TraceNext ==
  \/ \E available \in BOOLEAN : ReadRecords(available)
  \/ \E r \in Records : CheckOne(r) \/ CheckFails(r)
  \/ Reply
  \/ BrowseVerified
  \/ ApiRestart

AllInit == Init /\ TraceInit

TraceSpec == /\ AllInit
             /\ [][\/ Next /\ UNCHANGED traceVars
                   \/ TraceNext]_allVars
             /\ Fairness

-----------------------------------------------------------------------------
(* Properties *)

\* What the public trace and the verified-origin listing say is true, although
\* both use records read before a step of the worker, a restart or a cached
\* check: an origin shown as verified is on the ledger, and no trace disputes a
\* record that the worker has confirmed.
TraceTrue ==
  /\ TypeOK /\ TraceTypeOK
  /\ trace.pc = "answered" /\ trace.originVerified => Listed \in ledger
  /\ browsed \cup verified \subseteq ledger
  /\ \A r \in Records : trace.onChain[r] # "not_found"
=============================================================================
