----------------------------- MODULE DeployAgent -----------------------------
(***************************************************************************)
(* The release consumer of the production host (ops/deploy-agent.py): a    *)
(* timer starts it, it recovers what an earlier run left unfinished, and   *)
(* deploys what was merged: an image by candidate, switch and probe, the   *)
(* chaincode by snapshot and upgrade.                                      *)
(*                                                                         *)
(* Every command and every file it writes is a step.  A step may fail or   *)
(* time out half done, which raises an exception, and the run may be       *)
(* killed between two steps (systemd's timeout, a reboot).  What survives  *)
(* are the files (receipt, journal, env, current, marker) and containers.  *)
(* One lock admits one run.                                                *)
(***************************************************************************)
EXTENDS Naturals

CONSTANTS
  Images,     \* components deployed as images: "backend" and possibly "ai"
  Last,       \* Last[c]: the last commit merged to main; 0 is the installed one
  Content,    \* Content[c][r]: what release r of c consists of
  Broken,     \* contents of c that do not answer, as a candidate or at all
  Unfit,      \* contents of c that answer, but fail the dependency probe
  MaxFaults   \* kills and failing commands (bounds the model)

Components  == Images \cup {"blockchain"}
Releases(c) == 0..Last[c]
Services    == Images \cup {"worker"}
Containers  == Services \cup {"fabric"}
Rank        == [blockchain |-> 0, ai |-> 1, backend |-> 2]  \* the order of a run

ASSUME ImageAssumption   == "backend" \in Images /\ Images \subseteq {"backend", "ai"}
ASSUME ReleaseAssumption == Last \in [Components -> Nat] /\ MaxFaults \in Nat
ASSUME ContentAssumption ==
  \A c \in Components : Content[c] \in [Releases(c) -> Nat] /\ Content[c][0] \notin Broken[c] \cup Unfit[c]

VARIABLES
  main,       \* the head of each main branch
  published,  \* components whose head CI has published as a release
  receipt,    \* STATE/<component>.json
  journal,    \* STATE/transaction.json
  marker,     \* STATE/backup-in-progress.json: was the worker running?
  env,        \* deployment-images.env
  current,    \* STATE/chaincode-current.json
  image,      \* the images the containers were created from
  chaincode,  \* the chaincode committed on the channel
  up,         \* containers that run
  agent,      \* the run in progress
  faults

outside == <<main, published>>
files   == <<receipt, journal, marker, env, current>>
host    == <<image, chaincode, up>>
vars    == <<outside, files, host, agent, faults>>

Statuses  == {"success", "deploying", "failed", "rolled_back", "superseded", "retry_requested"}
NoJournal == [component |-> "none", sha |-> 0, images |-> <<>>, chaincode |-> 0, phase |-> "none"]
Idle      == [pc |-> "idle", todo |-> {}, component |-> "none", sha |-> 0, switched |-> FALSE,
              recovered |-> FALSE, claimed |-> FALSE, recovering |-> FALSE]

TypeOK ==
  /\ \A c \in Components :
       /\ main[c] \in Releases(c)
       /\ receipt[c].status \in Statuses
       /\ {receipt[c].deployed, receipt[c].attempted} \subseteq Releases(c)
  /\ published \subseteq Components /\ marker \in {"none", "worker", "no worker"}
  /\ journal # NoJournal =>
       /\ journal.sha \in Releases(journal.component)
       /\ journal.phase \in IF journal.component \in Images THEN {"image"} ELSE {"preparing", "upgrading"}
  /\ \A c \in Images : env[c] \in Releases(c) /\ image[c] \in Releases(c)
  /\ {current, chaincode} \subseteq Releases("blockchain") /\ up \subseteq Containers
  /\ agent.pc # "idle" => agent.todo \subseteq Components
  /\ faults \in 0..MaxFaults

Init ==
  /\ main = [c \in Components |-> 0] /\ published = {}
  /\ receipt = [c \in Components |-> [status |-> "success", deployed |-> 0, attempted |-> 0]]
  /\ journal = NoJournal /\ marker = "none"
  /\ env = [c \in Images |-> 0] /\ current = 0
  /\ image = [s \in Services |-> 0] /\ chaincode = 0 /\ up = Containers
  /\ agent = Idle /\ faults = 0

-----------------------------------------------------------------------------
(* Health, commands and exceptions *)

\* The backend and the worker are switched together.
With(c)     == CASE c = "backend" -> {"backend", "worker"} [] c = "blockchain" -> {"worker"} [] OTHER -> {c}
ImageOf(s)  == IF s = "worker" THEN "backend" ELSE s
Answers(c, r) == Content[c][r] \notin Broken[c]
Fit(c, r)     == Content[c][r] \notin Broken[c] \cup Unfit[c]

\* wait_http asks the switched service; readiness.cjs in the worker asks its
\* database, the ledger and the AI service.
Answering(c)    == c \in Images => c \in up /\ Answers(c, image[c])
DependencyProbe ==
  /\ {"worker", "fabric"} \subseteq up /\ Fit("blockchain", chaincode)
  /\ Fit("backend", image["worker"])
  /\ "ai" \in Images => "ai" \in up /\ Fit("ai", image["ai"])
Probe(c)        == Answering(c) /\ DependencyProbe

\* wait_fabric asks for the channel only, verify has the chaincode answer.
FabricVerified(S) == "fabric" \in S /\ Answers("blockchain", chaincode)
FabricReady(S)    == "fabric" \in S

\* docker compose up -d creates containers from the images in env.
Created(S) == [s \in Services |-> IF s \in S THEN env[ImageOf(s)] ELSE image[s]]

At(pc)   == agent.pc = pc
Goto(pc) == agent' = [agent EXCEPT !.pc = pc]
Poll     == agent' = [Idle EXCEPT !.pc = "poll", !.todo = agent.todo]
PollAll  == agent' = [Idle EXCEPT !.pc = "poll", !.todo = Components]
Exit     == agent' = Idle
Tried    == {"candidate", "stop", "start", "probe", "deploy"}
\* An exception ends a recovery; in the activation it undoes it; anywhere
\* else process records the failure.
Raise    == IF agent.recovering THEN Exit
            ELSE Goto(IF agent.pc \in Tried THEN "undo" ELSE "fail")
Fault    == faults < MaxFaults /\ faults' = faults + 1
NoFault  == UNCHANGED faults

-----------------------------------------------------------------------------
(* recover_interrupted *)

Timer == At("idle") /\ Goto("recover") /\ NoFault /\ UNCHANGED <<outside, files, host>>

\* A backup that did not end: Fabric is started again, and the worker unless
\* a deployment is to be recovered as well.
RecoverBackup ==
  LET S == IF marker = "worker" /\ journal = NoJournal THEN {"fabric", "worker"} ELSE {"fabric"} IN
  /\ At("recover")
  /\ \/ marker = "none" /\ Goto("resume") /\ NoFault /\ UNCHANGED <<marker, image, up>>
     \/ marker # "none" /\ marker' = "none" /\ up' = up \cup S /\ image' = Created(S)
        /\ Goto("resume") /\ NoFault
     \/ marker # "none" /\ Fault /\ Exit
        /\ \E T \in {{}, {"fabric"}, S} : up' = up \cup T /\ image' = Created(T)
        /\ UNCHANGED marker
  /\ UNCHANGED <<outside, receipt, journal, env, current, chaincode>>

Succeeded == receipt[journal.component].status = "success"
             /\ receipt[journal.component].deployed = journal.sha

Resume ==
  /\ At("resume")
  /\ \/ journal = NoJournal /\ PollAll /\ UNCHANGED journal
     \/ journal # NoJournal /\ Succeeded /\ journal' = NoJournal /\ PollAll
     \/ /\ journal # NoJournal /\ ~Succeeded /\ UNCHANGED journal
        /\ agent' = [agent EXCEPT !.component = journal.component, !.sha = journal.sha,
                                  !.recovering = TRUE,
                                  !.pc = IF journal.component \in Images THEN "undo" ELSE "quiet"]
  /\ NoFault /\ UNCHANGED <<outside, receipt, marker, env, current, host>>

\* Fabric is started and waited for, the worker stopped.  The wait does not
\* depend on a chaincode that may be the broken new one.
Quiet ==
  LET started == up \cup {"fabric"} IN
  /\ At("quiet") /\ UNCHANGED <<outside, files, image, chaincode>>
  /\ \/ NoFault /\ IF FabricReady(started) THEN up' = started \ {"worker"} /\ Goto("undo")
                   ELSE up' = started /\ Raise
     \/ up' \in {up, up \cup {"fabric"}} /\ Raise /\ Fault

\* Puts back what the journal remembers: the env file, or the previous
\* package at a higher sequence (and, in a recovery, its record).
Undone == IF agent.recovering \/ agent.switched \/ agent.component = "blockchain"
          THEN Goto("back")
          ELSE agent' = [agent EXCEPT !.pc = "fail", !.recovered = TRUE]
Undo ==
  /\ At("undo") /\ UNCHANGED <<outside, receipt, journal, marker, image, up>>
  /\ \/ /\ agent.component \in Images /\ env' = journal.images /\ UNCHANGED <<chaincode, current>>
        /\ Undone /\ NoFault
     \/ /\ agent.component = "blockchain" /\ UNCHANGED env
        /\ chaincode' = IF journal.phase = "preparing" THEN chaincode ELSE journal.chaincode
        /\ current' = IF agent.recovering THEN journal.chaincode ELSE current
        /\ Undone /\ NoFault
     \/ /\ Raise /\ Fault /\ UNCHANGED <<env, current>>
        /\ chaincode' \in IF journal.phase = "upgrading" THEN {chaincode, journal.chaincode} ELSE {chaincode}

\* docker compose up -d, in the activation and in the recovery.
Start ==
  /\ agent.pc \in {"start", "back"} /\ UNCHANGED <<outside, files, chaincode>>
  /\ \/ /\ up' = up \cup With(agent.component) /\ image' = Created(With(agent.component))
        /\ Goto(IF At("start") THEN "probe" ELSE "recheck") /\ NoFault
     \/ /\ \E S \in SUBSET With(agent.component) : up' = up \cup S /\ image' = Created(S)
        /\ Raise /\ Fault

Rechecked == IF agent.recovering THEN Goto("report")
             ELSE agent' = [agent EXCEPT !.pc = "fail", !.recovered = TRUE]
Recheck ==
  /\ At("recheck") /\ UNCHANGED <<outside, files, host>>
  /\ \/ NoFault /\ IF Probe(agent.component) THEN Rechecked ELSE Raise
     \/ Raise /\ Fault

Report ==
  /\ At("report") /\ UNCHANGED <<outside, journal, marker, env, current, host>>
  /\ \/ /\ receipt' = [receipt EXCEPT ![agent.component].status = "rolled_back",
                                      ![agent.component].attempted = agent.sha]
        /\ Goto("forget") /\ NoFault
     \/ Raise /\ Fault /\ UNCHANGED receipt

Forget ==
  /\ At("forget") /\ UNCHANGED <<outside, receipt, marker, env, current, host>>
  /\ \/ journal' = NoJournal /\ PollAll /\ NoFault
     \/ Raise /\ Fault /\ UNCHANGED journal

-----------------------------------------------------------------------------
(* process *)

\* Mutant: a commit is attempted once.
ShouldAttemptOnce(c, r) == r \notin {receipt[c].deployed, receipt[c].attempted}
ShouldAttempt(c, r) ==
  ~ \/ receipt[c].deployed = r
    \/ receipt[c].attempted = r /\ receipt[c].status \in {"failed", "rolled_back"}

\* The next component of the run: its main branch is read, and a published
\* commit that should be attempted is recorded as deploying.
Process ==
  /\ At("poll") /\ UNCHANGED <<outside, journal, marker, env, current, host>>
  /\ \/ agent.todo = {} /\ Exit /\ NoFault /\ UNCHANGED receipt
     \/ \E c \in agent.todo :
          /\ \A d \in agent.todo : Rank[c] <= Rank[d]
          /\ LET skip == agent' = [agent EXCEPT !.todo = @ \ {c}] /\ UNCHANGED receipt IN
             \/ skip /\ Fault
             \/ ~(ShouldAttempt(c, main[c]) /\ c \in published) /\ skip /\ NoFault
             \/ /\ ShouldAttempt(c, main[c]) /\ c \in published
                /\ receipt' = [receipt EXCEPT ![c].status = "deploying", ![c].attempted = main[c]]
                /\ agent' = [agent EXCEPT !.pc = "fetch", !.todo = @ \ {c},
                                          !.component = c, !.sha = main[c]]
                /\ NoFault

\* Downloads, checks of digest and provenance, and a second look at main.
Fetch ==
  /\ At("fetch") /\ UNCHANGED <<outside, journal, marker, env, current, host>>
  /\ \/ main[agent.component] # agent.sha /\ NoFault /\ Poll
        /\ receipt' = [receipt EXCEPT ![agent.component].status = "superseded"]
     \/ main[agent.component] = agent.sha /\ NoFault /\ UNCHANGED receipt
        /\ Goto(IF agent.component \in Images THEN "load" ELSE "check")
     \/ Raise /\ Fault /\ UNCHANGED receipt

(* deploy_image *)
Load ==
  /\ At("load") /\ UNCHANGED <<outside, receipt, marker, env, current, host>>
  /\ \/ /\ journal' = [component |-> agent.component, sha |-> agent.sha, images |-> env,
                       chaincode |-> 0, phase |-> "image"]
        /\ Goto("env") /\ NoFault
     \/ Raise /\ Fault /\ UNCHANGED journal

WriteEnv ==
  LET new == [env EXCEPT ![agent.component] = agent.sha] IN
  /\ At("env") /\ UNCHANGED <<outside, receipt, journal, marker, current, host>>
  /\ \/ env' = new /\ Goto("candidate") /\ NoFault
     \/ env' \in {env, new} /\ Raise /\ Fault

\* The candidate runs beside the running service, which is left alone when
\* the candidate does not answer or main has moved on.
Candidate ==
  LET accepted == Answers(agent.component, agent.sha) /\ main[agent.component] = agent.sha IN
  /\ At("candidate") /\ UNCHANGED <<outside, files, host>>
  /\ \/ NoFault /\ IF accepted THEN agent' = [agent EXCEPT !.switched = TRUE, !.pc = "stop"]
                   ELSE Raise
     \/ Raise /\ Fault

Stop ==
  /\ At("stop") /\ UNCHANGED <<outside, files, image, chaincode>>
  /\ \/ up' = up \ With(agent.component) /\ Goto("start") /\ NoFault
     \/ \E S \in SUBSET With(agent.component) : up' = up \ S /\ Raise /\ Fault

ProbeNew ==
  /\ At("probe") /\ UNCHANGED <<outside, files, host>>
  /\ \/ NoFault /\ IF Probe(agent.component)
                   THEN Goto(IF agent.component \in Images THEN "cleanup" ELSE "record")
                   ELSE Raise
     \/ Raise /\ Fault

\* Removing the candidate may time out, after the try block.
Cleanup ==
  /\ At("cleanup") /\ UNCHANGED <<outside, files, host>>
  /\ \/ Goto("succeed") /\ NoFault
     \/ Raise /\ Fault

(* deploy_blockchain and backup.sh *)
Check ==
  LET same == Content["blockchain"][current] = Content["blockchain"][agent.sha] IN
  /\ At("check") /\ UNCHANGED <<outside, receipt, marker, env, current, host>>
  /\ \/ same /\ NoFault /\ UNCHANGED journal
        /\ IF FabricVerified(up) THEN Goto("succeed") ELSE Raise
     \/ /\ ~same /\ Goto("backup") /\ NoFault
        /\ journal' = [component |-> "blockchain", sha |-> agent.sha, images |-> env,
                       chaincode |-> current, phase |-> "preparing"]
     \/ Raise /\ Fault /\ UNCHANGED journal

Backup ==
  /\ At("backup") /\ UNCHANGED <<outside, receipt, journal, env, current, host>>
  /\ \/ marker' = (IF "worker" \in up THEN "worker" ELSE "no worker") /\ Goto("snapshot") /\ NoFault
     \/ Raise /\ Fault /\ UNCHANGED marker

\* What the snapshot stops, and what its exit trap starts again.
Snapped   == {"fabric", "worker"}
Restarted == IF marker = "worker" THEN Snapped ELSE {"fabric"}
Snapshot ==
  /\ At("snapshot") /\ UNCHANGED <<outside, receipt, journal, env, current, image, chaincode>>
  /\ \/ up' = up \ Snapped /\ Goto("restart") /\ NoFault /\ UNCHANGED marker
     \/ up' = up \cup Restarted /\ marker' = "none" /\ Raise /\ Fault
     \/ \E S \in SUBSET Snapped : up' = up \ S /\ Raise /\ Fault /\ UNCHANGED marker

Restart ==
  /\ At("restart") /\ UNCHANGED <<outside, receipt, journal, env, current, chaincode>>
  /\ \/ up' = up \cup Restarted /\ image' = Created(Restarted) /\ marker' = "none"
        /\ Goto("halt") /\ NoFault
     \/ \E S \in {{}, {"fabric"}, Restarted} : up' = up \cup S /\ image' = Created(S)
        /\ Raise /\ Fault /\ UNCHANGED marker

Halt ==
  /\ At("halt") /\ UNCHANGED <<outside, files, image, chaincode>>
  /\ \/ up' = up \ {"worker"} /\ Goto("upgrade") /\ NoFault
     \/ up' \in {up, up \ {"worker"}} /\ Raise /\ Fault

Upgrading == "upgrading"
Upgrade ==
  /\ At("upgrade") /\ UNCHANGED <<outside, receipt, marker, env, current, host>>
  /\ \/ journal' = [journal EXCEPT !.phase = Upgrading] /\ Goto("deploy") /\ NoFault
     \/ Raise /\ Fault /\ UNCHANGED journal

\* fabric-release.sh deploy: the commit may succeed and what follows it fail.
Deploy ==
  /\ At("deploy") /\ UNCHANGED <<outside, files, image, up>>
  /\ \/ chaincode' = agent.sha /\ NoFault
        /\ IF Answers("blockchain", agent.sha) THEN Goto("start") ELSE Raise
     \/ chaincode' \in {chaincode, agent.sha} /\ Raise /\ Fault

Record ==
  /\ At("record") /\ UNCHANGED <<outside, receipt, journal, marker, env, host>>
  /\ \/ current' = agent.sha /\ Goto("succeed") /\ NoFault
     \/ Raise /\ Fault /\ UNCHANGED current

(* the end of process *)

\* The receipt claims the release before it is written, so that a failing
\* write, or unlink, leaves the claim in the receipt of the failure.
RaiseClaimed == agent' = [agent EXCEPT !.pc = "fail", !.claimed = TRUE]
\* Mutant: main is read again for the receipt.
DeployedHead == main[agent.component]
Deployed     == agent.sha
Succeed ==
  /\ At("succeed") /\ UNCHANGED <<outside, journal, marker, env, current, host>>
  /\ \/ receipt' = [receipt EXCEPT ![agent.component] =
                      [status |-> "success", deployed |-> Deployed, attempted |-> agent.sha]]
        /\ Goto("unlink") /\ NoFault
     \/ RaiseClaimed /\ Fault /\ UNCHANGED receipt

Unlink ==
  /\ At("unlink") /\ UNCHANGED <<outside, receipt, marker, env, current, host>>
  /\ \/ journal' = NoJournal /\ Poll /\ NoFault
     \/ RaiseClaimed /\ Fault /\ UNCHANGED journal

\* Mutant: the run goes on with the next component.
LeaveNever == Poll
\* An exception that leaves process ends the run while a journal is there.
Leave == IF journal = NoJournal THEN Poll ELSE Exit
Fail ==
  /\ At("fail") /\ UNCHANGED <<outside, journal, marker, env, current, host>>
  /\ \/ /\ receipt' = [receipt EXCEPT ![agent.component] =
              [status    |-> IF agent.recovered THEN "rolled_back" ELSE "failed",
               deployed  |-> IF agent.claimed THEN agent.sha ELSE @.deployed,
               attempted |-> agent.sha]]
        /\ Goto("failed") /\ NoFault
     \/ Leave /\ Fault /\ UNCHANGED receipt

\* Mutant: the journal is dropped after every failure.
ClearsAlways  == TRUE
Clears        == agent.recovered
Failed ==
  /\ At("failed") /\ UNCHANGED <<outside, receipt, marker, env, current, host>>
  /\ \/ Clears /\ journal' = NoJournal /\ Poll /\ NoFault
     \/ ~Clears /\ UNCHANGED journal /\ Leave /\ NoFault
     \/ Clears /\ UNCHANGED journal /\ Leave /\ Fault

-----------------------------------------------------------------------------
(* The outside world *)

Merge(c)   == main[c] < Last[c] /\ main' = [main EXCEPT ![c] = @ + 1] /\ published' = published \ {c}
              /\ UNCHANGED <<files, host, agent, faults>>
Publish(c) == main[c] > 0 /\ published' = published \cup {c}
              /\ UNCHANGED <<main, files, host, agent, faults>>
\* f2fctl retry takes the same lock.
Retry(c) ==
  /\ At("idle") /\ receipt[c].status \in {"failed", "rolled_back"}
  /\ receipt' = [receipt EXCEPT ![c].status = "retry_requested"]
  /\ UNCHANGED <<outside, journal, marker, env, current, host, agent, faults>>
Kill == ~At("idle") /\ Exit /\ Fault /\ UNCHANGED <<outside, files, host>>

Recovery == RecoverBackup \/ Resume \/ Quiet \/ Undo \/ Recheck \/ Report \/ Forget
Image    == Load \/ WriteEnv \/ Candidate \/ Stop \/ Cleanup
Ledger   == Check \/ Backup \/ Snapshot \/ Restart \/ Halt \/ Upgrade \/ Deploy \/ Record
Run      == Timer \/ Recovery \/ Process \/ Fetch \/ Image \/ Ledger \/ Start \/ ProbeNew
            \/ Succeed \/ Unlink \/ Fail \/ Failed
Next     == Run \/ Kill \/ \E c \in Components : Merge(c) \/ Publish(c) \/ Retry(c)
Spec     == Init /\ [][Next]_vars
\* The timer fires again after every run, and a run takes its next step.
FairSpec == Spec /\ WF_vars(Run)

-----------------------------------------------------------------------------
(* Properties *)

\* A receipt that says success names the release that runs.
ReceiptTrue ==
  \A c \in Components : receipt[c].status = "success" =>
    IF c \in Images THEN \A s \in Services : ImageOf(s) = c => image[s] = receipt[c].deployed
    ELSE Content[c][chaincode] = Content[c][receipt[c].deployed]

\* When nothing is outstanding, nothing is half done: whatever failed or was
\* interrupted, everything runs, from the images and the chaincode on file,
\* and none of them is a release that does not work.
NothingHalfDone ==
  /\ TypeOK
  /\ journal = NoJournal /\ marker = "none" /\ agent.pc \in {"idle", "poll"} =>
       /\ up = Containers
       /\ \A s \in Services : image[s] = env[ImageOf(s)] /\ Fit(ImageOf(s), image[s])
       /\ Content["blockchain"][chaincode] = Content["blockchain"][current]
       /\ Fit("blockchain", chaincode)

\* What runs is replaced only under a journal that can put it back, and no
\* other deployment begins before that one has succeeded or been undone.
OneUndoableActivation ==
  [][ /\ journal # NoJournal /\ journal' # NoJournal =>
           journal' \in {journal, [journal EXCEPT !.phase = "upgrading"]}
      /\ <<image, chaincode>>' # <<image, chaincode>> => journal # NoJournal ]_vars

\* An activation that failed or was interrupted is put to an end.
Recovers == journal # NoJournal ~> journal = NoJournal

\* A published head of main is deployed or reported as failed, or main moves on.
ReleaseDecided ==
  \A c \in Components : \A r \in 1..Last[c] :
    main[c] = r /\ c \in published ~>
      \/ main[c] # r \/ receipt[c].deployed = r
      \/ receipt[c].attempted = r /\ receipt[c].status \in {"failed", "rolled_back"}
=============================================================================
