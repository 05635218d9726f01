--------------------------- MODULE DeployAgentProofs ---------------------------
(***************************************************************************)
(* Safety of the deploy agent, for all components that are deployed as     *)
(* images, all sequences of releases, whichever of them work, and any      *)
(* number of kills and failing commands.                                   *)
(*                                                                         *)
(* The invariant has two halves.  World is about what survives a run: it   *)
(* holds whenever the run may be killed.  AgentOK adds what the run knows  *)
(* at each step.                                                           *)
(***************************************************************************)
EXTENDS DeployAgent, TLAPS

-----------------------------------------------------------------------------
(* What survives a run *)

Receipt == [status: Statuses, deployed: Nat, attempted: Nat]
Journal == [component: Components, sha: Nat, images: [Images -> Nat], chaincode: Nat,
            phase: {"image", "preparing", "upgrading"}]

WorldType ==
  /\ main \in [Components -> Nat] /\ \A c \in Components : main[c] \in Releases(c)
  /\ published \subseteq Components
  /\ receipt \in [Components -> Receipt]
  /\ \A c \in Components : {receipt[c].deployed, receipt[c].attempted} \subseteq Releases(c)
  /\ marker \in {"none", "worker", "no worker"}
  /\ env \in [Images -> Nat] /\ \A c \in Images : env[c] \in Releases(c)
  /\ image \in [Services -> Nat] /\ \A s \in Services : image[s] \in Releases(ImageOf(s))
  /\ {current, chaincode} \subseteq Releases("blockchain")
  /\ up \subseteq Containers
  /\ faults \in 0..MaxFaults

JournalType ==
  /\ journal \in Journal
  /\ journal.sha \in Releases(journal.component)
  /\ \A c \in Images : journal.images[c] \in Releases(c)
  /\ journal.chaincode \in Releases("blockchain")
  /\ journal.phase \in IF journal.component \in Images THEN {"image"} ELSE {"preparing", "upgrading"}

\* The chaincode on the channel is what the file says; the containers are of the
\* images in the env file.
Filed    == Content["blockchain"][chaincode] = Content["blockchain"][current]
FromFile == \A s \in Services : image[s] = env[ImageOf(s)]

\* Everything runs, from what is on file, and works.
AllFit == (\A s \in Services : Fit(ImageOf(s), image[s])) /\ Fit("blockchain", chaincode)
Whole  == up = Containers /\ marker = "none" /\ FromFile /\ Filed /\ AllFit

\* The containers that a deployment of c may stop.
Touched(c) == With(c) \cup (IF c = "blockchain" THEN {"fabric"} ELSE {})

\* What the journal must put back is all that can be out of order.
Undoable ==
  /\ Containers \ Touched(journal.component) \subseteq up
  /\ \A s \in Services : ImageOf(s) # journal.component => image[s] = env[ImageOf(s)]
  /\ \A c \in Images \ {journal.component} :
       journal.component \in Images => env[c] = journal.images[c]
  /\ journal.phase # "upgrading" => Filed
  /\ journal.phase = "preparing" => current = journal.chaincode

\* A receipt that says success while there is a journal was written by the
\* deployment in the journal, at its end.
ReceiptOK ==
  receipt[journal.component].status = "success" =>
    Whole /\ receipt[journal.component].deployed = journal.sha

World ==
  /\ WorldType
  /\ journal = NoJournal => Whole
  /\ journal # NoJournal => JournalType /\ Undoable /\ ReceiptOK
  /\ ReceiptTrue

-----------------------------------------------------------------------------
(* What a run knows *)

Polling  == {"fetch", "load", "check"}             \* no journal yet
ImageOnly  == {"load", "env", "candidate", "stop", "cleanup"}
LedgerOnly == {"check", "backup", "snapshot", "restart", "halt", "upgrade", "deploy", "record", "quiet"}
Undoing  == {"undo", "back", "recheck"}
Ending   == {"succeed", "unlink", "fail", "failed"}  \* with or without a journal
Recovering == {"quiet", "report", "forget"} \cup Undoing
Activation == {"env", "candidate", "stop", "start", "probe", "cleanup", "backup", "snapshot",
               "restart", "halt", "upgrade", "deploy", "record"}
Journaled == Activation \cup Recovering
Working   == Polling \cup Journaled \cup Ending
Resting   == {"idle", "recover", "resume", "poll"}

AgentType ==
  agent \in [pc: Working \cup Resting, todo: SUBSET Components, component: Components \cup {"none"},
             sha: Nat, switched: BOOLEAN, recovered: BOOLEAN, claimed: BOOLEAN, recovering: BOOLEAN]

\* Local variables are set in the steps that know them.
FlagsOK ==
  /\ agent.recovering => agent.pc \in Recovering
  /\ agent.pc \in {"quiet", "report", "forget"} => agent.recovering
  /\ agent.recovered \/ agent.claimed => agent.pc \in {"fail", "failed"}
  /\ agent.pc \in Resting \cup Polling \cup {"env", "candidate"} => ~agent.switched
  /\ agent.pc \in {"stop", "start", "probe"} /\ agent.component \in Images => agent.switched

\* The run and the journal are about the same release; until the end its
\* receipt does not say success.
ReleaseOK ==
  /\ agent.pc \in Working => agent.component \in Components /\ agent.sha \in Releases(agent.component)
  /\ agent.pc \in ImageOnly => agent.component \in Images
  /\ agent.pc \in LedgerOnly => agent.component = "blockchain"
  /\ agent.pc \in Polling \cup {"poll"} => journal = NoJournal
  /\ agent.pc \in Journaled => journal # NoJournal
  /\ agent.pc \in Working /\ journal # NoJournal =>
       journal.component = agent.component /\ journal.sha = agent.sha
  /\ agent.pc \in Working \ {"unlink", "fail", "failed"} =>
       receipt[agent.component].status # "success"

\* A backup is in progress only until it has ended or was recovered.
MarkerOK == marker # "none" => agent.pc \in {"idle", "recover", "snapshot", "restart", "fail", "failed"}

\* The running service was left alone.
Untouched ==
  /\ up = Containers /\ Filed /\ AllFit
  /\ \A s \in Services : image[s] = journal.images[ImageOf(s)]

\* What runs is the release that is being deployed.
RunsRelease ==
  IF agent.component \in Images THEN \A s \in Services : ImageOf(s) = agent.component => image[s] = agent.sha
  ELSE Content["blockchain"][chaincode] = Content["blockchain"][agent.sha]

ActivationOK ==
  /\ agent.pc \in {"env", "candidate"} => Untouched
  /\ agent.pc \in {"candidate", "stop", "start", "probe"} /\ agent.component \in Images =>
       env[agent.component] = agent.sha
  /\ agent.pc \in {"backup", "snapshot", "restart", "halt", "upgrade"} => journal.phase = "preparing"
  /\ agent.pc \in {"deploy", "start", "probe", "record"} /\ agent.component = "blockchain" =>
       journal.phase = "upgrading"
  /\ agent.pc \in {"deploy", "start", "probe"} /\ agent.component = "blockchain" =>
       current = journal.chaincode
  /\ agent.pc \in {"start", "probe", "record"} /\ agent.component = "blockchain" => chaincode = agent.sha
  /\ agent.pc \in {"probe", "record"} => FromFile
  /\ agent.pc = "record" => up = Containers /\ AllFit
  /\ agent.pc \in {"cleanup", "succeed"} => Whole /\ RunsRelease
  /\ agent.pc = "unlink" => Whole

UndoOK ==
  /\ agent.pc = "undo" /\ ~agent.recovering =>
       /\ agent.component \in Images /\ ~agent.switched => Untouched
       /\ agent.component = "blockchain" => journal.phase = "upgrading" /\ current = journal.chaincode
  /\ agent.pc \in {"back", "recheck"} => Filed
  /\ agent.pc = "recheck" => FromFile
  /\ agent.pc \in {"report", "forget"} \/ agent.recovered => Whole

AgentOK == AgentType /\ FlagsOK /\ ReleaseOK /\ MarkerOK /\ ActivationOK /\ UndoOK

IInv == World /\ AgentOK

-----------------------------------------------------------------------------
(* Names *)

LEMMA Names ==
  /\ "backend" \in Images /\ Images \subseteq {"backend", "ai"}
  /\ Components = Images \cup {"blockchain"} /\ "blockchain" \notin Images /\ "none" \notin Components
  /\ Services = Images \cup {"worker"} /\ Containers = Services \cup {"fabric"}
  /\ \A s \in Services : ImageOf(s) \in Images
  /\ \A c \in Images : With(c) = {s \in Services : ImageOf(s) = c}
  /\ With("blockchain") = {"worker"}
  /\ \A c \in Components : With(c) \subseteq Services
<1>1. "backend" \in Images /\ Images \subseteq {"backend", "ai"}
  BY ImageAssumption
<1>2. With("backend") = {s \in Services : ImageOf(s) = "backend"}
  BY <1>1 DEF With, Services, ImageOf
<1>3. With("ai") = {"ai"} /\ With("blockchain") = {"worker"}
  BY DEF With
<1>4. "ai" \in Images => With("ai") = {s \in Services : ImageOf(s) = "ai"}
  BY <1>1, <1>3 DEF Services, ImageOf
<1>5. \A c \in Images : With(c) = {s \in Services : ImageOf(s) = c}
  BY <1>1, <1>2, <1>4
<1>6. \A s \in Services : ImageOf(s) \in Images
  BY <1>1 DEF Services, ImageOf
<1>7. \A c \in Components : With(c) \subseteq Services
  BY <1>3, <1>5 DEF Components, Services
<1>q. QED
  BY <1>1, <1>3, <1>5, <1>6, <1>7 DEF Components, Services, Containers

LEMMA NoJournalNames == NoJournal.component \notin Components
  BY Names DEF NoJournal

-----------------------------------------------------------------------------
(* Steps of the world *)

LEMMA FaultsType == ASSUME WorldType, Fault \/ NoFault PROVE faults' \in 0..MaxFaults
<1>1. MaxFaults \in Nat
  BY ReleaseAssumption
<1>2. faults \in 0..MaxFaults
  BY DEF WorldType
<1>q. QED
  BY <1>1, <1>2 DEF Fault, NoFault

LEMMA WorldKept ==
  ASSUME World, Fault \/ NoFault, UNCHANGED <<outside, files, host>>
  PROVE  World'
<1>0. UNCHANGED <<main, published, receipt, journal, marker, env, current, image, chaincode, up>>
  BY DEF outside, files, host
<1>1. WorldType'
  BY <1>0, FaultsType DEF World, WorldType
<1>2. Whole' <=> Whole
  BY <1>0 DEF Whole, FromFile, Filed, AllFit
<1>3. (JournalType' <=> JournalType) /\ (Undoable' <=> Undoable)
  BY <1>0 DEF JournalType, Undoable, Filed
<1>4. (ReceiptOK' <=> ReceiptOK) /\ (ReceiptTrue' <=> ReceiptTrue)
  BY <1>0, <1>2 DEF ReceiptOK, ReceiptTrue
<1>q. QED
  BY <1>0, <1>1, <1>2, <1>3, <1>4 DEF World

\* The deployment in the journal changes what runs, under its own component.
LEMMA WorldChanged ==
  ASSUME World, journal # NoJournal, receipt[journal.component].status # "success",
         journal' # NoJournal, journal'.component = journal.component,
         UNCHANGED receipt, WorldType', JournalType', Undoable',
         \A s \in Services : ImageOf(s) # journal.component => image'[s] = image[s],
         journal.component \in Images => chaincode' = chaincode
  PROVE  World'
<1>1. ReceiptOK'
  BY DEF ReceiptOK
<1>2. journal.component \in Components
  BY DEF World, JournalType, Journal
<1>3. ReceiptTrue'
  BY <1>2, Names DEF World, ReceiptTrue
<1>q. QED
  BY <1>1, <1>3 DEF World

\* The journal is removed when everything is in order.
LEMMA JournalRemoved ==
  ASSUME World, Whole, Fault \/ NoFault, journal' = NoJournal,
         UNCHANGED <<outside, receipt, marker, env, current, host>>
  PROVE  World'
<1>0. UNCHANGED <<main, published, receipt, marker, env, current, image, chaincode, up>>
  BY DEF outside, host
<1>1. WorldType'
  BY <1>0, FaultsType DEF World, WorldType
<1>2. Whole' /\ (ReceiptTrue' <=> ReceiptTrue)
  BY <1>0 DEF Whole, FromFile, Filed, AllFit, ReceiptTrue
<1>q. QED
  BY <1>1, <1>2 DEF World

\* A receipt is written; one of success is true.
LEMMA ReceiptWritten ==
  ASSUME World, Fault \/ NoFault, UNCHANGED <<outside, journal, marker, env, current, host>>,
         NEW c \in Components, NEW r \in Receipt, {r.deployed, r.attempted} \subseteq Releases(c),
         receipt' = [receipt EXCEPT ![c] = r],
         r.status = "success" =>
           /\ IF c \in Images THEN \A s \in Services : ImageOf(s) = c => image[s] = r.deployed
              ELSE Content[c][chaincode] = Content[c][r.deployed]
           /\ journal # NoJournal => Whole /\ journal.component = c /\ journal.sha = r.deployed
  PROVE  World'
<1>0. UNCHANGED <<main, published, journal, marker, env, current, image, chaincode, up>>
  BY DEF outside, host
<1>1. /\ receipt' \in [Components -> Receipt] /\ receipt'[c] = r
      /\ \A d \in Components \ {c} : receipt'[d] = receipt[d]
  BY DEF World, WorldType
<1>2. WorldType'
  <2>1. \A d \in Components : {receipt'[d].deployed, receipt'[d].attempted} \subseteq Releases(d)
    <3>1. \A d \in Components : {receipt[d].deployed, receipt[d].attempted} \subseteq Releases(d)
      BY DEF World, WorldType
    <3>q. QED
      BY <1>1, <3>1
  <2>2. faults' \in 0..MaxFaults
    BY FaultsType DEF World
  <2>3. WorldType
    BY DEF World
  <2>4. published' \subseteq Components /\ marker' \in {"none", "worker", "no worker"}
        /\ up' \subseteq Containers /\ {current', chaincode'} \subseteq Releases("blockchain")
    BY <1>0, <2>3 DEF WorldType
  <2>5. /\ main' \in [Components -> Nat] /\ \A d \in Components : main'[d] \in Releases(d)
        /\ env' \in [Images -> Nat] /\ \A d \in Images : env'[d] \in Releases(d)
        /\ image' \in [Services -> Nat] /\ \A s \in Services : image'[s] \in Releases(ImageOf(s))
    BY <1>0, <2>3 DEF WorldType
  <2>q. QED
    BY <1>1, <2>1, <2>2, <2>4, <2>5 DEF WorldType
<1>3. Whole' <=> Whole
  BY <1>0 DEF Whole, FromFile, Filed, AllFit
<1>4. (JournalType' <=> JournalType) /\ (Undoable' <=> Undoable)
  BY <1>0 DEF JournalType, Undoable, Filed
<1>5. ReceiptTrue'
  BY <1>0, <1>1 DEF World, ReceiptTrue
<1>6. journal # NoJournal => ReceiptOK'
  BY <1>0, <1>1, <1>3 DEF World, ReceiptOK, JournalType, Journal
<1>q. QED
  BY <1>0, <1>2, <1>3, <1>4, <1>5, <1>6 DEF World

\* Containers that docker compose creates.
LEMMA CreatedContainers ==
  ASSUME WorldType, NEW S
  PROVE  /\ Created(S) \in [Services -> Nat]
         /\ \A s \in Services : /\ Created(S)[s] = IF s \in S THEN env[ImageOf(s)] ELSE image[s]
                                /\ Created(S)[s] \in Releases(ImageOf(s))
         /\ S \cap Services = {} => Created(S) = image
  BY Names DEF WorldType, Created

-----------------------------------------------------------------------------
(* Steps of the run *)

USE DEF Polling, ImageOnly, LedgerOnly, Undoing, Ending, Recovering, Activation, Journaled, Working,
        Resting, Tried


\* The run ends, by itself or by a kill: the world is all that is left.
LEMMA ExitStep == ASSUME World', Exit PROVE IInv'
<1>1. agent' = Idle /\ agent'.pc = "idle" /\ ~agent'.recovering /\ ~agent'.recovered
      /\ ~agent'.claimed /\ ~agent'.switched
  BY DEF Exit, Idle
<1>2. AgentType'
  BY <1>1 DEF AgentType, Idle, Resting
<1>3. FlagsOK' /\ ReleaseOK' /\ MarkerOK' /\ ActivationOK' /\ UndoOK'
  BY <1>1 DEF FlagsOK, ReleaseOK, MarkerOK, ActivationOK, UndoOK, Recovering, Undoing, Polling,
              ImageOnly, LedgerOnly, Activation, Journaled, Ending, Working
<1>q. QED
  BY <1>2, <1>3 DEF IInv, AgentOK

\* The run goes on with the next component.
LEMMA PollStep ==
  ASSUME World', journal' = NoJournal, NEW T \in SUBSET Components,
         agent' = [Idle EXCEPT !.pc = "poll", !.todo = T]
  PROVE  IInv'
<1>1. agent'.pc = "poll" /\ ~agent'.recovering /\ ~agent'.recovered
      /\ ~agent'.claimed /\ ~agent'.switched
  BY DEF Idle
<1>2. AgentType'
  BY DEF AgentType, Idle, Resting
<1>3. marker' = "none"
  BY DEF World, Whole
<1>4. FlagsOK' /\ ReleaseOK' /\ MarkerOK' /\ ActivationOK' /\ UndoOK'
  BY <1>1, <1>3 DEF FlagsOK, ReleaseOK, MarkerOK, ActivationOK, UndoOK, Recovering, Undoing, Polling,
              ImageOnly, LedgerOnly, Activation, Journaled, Ending, Working
<1>q. QED
  BY <1>2, <1>4 DEF IInv, AgentOK

\* Local variables that a change of step leaves alone.
LEMMA GotoStep ==
  ASSUME AgentType, NEW pc \in Working \cup Resting, Goto(pc)
  PROVE  /\ AgentType'
         /\ agent'.pc = pc /\ agent'.todo = agent.todo /\ agent'.component = agent.component
         /\ agent'.sha = agent.sha /\ agent'.switched = agent.switched
         /\ agent'.recovered = agent.recovered /\ agent'.claimed = agent.claimed
         /\ agent'.recovering = agent.recovering
  BY DEF AgentType, Goto

\* An exception changes no document of its own.
LEMMA RaiseStep ==
  ASSUME IInv, World', Raise, agent.pc \in Working \ {"fail", "failed"},
         UNCHANGED <<journal, receipt>>,
         agent.pc \in Tried => UNCHANGED <<marker, current>>,
         agent.pc = "candidate" => UNCHANGED <<up, image, chaincode>>
  PROVE  IInv'
<1>1. CASE agent.recovering
  BY <1>1, ExitStep DEF Raise
<1>2. CASE ~agent.recovering /\ agent.pc \in Tried
  <2>0. Goto("undo")
    BY <1>2 DEF Raise
  <2>1. "undo" \in Working \cup Resting
    BY DEF Working, Journaled, Recovering, Undoing
  <2>2. /\ AgentType'
        /\ agent'.pc = "undo" /\ agent'.component = agent.component
        /\ agent'.sha = agent.sha /\ agent'.switched = agent.switched
        /\ agent'.recovered = agent.recovered /\ agent'.claimed = agent.claimed
        /\ agent'.recovering = agent.recovering
    BY <2>0, <2>1, GotoStep DEF IInv, AgentOK
  <2>3. agent.pc \in Activation /\ agent.pc \in Journaled
    BY <1>2 DEF Tried, Activation, Journaled
  <2>4. FlagsOK'
    BY <1>2, <2>2 DEF IInv, AgentOK, FlagsOK, Tried, Recovering, Undoing, Resting, Polling
  <2>5. ReleaseOK'
    BY <1>2, <2>2, <2>3 DEF IInv, AgentOK, ReleaseOK, Tried, Polling, ImageOnly, LedgerOnly, Journaled,
                      Recovering, Undoing, Working
  <2>6. MarkerOK'
    BY <1>2, <2>2 DEF IInv, AgentOK, MarkerOK, Tried
  <2>7. ActivationOK'
    BY <2>2 DEF ActivationOK
  <2>8. UndoOK'
    <3>1. agent.component \in Images /\ ~agent.switched => agent.pc = "candidate"
      BY <1>2, Names DEF IInv, AgentOK, FlagsOK, ReleaseOK, Tried, LedgerOnly
    <3>2. agent.pc = "candidate" => Untouched'
      BY <1>2 DEF IInv, AgentOK, ActivationOK, Untouched, Filed, AllFit, Tried
    <3>3. agent.component = "blockchain" => journal.phase = "upgrading" /\ current = journal.chaincode
      BY <1>2, Names DEF IInv, AgentOK, ActivationOK, ReleaseOK, Tried, ImageOnly
    <3>4. ~agent.recovered
      BY <1>2 DEF IInv, AgentOK, FlagsOK, Tried
    <3>q. QED
      BY <1>2, <2>2, <3>1, <3>2, <3>3, <3>4 DEF UndoOK
  <2>q. QED
    BY <2>2, <2>4, <2>5, <2>6, <2>7, <2>8 DEF IInv, AgentOK
<1>3. CASE ~agent.recovering /\ agent.pc \notin Tried
  <2>0. Goto("fail")
    BY <1>3 DEF Raise
  <2>1. "fail" \in Working \cup Resting
    BY DEF Working, Ending
  <2>2. /\ AgentType'
        /\ agent'.pc = "fail" /\ agent'.component = agent.component
        /\ agent'.sha = agent.sha /\ agent'.switched = agent.switched
        /\ agent'.recovered = agent.recovered /\ agent'.claimed = agent.claimed
        /\ agent'.recovering = agent.recovering
    BY <2>0, <2>1, GotoStep DEF IInv, AgentOK
  <2>4. FlagsOK'
    BY <1>3, <2>2 DEF IInv, AgentOK, FlagsOK, Resting, Polling
  <2>5. ReleaseOK'
    BY <2>2 DEF IInv, AgentOK, ReleaseOK, Polling, ImageOnly, LedgerOnly, Journaled, Activation,
                Recovering, Undoing, Working, Ending
  <2>6. MarkerOK' /\ ActivationOK'
    BY <2>2 DEF MarkerOK, ActivationOK
  <2>7. UndoOK'
    BY <2>2 DEF IInv, AgentOK, FlagsOK, UndoOK
  <2>q. QED
    BY <2>2, <2>4, <2>5, <2>6, <2>7 DEF IInv, AgentOK
<1>q. QED
  BY <1>1, <1>2, <1>3

-----------------------------------------------------------------------------
(* recover_interrupted *)

LEMMA TimerStep == ASSUME IInv, Timer PROVE IInv'
<1>1. World'
  BY WorldKept DEF IInv, Timer
<1>2. /\ AgentType' /\ agent'.pc = "recover" /\ agent'.switched = agent.switched
      /\ agent'.recovered = agent.recovered /\ agent'.claimed = agent.claimed
      /\ agent'.recovering = agent.recovering
  BY GotoStep DEF IInv, AgentOK, Timer
<1>3. FlagsOK'
  BY <1>2 DEF IInv, AgentOK, FlagsOK, Timer, At
<1>4. ReleaseOK' /\ MarkerOK' /\ ActivationOK'
  BY <1>2 DEF ReleaseOK, MarkerOK, ActivationOK
<1>5. UndoOK'
  BY <1>2, <1>3 DEF UndoOK, FlagsOK
<1>q. QED
  BY <1>1, <1>2, <1>3, <1>4, <1>5 DEF IInv, AgentOK

\* Fabric and the worker are started only when a deployment is outstanding;
\* the containers come from the images they had.
LEMMA RecoverBackupStep == ASSUME IInv, RecoverBackup PROVE IInv'
<1>1. World'
  <2>1. CASE marker = "none"
    BY <2>1, WorldKept DEF IInv, RecoverBackup, files, host
  <2>2. CASE marker # "none"
    <3>1. /\ journal # NoJournal /\ JournalType /\ Undoable
          /\ receipt[journal.component].status # "success"
      BY <2>2 DEF IInv, World, Whole, ReceiptOK
    <3>2. /\ image' = Created({"fabric"}) \/ image' = Created({})
          /\ up' = up \/ up' = up \cup {"fabric"}
          /\ marker' \in {marker, "none"} /\ (Fault \/ NoFault)
      BY <2>2, <3>1 DEF RecoverBackup
    <3>3. image' = image
      BY <3>2, CreatedContainers, Names DEF IInv, World, Services
    <3>4. UNCHANGED <<main, published, receipt, journal, env, current, chaincode>>
      BY DEF RecoverBackup, outside
    <3>5. WorldType'
      BY <3>2, <3>3, <3>4, FaultsType, Names DEF IInv, World, WorldType
    <3>6. JournalType' /\ Undoable'
      BY <3>1, <3>2, <3>3, <3>4 DEF JournalType, Undoable, Filed
    <3>q. QED
      BY <3>1, <3>3, <3>4, <3>5, <3>6, WorldChanged DEF IInv
  <2>q. QED
    BY <2>1, <2>2
<1>2. CASE Exit
  BY <1>1, <1>2, ExitStep
<1>3. CASE Goto("resume") /\ marker' = "none"
  <2>2. /\ AgentType' /\ agent'.pc = "resume" /\ agent'.switched = agent.switched
        /\ agent'.recovered = agent.recovered /\ agent'.claimed = agent.claimed
        /\ agent'.recovering = agent.recovering
    BY <1>3, GotoStep DEF IInv, AgentOK
  <2>3. FlagsOK'
    BY <2>2 DEF IInv, AgentOK, FlagsOK, RecoverBackup, At
  <2>4. ReleaseOK' /\ MarkerOK' /\ ActivationOK'
    BY <1>3, <2>2 DEF ReleaseOK, MarkerOK, ActivationOK
  <2>5. UndoOK'
    BY <2>2, <2>3 DEF UndoOK, FlagsOK
  <2>q. QED
    BY <1>1, <2>2, <2>3, <2>4, <2>5 DEF IInv, AgentOK
<1>q. QED
  BY <1>2, <1>3 DEF RecoverBackup

\* A deployment that had succeeded is forgotten, any other is undone.
LEMMA ResumeStep == ASSUME IInv, Resume PROVE IInv'
<1>0. /\ UNCHANGED <<outside, receipt, marker, env, current, host>> /\ NoFault
      /\ agent.pc = "resume"
  BY DEF Resume, At
<1>1. CASE journal = NoJournal /\ PollAll /\ UNCHANGED journal
  <2>1. World'
    BY <1>0, <1>1, WorldKept DEF IInv, files
  <2>q. QED
    BY <1>1, <2>1, PollStep DEF PollAll
<1>2. CASE journal # NoJournal /\ Succeeded /\ journal' = NoJournal /\ PollAll
  <2>1. Whole
    BY <1>2 DEF IInv, World, ReceiptOK, Succeeded
  <2>2. World'
    BY <1>0, <1>2, <2>1, JournalRemoved DEF IInv
  <2>q. QED
    BY <1>2, <2>2, PollStep DEF PollAll
<1>3. CASE /\ journal # NoJournal /\ ~Succeeded /\ UNCHANGED journal
           /\ agent' = [agent EXCEPT !.component = journal.component, !.sha = journal.sha,
                                     !.recovering = TRUE,
                                     !.pc = IF journal.component \in Images THEN "undo" ELSE "quiet"]
  <2>1. World'
    BY <1>0, <1>3, WorldKept DEF IInv, files
  <2>2. /\ receipt[journal.component].status # "success"
        /\ journal.component \in Components /\ journal.sha \in Releases(journal.component)
        /\ journal.sha \in Nat
    BY <1>3 DEF IInv, World, ReceiptOK, Succeeded, JournalType, Journal
  <2>3. /\ AgentType'
        /\ agent'.pc = (IF journal.component \in Images THEN "undo" ELSE "quiet")
        /\ agent'.component = journal.component /\ agent'.sha = journal.sha
        /\ agent'.recovering /\ agent'.switched = agent.switched
        /\ agent'.recovered = agent.recovered /\ agent'.claimed = agent.claimed
    BY <1>3, <2>2 DEF IInv, AgentOK, AgentType
  <2>4. FlagsOK'
    BY <1>0, <2>3 DEF IInv, AgentOK, FlagsOK
  <2>5. ReleaseOK'
    BY <1>0, <1>3, <2>2, <2>3, Names DEF ReleaseOK
  <2>6. MarkerOK'
    BY <1>0 DEF IInv, AgentOK, MarkerOK
  <2>7. ActivationOK'
    BY <2>3 DEF ActivationOK
  <2>8. UndoOK'
    BY <2>3, <2>4 DEF UndoOK, FlagsOK
  <2>q. QED
    BY <2>1, <2>3, <2>4, <2>5, <2>6, <2>7, <2>8 DEF IInv, AgentOK
<1>q. QED
  BY <1>1, <1>2, <1>3 DEF Resume

LEMMA QuietStep == ASSUME IInv, Quiet PROVE IInv'
<1>0. /\ UNCHANGED <<main, published, receipt, journal, marker, env, current, image, chaincode>>
      /\ agent.pc = "quiet" /\ up' \in {up, up \cup {"fabric"}, (up \cup {"fabric"}) \ {"worker"}}
      /\ Fault \/ NoFault
  BY DEF Quiet, At, outside, files
<1>1. /\ journal # NoJournal /\ journal.component = "blockchain" /\ agent.component = "blockchain"
      /\ receipt[journal.component].status # "success" /\ agent.recovering
      /\ JournalType /\ Undoable
  BY <1>0 DEF IInv, World, AgentOK, ReleaseOK, FlagsOK
<1>2. WorldType'
  BY <1>0, FaultsType, Names DEF IInv, World, WorldType
<1>3. JournalType'
  BY <1>0, <1>1 DEF JournalType
<1>4. Undoable'
  BY <1>0, <1>1, Names DEF Undoable, Touched, Filed
<1>5. World'
  BY <1>0, <1>1, <1>2, <1>3, <1>4, WorldChanged DEF IInv
<1>6. CASE Raise
  BY <1>0, <1>5, <1>6, RaiseStep
<1>7. CASE Goto("undo")
  <2>2. /\ AgentType' /\ agent'.pc = "undo" /\ agent'.switched = agent.switched
        /\ agent'.component = agent.component /\ agent'.sha = agent.sha
        /\ agent'.recovered = agent.recovered /\ agent'.claimed = agent.claimed
        /\ agent'.recovering = agent.recovering
    BY <1>7, GotoStep DEF IInv, AgentOK
  <2>3. FlagsOK'
    BY <1>0, <2>2 DEF IInv, AgentOK, FlagsOK
  <2>4. ReleaseOK'
    BY <1>0, <2>2 DEF IInv, AgentOK, ReleaseOK
  <2>5. MarkerOK'
    BY <1>0 DEF IInv, AgentOK, MarkerOK
  <2>6. ActivationOK'
    BY <2>2 DEF ActivationOK
  <2>7. UndoOK'
    BY <1>1, <2>2, <2>3 DEF UndoOK, FlagsOK
  <2>q. QED
    BY <1>5, <2>2, <2>3, <2>4, <2>5, <2>6, <2>7 DEF IInv, AgentOK
<1>q. QED
  BY <1>6, <1>7 DEF Quiet

\* What the journal remembers is put back on file, or on the channel.
LEMMA UndoWorld ==
  ASSUME IInv, Undo
  PROVE  World' /\ (~Raise => Filed')
<1>0. /\ UNCHANGED <<main, published, receipt, journal, marker, image, up>> /\ agent.pc = "undo"
      /\ Fault \/ NoFault
  BY DEF Undo, At, outside
<1>1. /\ journal # NoJournal /\ journal.component = agent.component
      /\ receipt[journal.component].status # "success"
      /\ JournalType /\ Undoable /\ journal.component \in Components
  BY <1>0 DEF IInv, World, AgentOK, ReleaseOK, JournalType, Journal
<1>2. CASE agent.component \in Images
  <2>1. /\ env' = journal.images \/ env' = env
        /\ UNCHANGED <<chaincode, current>>
    BY <1>1, <1>2, Names DEF Undo, JournalType
  <2>2. journal.images \in [Images -> Nat] /\ \A c \in Images : journal.images[c] \in Releases(c)
    BY <1>1 DEF JournalType, Journal
  <2>3. WorldType'
    BY <1>0, <2>1, <2>2, FaultsType DEF IInv, World, WorldType
  <2>4. JournalType'
    BY <1>0, <1>1 DEF JournalType
  <2>5. Undoable' /\ Filed'
    BY <1>0, <1>1, <1>2, <2>1, Names DEF Undoable, Filed, JournalType
  <2>q. QED
    BY <1>0, <1>1, <2>1, <2>3, <2>4, <2>5, WorldChanged DEF IInv
<1>3. CASE agent.component \notin Images
  <2>1. agent.component = "blockchain" /\ env' = env
    BY <1>1, <1>3, Names DEF Undo
  <2>2. /\ current' \in {current, journal.chaincode}
        /\ chaincode' \in {chaincode, journal.chaincode}
        /\ journal.phase \in {"preparing", "upgrading"}
        /\ journal.phase = "preparing" => chaincode' = chaincode /\ current = journal.chaincode /\ Filed
    BY <1>1, <1>3, <2>1 DEF Undo, JournalType, Undoable
  <2>3. WorldType'
    BY <1>0, <1>1, <2>1, <2>2, FaultsType DEF IInv, World, WorldType, JournalType
  <2>4. JournalType'
    BY <1>0, <1>1 DEF JournalType
  <2>5. Undoable'
    BY <1>0, <1>1, <1>3, <2>1, <2>2, Names DEF Undoable, Filed
  <2>6. ~Raise => Filed'
    <3> SUFFICES ASSUME ~Raise PROVE Filed'
      OBVIOUS
    <3>1. /\ chaincode' = IF journal.phase = "preparing" THEN chaincode ELSE journal.chaincode
          /\ current' = IF agent.recovering THEN journal.chaincode ELSE current
      BY <1>3, <2>1 DEF Undo
    <3>2. ~agent.recovering => current = journal.chaincode
      BY <1>0, <2>1 DEF IInv, AgentOK, UndoOK
    <3>q. QED
      BY <2>2, <3>1, <3>2 DEF Filed
  <2>q. QED
    BY <1>0, <1>1, <1>3, <2>3, <2>4, <2>5, <2>6, WorldChanged DEF IInv
<1>q. QED
  BY <1>2, <1>3

LEMMA UndoStep == ASSUME IInv, Undo PROVE IInv'
<1>0. /\ UNCHANGED <<main, published, receipt, journal, marker, image, up>> /\ agent.pc = "undo"
      /\ agent.component \in Components
  BY DEF Undo, At, outside, IInv, AgentOK, ReleaseOK
<1>1. World' /\ (~Raise => Filed')
  BY UndoWorld
<1>2. CASE Raise
  BY <1>0, <1>1, <1>2, RaiseStep
<1>3. marker' = "none"
  BY <1>0 DEF IInv, AgentOK, MarkerOK
<1>4. CASE ~Raise /\ Goto("back")
  <2>2. /\ AgentType' /\ agent'.pc = "back" /\ agent'.switched = agent.switched
        /\ agent'.component = agent.component /\ agent'.sha = agent.sha
        /\ agent'.recovered = agent.recovered /\ agent'.claimed = agent.claimed
        /\ agent'.recovering = agent.recovering
    BY <1>4, GotoStep DEF IInv, AgentOK
  <2>3. FlagsOK'
    BY <1>0, <2>2 DEF IInv, AgentOK, FlagsOK
  <2>4. ReleaseOK'
    BY <1>0, <2>2 DEF IInv, AgentOK, ReleaseOK
  <2>5. MarkerOK' /\ ActivationOK'
    BY <1>3, <2>2 DEF MarkerOK, ActivationOK
  <2>6. UndoOK'
    BY <1>1, <1>4, <2>2, <2>3 DEF UndoOK, FlagsOK
  <2>q. QED
    BY <1>1, <2>2, <2>3, <2>4, <2>5, <2>6 DEF IInv, AgentOK
<1>5. CASE /\ ~Raise /\ ~agent.recovering /\ ~agent.switched /\ agent.component \in Images
           /\ agent' = [agent EXCEPT !.pc = "fail", !.recovered = TRUE]
           /\ env' = journal.images /\ UNCHANGED <<chaincode, current>>
  <2>1. Untouched
    BY <1>0, <1>5 DEF IInv, AgentOK, UndoOK
  <2>2. Whole'
    BY <1>0, <1>3, <1>5, <2>1 DEF Untouched, Whole, FromFile, Filed, AllFit
  <2>3. /\ AgentType' /\ agent'.pc = "fail" /\ agent'.recovered
        /\ agent'.component = agent.component /\ agent'.sha = agent.sha
        /\ ~agent'.recovering
    BY <1>5 DEF IInv, AgentOK, AgentType
  <2>4. FlagsOK'
    BY <2>3 DEF FlagsOK
  <2>5. ReleaseOK'
    BY <1>0, <2>3 DEF IInv, AgentOK, ReleaseOK
  <2>6. MarkerOK' /\ ActivationOK' /\ UndoOK'
    BY <2>2, <2>3 DEF MarkerOK, ActivationOK, UndoOK
  <2>q. QED
    BY <1>1, <2>3, <2>4, <2>5, <2>6 DEF IInv, AgentOK
<1>6. \/ Raise \/ Goto("back")
      \/ /\ ~agent.recovering /\ ~agent.switched /\ agent.component \in Images
         /\ agent' = [agent EXCEPT !.pc = "fail", !.recovered = TRUE]
         /\ env' = journal.images /\ UNCHANGED <<chaincode, current>>
  BY <1>0, Names DEF Undo, Undone
<1>q. QED
  BY <1>2, <1>4, <1>5, <1>6

-----------------------------------------------------------------------------
(* Starting and probing *)

\* Containers are created from the env file; only those of the deployment change.
LEMMA CreatedOK ==
  ASSUME WorldType, Undoable, journal.component \in Components,
         NEW S \in SUBSET With(journal.component), image' = Created(S)
  PROVE  /\ image' \in [Services -> Nat]
         /\ \A s \in Services : image'[s] \in Releases(ImageOf(s))
         /\ \A s \in Services : ImageOf(s) # journal.component => image'[s] = image[s]
         /\ S = With(journal.component) => \A s \in Services : image'[s] = env[ImageOf(s)]
<1>1. /\ image' \in [Services -> Nat]
      /\ \A s \in Services : /\ image'[s] = IF s \in S THEN env[ImageOf(s)] ELSE image[s]
                             /\ image'[s] \in Releases(ImageOf(s))
  BY CreatedContainers
<1>2. \A s \in Services : ImageOf(s) # journal.component => image[s] = env[ImageOf(s)]
  BY DEF Undoable
<1>3. \A s \in Services : ImageOf(s) = journal.component => s \in With(journal.component)
  <2>1. \A s \in Services : s \in With(ImageOf(s))
    BY Names
  <2>q. QED
    BY <2>1
<1>q. QED
  BY <1>1, <1>2, <1>3

\* An activation, or what undoes it, starts the containers.
LEMMA StartWorld ==
  ASSUME IInv, Start
  PROVE  World' /\ (~Raise => FromFile')
<1>0. /\ UNCHANGED <<main, published, receipt, journal, marker, env, current, chaincode>>
      /\ agent.pc \in {"start", "back"} /\ (Fault \/ NoFault)
  BY DEF Start, outside, files
<1>1. /\ journal # NoJournal /\ journal.component = agent.component
      /\ receipt[journal.component].status # "success"
      /\ JournalType /\ Undoable /\ journal.component \in Components /\ WorldType
  BY <1>0 DEF IInv, World, AgentOK, ReleaseOK, JournalType, Journal
<1>2. PICK S \in SUBSET With(agent.component) :
        up' = up \cup S /\ image' = Created(S) /\ (~Raise => S = With(agent.component))
  BY DEF Start
<1>3. /\ image' \in [Services -> Nat]
      /\ \A s \in Services : image'[s] \in Releases(ImageOf(s))
      /\ \A s \in Services : ImageOf(s) # journal.component => image'[s] = image[s]
      /\ S = With(journal.component) => \A s \in Services : image'[s] = env[ImageOf(s)]
  BY <1>1, <1>2, CreatedOK
<1>4. up' \subseteq Containers /\ up \subseteq up'
  BY <1>1, <1>2, Names DEF WorldType
<1>5. WorldType'
  BY <1>0, <1>1, <1>3, <1>4, FaultsType DEF WorldType
<1>6. JournalType' /\ Undoable'
  BY <1>0, <1>1, <1>3, <1>4 DEF JournalType, Undoable, Filed
<1>7. World'
  BY <1>0, <1>1, <1>3, <1>5, <1>6, WorldChanged DEF IInv
<1>8. ~Raise => FromFile'
  BY <1>0, <1>1, <1>2, <1>3 DEF FromFile
<1>q. QED
  BY <1>7, <1>8

LEMMA StartStep == ASSUME IInv, Start PROVE IInv'
<1>0. /\ UNCHANGED <<main, published, receipt, journal, marker, env, current, chaincode>>
      /\ agent.pc \in {"start", "back"} /\ agent.component \in Components
  BY DEF Start, outside, files, IInv, AgentOK, ReleaseOK
<1>1. World' /\ (~Raise => FromFile')
  BY StartWorld
<1>2. CASE Raise
  BY <1>0, <1>1, <1>2, RaiseStep
<1>3. marker' = "none"
  BY <1>0 DEF IInv, AgentOK, MarkerOK
<1>4. CASE ~Raise /\ agent.pc = "start" /\ Goto("probe")
  <2>2. /\ AgentType' /\ agent'.pc = "probe" /\ agent'.switched = agent.switched
        /\ agent'.component = agent.component /\ agent'.sha = agent.sha
        /\ agent'.recovered = agent.recovered /\ agent'.claimed = agent.claimed
        /\ agent'.recovering = agent.recovering
    BY <1>4, GotoStep DEF IInv, AgentOK
  <2>3. FlagsOK'
    BY <1>4, <2>2 DEF IInv, AgentOK, FlagsOK
  <2>4. ReleaseOK'
    BY <1>0, <1>4, <2>2 DEF IInv, AgentOK, ReleaseOK
  <2>5. MarkerOK'
    BY <1>3 DEF MarkerOK
  <2>6. ActivationOK'
    BY <1>0, <1>1, <1>4, <2>2 DEF IInv, AgentOK, ActivationOK
  <2>7. UndoOK'
    BY <2>2, <2>3 DEF UndoOK, FlagsOK
  <2>q. QED
    BY <1>1, <2>2, <2>3, <2>4, <2>5, <2>6, <2>7 DEF IInv, AgentOK
<1>5. CASE ~Raise /\ agent.pc = "back" /\ Goto("recheck")
  <2>2. /\ AgentType' /\ agent'.pc = "recheck" /\ agent'.switched = agent.switched
        /\ agent'.component = agent.component /\ agent'.sha = agent.sha
        /\ agent'.recovered = agent.recovered /\ agent'.claimed = agent.claimed
        /\ agent'.recovering = agent.recovering
    BY <1>5, GotoStep DEF IInv, AgentOK
  <2>3. FlagsOK'
    BY <1>5, <2>2 DEF IInv, AgentOK, FlagsOK
  <2>4. ReleaseOK'
    BY <1>0, <1>5, <2>2 DEF IInv, AgentOK, ReleaseOK
  <2>5. MarkerOK' /\ ActivationOK'
    BY <1>3, <2>2 DEF MarkerOK, ActivationOK
  <2>7. UndoOK'
    BY <1>0, <1>1, <1>5, <2>2, <2>3 DEF IInv, AgentOK, UndoOK, FlagsOK, Filed
  <2>q. QED
    BY <1>1, <2>2, <2>3, <2>4, <2>5, <2>7 DEF IInv, AgentOK
<1>q. QED
  BY <1>0, <1>2, <1>4, <1>5 DEF Start, At

\* A probe that passes sees everything: the component itself, what the worker
\* depends on, and the rest was never stopped.
LEMMA ProbeMeans ==
  ASSUME WorldType, Undoable, journal.component \in Components, FromFile, Probe(journal.component)
  PROVE  up = Containers /\ AllFit
<1>1. /\ {"worker", "fabric"} \subseteq up /\ Fit("blockchain", chaincode)
      /\ Fit("backend", image["worker"])
      /\ "ai" \in Images => "ai" \in up /\ Fit("ai", image["ai"])
      /\ journal.component \in Images => journal.component \in up
  BY DEF Probe, DependencyProbe, Answering
<1>2. image["backend"] = image["worker"]
  BY Names DEF FromFile, ImageOf
<1>3. \A s \in Services : Fit(ImageOf(s), image[s])
  BY <1>1, <1>2, Names DEF ImageOf
<1>4. "backend" \in up
  <2>1. CASE journal.component = "backend"
    BY <1>1, <2>1, Names
  <2>2. CASE journal.component # "backend"
    <3>1. journal.component \in {"ai", "blockchain"}
      BY <2>2, Names
    <3>2. "backend" \notin Touched(journal.component)
      BY <3>1 DEF Touched, With
    <3>q. QED
      BY <3>2, Names DEF Undoable
  <2>q. QED
    BY <2>1, <2>2
<1>5. up = Containers
  <2>1. up \subseteq Containers
    BY DEF WorldType
  <2>2. Containers \subseteq {"backend", "worker", "fabric"} \cup (Images \cap {"ai"})
    BY Names
  <2>q. QED
    BY <1>1, <1>4, <2>1, <2>2
<1>q. QED
  BY <1>1, <1>3, <1>5 DEF AllFit

LEMMA RecheckStep == ASSUME IInv, Recheck PROVE IInv'
<1>0. UNCHANGED <<outside, files, host>> /\ (Fault \/ NoFault) /\ agent.pc = "recheck"
  BY DEF Recheck, At
<1>u. UNCHANGED <<main, published, receipt, journal, marker, env, current, image, chaincode, up>>
  BY <1>0 DEF outside, files, host
<1>1. World'
  BY <1>0, WorldKept DEF IInv
<1>2. CASE Raise
  BY <1>0, <1>1, <1>2, <1>u, RaiseStep
<1>3. CASE Probe(agent.component) /\ Rechecked
  <2>0. /\ journal # NoJournal /\ journal.component = agent.component
        /\ journal.component \in Components /\ Undoable /\ WorldType /\ FromFile /\ Filed
        /\ marker = "none"
    BY <1>0 DEF IInv, World, AgentOK, ReleaseOK, UndoOK, MarkerOK
  <2>1. up = Containers /\ AllFit
    BY <1>3, <2>0, ProbeMeans
  <2>2. Whole'
    BY <1>u, <2>0, <2>1 DEF Whole, FromFile, Filed, AllFit
  <2>3. /\ AgentType' /\ agent'.component = agent.component /\ agent'.sha = agent.sha
        /\ \/ agent'.pc = "report" /\ agent'.recovering /\ agent'.recovered = agent.recovered
           \/ agent'.pc = "fail" /\ ~agent'.recovering /\ agent'.recovered
        /\ agent'.claimed = agent.claimed
    <3>1. CASE agent.recovering
      BY <1>3, <3>1, GotoStep DEF IInv, AgentOK, Rechecked
    <3>2. CASE ~agent.recovering
      BY <1>3, <3>2 DEF IInv, AgentOK, AgentType, Rechecked
    <3>q. QED
      BY <3>1, <3>2
  <2>4. FlagsOK'
    BY <1>0, <2>3 DEF IInv, AgentOK, FlagsOK
  <2>5. ReleaseOK'
    BY <1>0, <1>u, <2>3 DEF IInv, AgentOK, ReleaseOK
  <2>6. MarkerOK' /\ ActivationOK' /\ UndoOK'
    BY <1>u, <2>0, <2>2, <2>3 DEF MarkerOK, ActivationOK, UndoOK
  <2>q. QED
    BY <1>1, <2>3, <2>4, <2>5, <2>6 DEF IInv, AgentOK
<1>q. QED
  BY <1>2, <1>3 DEF Recheck

LEMMA ReportStep == ASSUME IInv, Report PROVE IInv'
<1>0. UNCHANGED <<outside, journal, marker, env, current, host>> /\ (Fault \/ NoFault) /\ agent.pc = "report"
  BY DEF Report, At
<1>u. UNCHANGED <<main, published, marker, env, current, image, chaincode, up>>
  BY <1>0 DEF outside, host
<1>1. CASE Raise /\ UNCHANGED receipt
  <2>1. World'
    BY <1>0, <1>1, WorldKept DEF IInv, files
  <2>q. QED
    BY <1>0, <1>1, <2>1, <1>u, RaiseStep
<1>2. CASE /\ receipt' = [receipt EXCEPT ![agent.component].status = "rolled_back",
                                         ![agent.component].attempted = agent.sha]
           /\ Goto("forget")
  <2>0. /\ agent.component \in Components /\ agent.sha \in Releases(agent.component) /\ agent.sha \in Nat
        /\ receipt[agent.component] \in Receipt /\ Whole /\ marker = "none"
        /\ receipt[agent.component].deployed \in Releases(agent.component)
        /\ receipt \in [Components -> Receipt]
    BY <1>0 DEF IInv, World, WorldType, AgentOK, AgentType, ReleaseOK, UndoOK, MarkerOK
  <2> DEFINE r == [receipt[agent.component] EXCEPT !.status = "rolled_back", !.attempted = agent.sha]
  <2>1. /\ r \in Receipt /\ {r.deployed, r.attempted} \subseteq Releases(agent.component)
        /\ r.status = "rolled_back"
    BY <2>0 DEF Receipt, Statuses
  <2>2. receipt' = [receipt EXCEPT ![agent.component] = r]
    BY <1>2, <2>0 DEF Receipt
  <2> HIDE DEF r
  <2>3. World'
    BY <1>0, <2>0, <2>1, <2>2, ReceiptWritten DEF IInv
  <2>4. receipt'[agent.component].status = "rolled_back"
    BY <2>0, <2>1, <2>2
  <2>5. /\ AgentType' /\ agent'.pc = "forget" /\ agent'.switched = agent.switched
        /\ agent'.component = agent.component /\ agent'.sha = agent.sha
        /\ agent'.recovered = agent.recovered /\ agent'.claimed = agent.claimed
        /\ agent'.recovering = agent.recovering
    BY <1>2, GotoStep DEF IInv, AgentOK
  <2>6. FlagsOK'
    BY <1>0, <2>5 DEF IInv, AgentOK, FlagsOK
  <2>7. ReleaseOK'
    BY <1>0, <2>4, <2>5 DEF IInv, AgentOK, ReleaseOK
  <2>8. MarkerOK' /\ ActivationOK'
    BY <1>u, <2>0, <2>5 DEF MarkerOK, ActivationOK
  <2>9. UndoOK'
    BY <1>u, <2>0, <2>5 DEF UndoOK, Whole, FromFile, Filed, AllFit
  <2>q. QED
    BY <2>3, <2>5, <2>6, <2>7, <2>8, <2>9 DEF IInv, AgentOK
<1>q. QED
  BY <1>1, <1>2 DEF Report

LEMMA ForgetStep == ASSUME IInv, Forget PROVE IInv'
<1>0. UNCHANGED <<outside, receipt, marker, env, current, host>> /\ (Fault \/ NoFault) /\ agent.pc = "forget"
  BY DEF Forget, At
<1>1. CASE Raise /\ UNCHANGED journal
  <2>1. World'
    BY <1>0, <1>1, WorldKept DEF IInv, files
  <2>q. QED
    BY <1>0, <1>1, <2>1, RaiseStep
<1>2. CASE journal' = NoJournal /\ PollAll
  <2>1. Whole
    BY <1>0 DEF IInv, AgentOK, UndoOK
  <2>2. World'
    BY <1>0, <1>2, <2>1, JournalRemoved DEF IInv
  <2>q. QED
    BY <1>2, <2>2, PollStep DEF PollAll
<1>q. QED
  BY <1>1, <1>2 DEF Forget

-----------------------------------------------------------------------------
(* process *)

LEMMA ProcessStep == ASSUME IInv, Process PROVE IInv'
<1>0. UNCHANGED <<outside, journal, marker, env, current, host>> /\ agent.pc = "poll"
  BY DEF Process, At
<1>u. UNCHANGED <<main, published, marker, env, current, image, chaincode, up>>
  BY <1>0 DEF outside, host
<1>v. /\ journal = NoJournal /\ ~agent.recovering /\ ~agent.recovered /\ ~agent.claimed
      /\ ~agent.switched /\ marker = "none"
  BY <1>0 DEF IInv, AgentOK, FlagsOK, ReleaseOK, MarkerOK
<1>1. CASE Exit /\ NoFault /\ UNCHANGED receipt
  <2>1. World'
    BY <1>0, <1>1, WorldKept DEF IInv, files
  <2>q. QED
    BY <1>1, <2>1, ExitStep
<1>2. ASSUME NEW c \in agent.todo, agent' = [agent EXCEPT !.todo = @ \ {c}], UNCHANGED receipt,
             Fault \/ NoFault
      PROVE  IInv'
  <2>1. World'
    BY <1>0, <1>2, WorldKept DEF IInv, files
  <2>2. /\ AgentType' /\ agent'.pc = "poll" /\ ~agent'.recovering /\ ~agent'.recovered
        /\ ~agent'.claimed /\ ~agent'.switched
    BY <1>0, <1>2, <1>v DEF IInv, AgentOK, AgentType
  <2>3. FlagsOK' /\ ReleaseOK' /\ MarkerOK' /\ ActivationOK' /\ UndoOK'
    BY <1>0, <1>u, <1>v, <2>2 DEF FlagsOK, ReleaseOK, MarkerOK, ActivationOK, UndoOK
  <2>q. QED
    BY <2>1, <2>2, <2>3 DEF IInv, AgentOK
<1>3. ASSUME NEW c \in agent.todo, NoFault,
             receipt' = [receipt EXCEPT ![c].status = "deploying", ![c].attempted = main[c]],
             agent' = [agent EXCEPT !.pc = "fetch", !.todo = @ \ {c}, !.component = c, !.sha = main[c]]
      PROVE  IInv'
  <2>0. /\ c \in Components /\ main[c] \in Releases(c) /\ main[c] \in Nat
        /\ receipt[c] \in Receipt /\ receipt[c].deployed \in Releases(c)
        /\ receipt \in [Components -> Receipt]
    BY DEF IInv, World, WorldType, AgentOK, AgentType
  <2> DEFINE r == [receipt[c] EXCEPT !.status = "deploying", !.attempted = main[c]]
  <2>1. r \in Receipt /\ {r.deployed, r.attempted} \subseteq Releases(c) /\ r.status = "deploying"
    BY <2>0 DEF Receipt, Statuses
  <2>2. receipt' = [receipt EXCEPT ![c] = r]
    BY <1>3, <2>0 DEF Receipt
  <2> HIDE DEF r
  <2>3. World'
    BY <1>0, <1>3, <2>0, <2>1, <2>2, ReceiptWritten DEF IInv
  <2>4. receipt'[c].status = "deploying"
    BY <2>0, <2>1, <2>2
  <2>5. /\ AgentType' /\ agent'.pc = "fetch" /\ agent'.component = c /\ agent'.sha = main[c]
        /\ ~agent'.recovering /\ ~agent'.recovered /\ ~agent'.claimed /\ ~agent'.switched
    BY <1>3, <1>v, <2>0 DEF IInv, AgentOK, AgentType
  <2>6. FlagsOK' /\ ReleaseOK' /\ MarkerOK' /\ ActivationOK' /\ UndoOK'
    BY <1>0, <1>u, <1>v, <2>0, <2>4, <2>5 DEF FlagsOK, ReleaseOK, MarkerOK, ActivationOK, UndoOK
  <2>q. QED
    BY <2>3, <2>5, <2>6 DEF IInv, AgentOK
<1>q. QED
  BY <1>1, <1>2, <1>3 DEF Process

LEMMA FetchStep == ASSUME IInv, Fetch PROVE IInv'
<1>0. UNCHANGED <<outside, journal, marker, env, current, host>> /\ agent.pc = "fetch" /\ (Fault \/ NoFault)
  BY DEF Fetch, At
<1>u. UNCHANGED <<main, published, marker, env, current, image, chaincode, up>>
  BY <1>0 DEF outside, host
<1>v. /\ journal = NoJournal /\ ~agent.recovering /\ ~agent.recovered /\ ~agent.claimed
      /\ ~agent.switched /\ marker = "none"
      /\ agent.component \in Components /\ agent.sha \in Releases(agent.component)
      /\ receipt[agent.component].status # "success"
  BY <1>0 DEF IInv, AgentOK, FlagsOK, ReleaseOK, MarkerOK
<1>1. CASE Poll /\ receipt' = [receipt EXCEPT ![agent.component].status = "superseded"]
  <2>0. /\ receipt[agent.component] \in Receipt
        /\ receipt[agent.component].deployed \in Releases(agent.component)
        /\ receipt[agent.component].attempted \in Releases(agent.component)
        /\ receipt \in [Components -> Receipt] /\ agent.todo \in SUBSET Components
    BY <1>v DEF IInv, World, WorldType, AgentOK, AgentType
  <2> DEFINE r == [receipt[agent.component] EXCEPT !.status = "superseded"]
  <2>1. /\ r \in Receipt /\ {r.deployed, r.attempted} \subseteq Releases(agent.component)
        /\ r.status = "superseded"
    BY <2>0 DEF Receipt, Statuses
  <2>2. receipt' = [receipt EXCEPT ![agent.component] = r]
    BY <1>1, <2>0 DEF Receipt
  <2> HIDE DEF r
  <2>3. World'
    BY <1>0, <1>v, <2>1, <2>2, ReceiptWritten DEF IInv
  <2>q. QED
    BY <1>0, <1>1, <1>v, <2>0, <2>3, PollStep DEF Poll
<1>2. CASE UNCHANGED receipt
  <2>1. World'
    BY <1>0, <1>2, WorldKept DEF IInv, files
  <2>2. CASE Raise
    BY <1>0, <1>2, <2>1, <2>2, RaiseStep DEF host
  <2>3. CASE Goto(IF agent.component \in Images THEN "load" ELSE "check")
    <3>2. /\ AgentType' /\ agent'.pc = (IF agent.component \in Images THEN "load" ELSE "check")
          /\ agent'.component = agent.component /\ agent'.sha = agent.sha
          /\ agent'.switched = agent.switched
          /\ agent'.recovered = agent.recovered /\ agent'.claimed = agent.claimed
          /\ agent'.recovering = agent.recovering
      BY <2>3, GotoStep DEF IInv, AgentOK
    <3>3. FlagsOK' /\ ReleaseOK' /\ MarkerOK' /\ ActivationOK' /\ UndoOK'
      BY <1>0, <1>u, <1>v, <1>2, <3>2, Names DEF FlagsOK, ReleaseOK, MarkerOK, ActivationOK, UndoOK
    <3>q. QED
      BY <2>1, <3>2, <3>3 DEF IInv, AgentOK
  <2>q. QED
    BY <1>1, <1>2, <2>2, <2>3 DEF Fetch
<1>q. QED
  BY <1>1, <1>2 DEF Fetch

\* A journal is opened while everything is in order.
LEMMA JournalOpened ==
  ASSUME IInv, Fault \/ NoFault, agent.pc \in {"load", "check"},
         UNCHANGED <<outside, receipt, marker, env, current, host>>,
         journal' = [component |-> agent.component, sha |-> agent.sha, images |-> env,
                     chaincode |-> IF agent.component \in Images THEN 0 ELSE current,
                     phase |-> IF agent.component \in Images THEN "image" ELSE "preparing"]
  PROVE  World' /\ journal' # NoJournal
<1>0. UNCHANGED <<main, published, receipt, marker, env, current, image, chaincode, up>>
  BY DEF outside, host
<1>1. /\ journal = NoJournal /\ Whole /\ WorldType
      /\ agent.component \in Components /\ agent.sha \in Releases(agent.component) /\ agent.sha \in Nat
      /\ receipt[agent.component].status # "success"
  BY DEF IInv, World, AgentOK, AgentType, ReleaseOK
<1>2. /\ journal'.component = agent.component /\ journal'.sha = agent.sha
      /\ journal'.images = env
      /\ journal'.chaincode = (IF agent.component \in Images THEN 0 ELSE current)
      /\ journal'.phase = (IF agent.component \in Images THEN "image" ELSE "preparing")
  OBVIOUS
<1>3. 0 \in Releases("blockchain") /\ Releases("blockchain") \subseteq Nat
  BY ReleaseAssumption, Names DEF Releases
<1>4. env \in [Images -> Nat] /\ current \in Nat /\ current \in Releases("blockchain")
      /\ \A c \in Images : env[c] \in Releases(c)
  BY <1>1, <1>3 DEF WorldType
<1>5. journal' # NoJournal
  BY <1>1, <1>2, NoJournalNames
<1>6. JournalType'
  <2>1. journal' \in Journal
    BY <1>1, <1>4 DEF Journal
  <2>q. QED
    BY <1>0, <1>1, <1>2, <1>3, <1>4, <2>1 DEF JournalType
<1>7. Whole' /\ (ReceiptTrue' <=> ReceiptTrue)
  BY <1>0, <1>1 DEF Whole, FromFile, Filed, AllFit, ReceiptTrue
<1>8. Undoable'
  BY <1>0, <1>1, <1>2, <1>7 DEF Undoable, Whole, FromFile
<1>9. ReceiptOK'
  BY <1>0, <1>1, <1>2 DEF ReceiptOK
<1>10. WorldType'
  BY <1>0, <1>1, FaultsType DEF WorldType
<1>q. QED
  BY <1>5, <1>6, <1>7, <1>8, <1>9, <1>10 DEF IInv, World

LEMMA LoadStep == ASSUME IInv, Load PROVE IInv'
<1>0. UNCHANGED <<outside, receipt, marker, env, current, host>> /\ agent.pc = "load" /\ (Fault \/ NoFault)
      /\ agent.component \in Images
  BY DEF Load, At, IInv, AgentOK, ReleaseOK
<1>1. CASE Raise /\ UNCHANGED journal
  <2>1. World'
    BY <1>0, <1>1, WorldKept DEF IInv, files
  <2>q. QED
    BY <1>0, <1>1, <2>1, RaiseStep
<1>2. CASE /\ journal' = [component |-> agent.component, sha |-> agent.sha, images |-> env,
                          chaincode |-> 0, phase |-> "image"]
           /\ Goto("env")
  <2>1. World' /\ journal' # NoJournal
    BY <1>0, <1>2, JournalOpened
  <2>2. /\ AgentType' /\ agent'.pc = "env" /\ agent'.switched = agent.switched
        /\ agent'.component = agent.component /\ agent'.sha = agent.sha
        /\ agent'.recovered = agent.recovered /\ agent'.claimed = agent.claimed
        /\ agent'.recovering = agent.recovering
    BY <1>2, GotoStep DEF IInv, AgentOK
  <2>3. FlagsOK'
    BY <1>0, <2>2 DEF IInv, AgentOK, FlagsOK
  <2>4. ReleaseOK'
    <3>1. journal'.component = agent.component /\ journal'.sha = agent.sha
      BY <1>2
    <3>q. QED
      BY <1>0, <2>1, <2>2, <3>1 DEF IInv, AgentOK, ReleaseOK
  <2>5. MarkerOK'
    BY <1>0 DEF IInv, AgentOK, MarkerOK
  <2>6. ActivationOK'
    <3>1. Whole
      BY <1>0 DEF IInv, World, AgentOK, ReleaseOK
    <3>2. journal'.images = env
      BY <1>2
    <3>3. Untouched'
      BY <1>0, <3>1, <3>2 DEF Untouched, Whole, FromFile, Filed, AllFit, host
    <3>q. QED
      BY <2>2, <3>3 DEF ActivationOK
  <2>7. UndoOK'
    BY <2>2, <2>3 DEF UndoOK, FlagsOK
  <2>q. QED
    BY <2>1, <2>2, <2>3, <2>4, <2>5, <2>6, <2>7 DEF IInv, AgentOK
<1>q. QED
  BY <1>1, <1>2 DEF Load

-----------------------------------------------------------------------------
(* The activation of an image *)

LEMMA ActivationFacts ==
  ASSUME IInv, agent.pc \in Activation
  PROVE  /\ ~agent.recovering /\ ~agent.recovered /\ ~agent.claimed
         /\ journal # NoJournal /\ JournalType /\ Undoable /\ WorldType
         /\ journal.component = agent.component /\ journal.sha = agent.sha
         /\ agent.component \in Components /\ agent.sha \in Releases(agent.component)
         /\ receipt[agent.component].status # "success"
<1>1. ~agent.recovering /\ ~agent.recovered /\ ~agent.claimed
  BY DEF IInv, AgentOK, FlagsOK
<1>2. /\ journal # NoJournal
      /\ journal.component = agent.component /\ journal.sha = agent.sha
      /\ agent.component \in Components /\ agent.sha \in Releases(agent.component)
      /\ receipt[agent.component].status # "success"
  BY DEF IInv, AgentOK, ReleaseOK
<1>q. QED
  BY <1>1, <1>2 DEF IInv, World

\* The activation goes on.
LEMMA ActivationStep ==
  ASSUME IInv, World', agent.pc \in Activation, NEW pc \in Activation \cup {"succeed"}, Goto(pc),
         UNCHANGED receipt,
         journal' # NoJournal, journal'.component = journal.component, journal'.sha = journal.sha,
         pc \in ImageOnly => agent.component \in Images,
         pc \in LedgerOnly => agent.component = "blockchain",
         pc \in {"env", "candidate"} => ~agent.switched,
         pc \in {"stop", "start", "probe"} /\ agent.component \in Images => agent.switched,
         marker' # "none" => pc \in {"snapshot", "restart"},
         AgentType' /\ agent'.pc = pc /\ agent'.component = agent.component /\ agent'.sha = agent.sha
           => ActivationOK'
  PROVE  IInv'
<1>0. /\ AgentType' /\ agent'.pc = pc /\ agent'.switched = agent.switched
      /\ agent'.component = agent.component /\ agent'.sha = agent.sha
      /\ agent'.recovered = agent.recovered /\ agent'.claimed = agent.claimed
      /\ agent'.recovering = agent.recovering
  BY GotoStep DEF IInv, AgentOK
<1>1. /\ ~agent.recovering /\ ~agent.recovered /\ ~agent.claimed
      /\ journal.component = agent.component /\ journal.sha = agent.sha
      /\ agent.component \in Components /\ agent.sha \in Releases(agent.component)
      /\ receipt[agent.component].status # "success"
  BY ActivationFacts
<1>2. FlagsOK'
  BY <1>0, <1>1 DEF FlagsOK
<1>3. ReleaseOK'
  BY <1>0, <1>1 DEF ReleaseOK
<1>4. MarkerOK' /\ UndoOK'
  BY <1>0, <1>1 DEF MarkerOK, UndoOK
<1>q. QED
  BY <1>0, <1>2, <1>3, <1>4 DEF IInv, AgentOK

LEMMA WriteEnvStep == ASSUME IInv, WriteEnv PROVE IInv'
<1>0. /\ UNCHANGED <<main, published, receipt, journal, marker, current, image, chaincode, up>>
      /\ agent.pc = "env" /\ (Fault \/ NoFault)
  BY DEF WriteEnv, At, outside, host
<1>1. /\ journal # NoJournal /\ JournalType /\ Undoable /\ WorldType
      /\ journal.component = agent.component /\ journal.sha = agent.sha
      /\ agent.component \in Components /\ agent.sha \in Releases(agent.component)
      /\ receipt[agent.component].status # "success"
  BY <1>0, ActivationFacts
<1>2. agent.component \in Images /\ Untouched /\ marker = "none" /\ ~agent.switched
  BY <1>0 DEF IInv, AgentOK, FlagsOK, ReleaseOK, ActivationOK, MarkerOK
<1>3. agent.sha \in Nat
  BY DEF IInv, AgentOK, AgentType
<1>4. env' \in [Images -> Nat] /\ \A c \in Images : env'[c] \in Releases(c)
  BY <1>1, <1>2, <1>3 DEF WriteEnv, WorldType
<1>5. \A c \in Images \ {agent.component} : env'[c] = env[c]
  BY <1>1, <1>2 DEF WriteEnv, WorldType
<1>6. WorldType'
  BY <1>0, <1>1, <1>4, FaultsType DEF WorldType
<1>7. JournalType'
  BY <1>0, <1>1 DEF JournalType
<1>8. Undoable'
  BY <1>0, <1>1, <1>2, <1>5, Names DEF Undoable, Filed
<1>9. World'
  BY <1>0, <1>1, <1>6, <1>7, <1>8, WorldChanged DEF IInv
<1>10. CASE Raise
  BY <1>0, <1>9, <1>10, RaiseStep
<1>11. CASE env' = [env EXCEPT ![agent.component] = agent.sha] /\ Goto("candidate")
  <2>1. env'[agent.component] = agent.sha
    BY <1>1, <1>2, <1>11 DEF WorldType
  <2>2. Untouched'
    BY <1>0, <1>2 DEF Untouched, Filed, AllFit
  <2>3. AgentType' /\ agent'.pc = "candidate" /\ agent'.component = agent.component
          /\ agent'.sha = agent.sha => ActivationOK'
    BY <2>1, <2>2 DEF ActivationOK
  <2>q. QED
    BY <1>0, <1>1, <1>2, <1>9, <1>11, <2>3, ActivationStep
<1>q. QED
  BY <1>10, <1>11 DEF WriteEnv

LEMMA CandidateStep == ASSUME IInv, Candidate PROVE IInv'
<1>0. UNCHANGED <<outside, files, host>> /\ agent.pc = "candidate" /\ (Fault \/ NoFault)
  BY DEF Candidate, At
<1>u. UNCHANGED <<main, published, receipt, journal, marker, env, current, image, chaincode, up>>
  BY <1>0 DEF outside, files, host
<1>1. World'
  BY <1>0, WorldKept DEF IInv
<1>2. CASE Raise
  BY <1>0, <1>1, <1>2, <1>u, RaiseStep
<1>3. CASE agent' = [agent EXCEPT !.switched = TRUE, !.pc = "stop"]
  <2>1. /\ AgentType' /\ agent'.pc = "stop" /\ agent'.switched
        /\ agent'.component = agent.component /\ agent'.sha = agent.sha
        /\ agent'.recovered = agent.recovered /\ agent'.claimed = agent.claimed
        /\ agent'.recovering = agent.recovering
    BY <1>3 DEF IInv, AgentOK, AgentType
  <2>2. FlagsOK'
    BY <1>0, <2>1 DEF IInv, AgentOK, FlagsOK
  <2>3. ReleaseOK'
    BY <1>0, <1>u, <2>1 DEF IInv, AgentOK, ReleaseOK
  <2>4. MarkerOK'
    BY <1>0, <1>u DEF IInv, AgentOK, MarkerOK
  <2>5. ActivationOK'
    <3>1. agent.component \in Images /\ env[agent.component] = agent.sha
      BY <1>0 DEF IInv, AgentOK, ReleaseOK, ActivationOK
    <3>q. QED
      BY <1>u, <2>1, <3>1, Names DEF ActivationOK
  <2>6. UndoOK'
    BY <2>1, <2>2 DEF UndoOK, FlagsOK
  <2>q. QED
    BY <1>1, <2>1, <2>2, <2>3, <2>4, <2>5, <2>6 DEF IInv, AgentOK
<1>q. QED
  BY <1>2, <1>3 DEF Candidate

\* Containers of the deployment are stopped.
LEMMA StopWorld ==
  ASSUME IInv, agent.pc \in Activation, Fault \/ NoFault,
         UNCHANGED <<main, published, receipt, journal, env, current, image, chaincode>>,
         marker' \in {"none", "worker", "no worker"},
         up' \subseteq Containers, Containers \ Touched(journal.component) \subseteq up'
  PROVE  World'
<1>1. /\ journal # NoJournal /\ JournalType /\ Undoable /\ WorldType
      /\ journal.component = agent.component
      /\ receipt[agent.component].status # "success"
  BY ActivationFacts
<1>2. WorldType'
  BY <1>1, FaultsType DEF WorldType
<1>3. JournalType' /\ Undoable'
  BY <1>1 DEF JournalType, Undoable, Filed
<1>q. QED
  BY <1>1, <1>2, <1>3, WorldChanged DEF IInv

LEMMA StopStep == ASSUME IInv, Stop PROVE IInv'
<1>0. /\ UNCHANGED <<main, published, receipt, journal, marker, env, current, image, chaincode>>
      /\ agent.pc = "stop" /\ (Fault \/ NoFault)
  BY DEF Stop, At, outside, files
<1>1. /\ journal # NoJournal /\ Undoable /\ WorldType /\ journal.component = agent.component
      /\ agent.component \in Components
  BY <1>0, ActivationFacts
<1>2. agent.component \in Images /\ marker = "none" /\ agent.switched /\ env[agent.component] = agent.sha
  BY <1>0 DEF IInv, AgentOK, FlagsOK, ReleaseOK, ActivationOK, MarkerOK
<1>3. PICK S \in SUBSET With(agent.component) : up' = up \ S
  BY DEF Stop
<1>4. World'
  <2>1. up' \subseteq Containers /\ Containers \ Touched(journal.component) \subseteq up'
    BY <1>1, <1>3 DEF WorldType, Undoable, Touched
  <2>2. marker' \in {"none", "worker", "no worker"}
    BY <1>0, <1>2
  <2>q. QED
    BY <1>0, <2>1, <2>2, StopWorld
<1>5. CASE Raise
  BY <1>0, <1>4, <1>5, RaiseStep
<1>6. CASE Goto("start")
  <2>3. AgentType' /\ agent'.pc = "start" /\ agent'.component = agent.component /\ agent'.sha = agent.sha
          => ActivationOK'
    BY <1>0, <1>2, Names DEF ActivationOK
  <2>q. QED
    BY <1>0, <1>1, <1>2, <1>4, <1>6, <2>3, ActivationStep
<1>q. QED
  BY <1>5, <1>6 DEF Stop

\* A probe that passes ends the activation: everything runs and works.
LEMMA ProbeNewStep == ASSUME IInv, ProbeNew PROVE IInv'
<1>0. UNCHANGED <<outside, files, host>> /\ agent.pc = "probe" /\ (Fault \/ NoFault)
  BY DEF ProbeNew, At
<1>u. UNCHANGED <<main, published, receipt, journal, marker, env, current, image, chaincode, up>>
  BY <1>0 DEF outside, files, host
<1>1. World'
  BY <1>0, WorldKept DEF IInv
<1>2. /\ journal # NoJournal /\ JournalType /\ Undoable /\ WorldType
      /\ journal.component = agent.component /\ agent.component \in Components
  BY <1>0, ActivationFacts
<1>3. CASE Raise
  BY <1>0, <1>1, <1>3, <1>u, RaiseStep
<1>4. CASE /\ Probe(agent.component)
           /\ Goto(IF agent.component \in Images THEN "cleanup" ELSE "record")
  <2>1. marker = "none" /\ FromFile
    BY <1>0 DEF IInv, AgentOK, ActivationOK, MarkerOK
  <2>2. up = Containers /\ AllFit
    BY <1>2, <1>4, <2>1, ProbeMeans
  <2>3. CASE agent.component \in Images
    <3>1. env[agent.component] = agent.sha
      BY <1>0, <2>3 DEF IInv, AgentOK, ActivationOK
    <3>2. journal.phase = "image"
      BY <1>2, <2>3 DEF JournalType
    <3>3. Filed
      BY <1>2, <3>2 DEF Undoable
    <3>4. Whole /\ RunsRelease
      BY <2>1, <2>2, <2>3, <3>1, <3>3 DEF Whole, RunsRelease, FromFile
    <3>5. Whole'
      BY <1>u, <3>4 DEF Whole, FromFile, Filed, AllFit
    <3>6. agent'.component = agent.component /\ agent'.sha = agent.sha => RunsRelease'
      BY <1>u, <3>4 DEF RunsRelease
    <3>7. AgentType' /\ agent'.pc = "cleanup" /\ agent'.component = agent.component
            /\ agent'.sha = agent.sha => ActivationOK'
      BY <3>5, <3>6 DEF ActivationOK
    <3>8. Goto("cleanup")
      BY <1>4, <2>3
    <3>q. QED
      BY <1>0, <1>1, <1>2, <1>u, <2>1, <2>3, <3>7, <3>8, ActivationStep
  <2>4. CASE agent.component \notin Images
    <3>1. agent.component = "blockchain"
      BY <1>2, <2>4, Names
    <3>2. chaincode = agent.sha /\ journal.phase = "upgrading"
      BY <1>0, <3>1 DEF IInv, AgentOK, ActivationOK
    <3>3. FromFile' /\ up' = Containers /\ AllFit'
      BY <1>u, <2>1, <2>2 DEF FromFile, AllFit
    <3>7. AgentType' /\ agent'.pc = "record" /\ agent'.component = agent.component
            /\ agent'.sha = agent.sha => ActivationOK'
      BY <1>u, <3>2, <3>3 DEF ActivationOK
    <3>8. Goto("record")
      BY <1>4, <2>4
    <3>q. QED
      BY <1>0, <1>1, <1>2, <1>u, <2>1, <3>1, <3>7, <3>8, ActivationStep
  <2>q. QED
    BY <2>3, <2>4
<1>q. QED
  BY <1>3, <1>4 DEF ProbeNew

LEMMA CleanupStep == ASSUME IInv, Cleanup PROVE IInv'
<1>0. UNCHANGED <<outside, files, host>> /\ agent.pc = "cleanup" /\ (Fault \/ NoFault)
  BY DEF Cleanup, At
<1>u. UNCHANGED <<main, published, receipt, journal, marker, env, current, image, chaincode, up>>
  BY <1>0 DEF outside, files, host
<1>1. World'
  BY <1>0, WorldKept DEF IInv
<1>2. journal # NoJournal
  BY <1>0, ActivationFacts
<1>3. CASE Raise
  BY <1>0, <1>1, <1>3, <1>u, RaiseStep
<1>4. CASE Goto("succeed")
  <2>1. Whole /\ RunsRelease /\ marker = "none"
    BY <1>0 DEF IInv, AgentOK, ActivationOK, MarkerOK
  <2>2. Whole'
    BY <1>u, <2>1 DEF Whole, FromFile, Filed, AllFit
  <2>3. agent'.component = agent.component /\ agent'.sha = agent.sha => RunsRelease'
    BY <1>u, <2>1 DEF RunsRelease
  <2>4. AgentType' /\ agent'.pc = "succeed" /\ agent'.component = agent.component
          /\ agent'.sha = agent.sha => ActivationOK'
    BY <2>2, <2>3 DEF ActivationOK
  <2>q. QED
    BY <1>0, <1>1, <1>2, <1>4, <1>u, <2>1, <2>4, ActivationStep
<1>q. QED
  BY <1>3, <1>4 DEF Cleanup

-----------------------------------------------------------------------------
(* The activation of the chaincode *)

LEMMA CheckStep == ASSUME IInv, Check PROVE IInv'
<1>0. UNCHANGED <<outside, receipt, marker, env, current, host>> /\ agent.pc = "check" /\ (Fault \/ NoFault)
  BY DEF Check, At
<1>u. UNCHANGED <<main, published, receipt, marker, env, current, image, chaincode, up>>
  BY <1>0 DEF outside, host
<1>v. /\ journal = NoJournal /\ Whole /\ agent.component = "blockchain" /\ marker = "none"
      /\ ~agent.recovering /\ ~agent.recovered /\ ~agent.claimed /\ ~agent.switched
      /\ agent.sha \in Releases("blockchain") /\ receipt["blockchain"].status # "success"
  BY <1>0 DEF IInv, World, AgentOK, FlagsOK, ReleaseOK, MarkerOK
<1>1. CASE UNCHANGED journal /\ Raise
  <2>1. World'
    BY <1>0, <1>1, WorldKept DEF IInv, files
  <2>q. QED
    BY <1>0, <1>1, <2>1, RaiseStep
<1>2. CASE /\ Content["blockchain"][current] = Content["blockchain"][agent.sha]
           /\ UNCHANGED journal /\ Goto("succeed")
  <2>1. World'
    BY <1>0, <1>2, WorldKept DEF IInv, files
  <2>2. /\ AgentType' /\ agent'.pc = "succeed" /\ agent'.switched = agent.switched
        /\ agent'.component = agent.component /\ agent'.sha = agent.sha
        /\ agent'.recovered = agent.recovered /\ agent'.claimed = agent.claimed
        /\ agent'.recovering = agent.recovering
    BY <1>2, GotoStep DEF IInv, AgentOK
  <2>3. Whole' /\ Filed'
    BY <1>u, <1>v DEF Whole, FromFile, Filed, AllFit
  <2>4. RunsRelease'
    BY <1>u, <1>v, <1>2, <2>2, <2>3, Names DEF RunsRelease, Filed
  <2>5. FlagsOK' /\ ReleaseOK' /\ MarkerOK' /\ ActivationOK' /\ UndoOK'
    BY <1>u, <1>v, <1>2, <2>2, <2>3, <2>4, Names DEF FlagsOK, ReleaseOK, MarkerOK, ActivationOK, UndoOK
  <2>q. QED
    BY <2>1, <2>2, <2>5 DEF IInv, AgentOK
<1>3. CASE /\ journal' = [component |-> "blockchain", sha |-> agent.sha, images |-> env,
                          chaincode |-> current, phase |-> "preparing"]
           /\ Goto("backup")
  <2>1. World' /\ journal' # NoJournal
    BY <1>0, <1>v, <1>3, Names, JournalOpened
  <2>2. /\ AgentType' /\ agent'.pc = "backup" /\ agent'.switched = agent.switched
        /\ agent'.component = agent.component /\ agent'.sha = agent.sha
        /\ agent'.recovered = agent.recovered /\ agent'.claimed = agent.claimed
        /\ agent'.recovering = agent.recovering
    BY <1>3, GotoStep DEF IInv, AgentOK
  <2>3. journal'.component = "blockchain" /\ journal'.sha = agent.sha /\ journal'.phase = "preparing"
    BY <1>3
  <2>4. FlagsOK' /\ ReleaseOK' /\ MarkerOK' /\ ActivationOK' /\ UndoOK'
    BY <1>u, <1>v, <2>1, <2>2, <2>3, Names DEF FlagsOK, ReleaseOK, MarkerOK, ActivationOK, UndoOK
  <2>q. QED
    BY <2>1, <2>2, <2>4 DEF IInv, AgentOK
<1>q. QED
  BY <1>1, <1>2, <1>3 DEF Check

\* The steps before the upgrade stop and start Fabric and the worker only.
LEMMA PreparingFacts ==
  ASSUME IInv, agent.pc \in {"backup", "snapshot", "restart", "halt", "upgrade"}
  PROVE  /\ agent.component = "blockchain" /\ journal.phase = "preparing"
         /\ journal # NoJournal /\ Undoable /\ WorldType /\ JournalType
         /\ journal.component = "blockchain" /\ Touched(journal.component) = {"worker", "fabric"}
         /\ marker \in {"none", "worker", "no worker"} /\ FromFile
<1>1. /\ journal # NoJournal /\ Undoable /\ WorldType /\ JournalType
      /\ journal.component = agent.component
  BY ActivationFacts
<1>2. agent.component = "blockchain" /\ journal.phase = "preparing"
  BY DEF IInv, AgentOK, ReleaseOK, ActivationOK
<1>3. FromFile
  BY <1>1, <1>2, Names DEF Undoable, FromFile
<1>q. QED
  BY <1>1, <1>2, <1>3, Names DEF Touched, WorldType

LEMMA BackupStep == ASSUME IInv, Backup PROVE IInv'
<1>0. /\ UNCHANGED <<main, published, receipt, journal, env, current, image, chaincode, up>>
      /\ agent.pc = "backup" /\ (Fault \/ NoFault)
  BY DEF Backup, At, outside, host
<1>1. /\ agent.component = "blockchain" /\ journal.phase = "preparing"
      /\ journal # NoJournal /\ Undoable /\ WorldType
      /\ journal.component = "blockchain" /\ marker \in {"none", "worker", "no worker"}
  BY <1>0, PreparingFacts
<1>2. marker' \in {"none", "worker", "no worker"}
  BY <1>1 DEF Backup
<1>3. World'
  BY <1>0, <1>1, <1>2, StopWorld DEF WorldType, Undoable
<1>4. CASE Raise
  BY <1>0, <1>3, <1>4, RaiseStep
<1>5. CASE Goto("snapshot")
  <2>1. AgentType' /\ agent'.pc = "snapshot" /\ agent'.component = agent.component
          /\ agent'.sha = agent.sha => ActivationOK'
    BY <1>0, <1>1, Names DEF ActivationOK
  <2>q. QED
    BY <1>0, <1>1, <1>3, <1>5, <2>1, ActivationStep
<1>q. QED
  BY <1>4, <1>5 DEF Backup

LEMMA SnapshotStep == ASSUME IInv, Snapshot PROVE IInv'
<1>0. /\ UNCHANGED <<main, published, receipt, journal, env, current, image, chaincode>>
      /\ agent.pc = "snapshot" /\ (Fault \/ NoFault)
  BY DEF Snapshot, At, outside
<1>1. /\ agent.component = "blockchain" /\ journal.phase = "preparing"
      /\ journal # NoJournal /\ Undoable /\ WorldType
      /\ journal.component = "blockchain" /\ Touched(journal.component) = {"worker", "fabric"}
      /\ marker \in {"none", "worker", "no worker"}
  BY <1>0, PreparingFacts
<1>2. marker' \in {"none", "worker", "no worker"}
  BY <1>1 DEF Snapshot
<1>3. PICK S \in SUBSET Snapped : up' = up \ S \/ up' = up \cup S
  BY DEF Snapshot, Snapped, Restarted
<1>4. World'
  <2>1. up' \subseteq Containers /\ Containers \ Touched(journal.component) \subseteq up'
    BY <1>1, <1>3, Names DEF WorldType, Undoable, Snapped
  <2>q. QED
    BY <1>0, <1>2, <2>1, StopWorld
<1>5. CASE Raise
  BY <1>0, <1>4, <1>5, RaiseStep
<1>6. CASE Goto("restart")
  <2>1. AgentType' /\ agent'.pc = "restart" /\ agent'.component = agent.component
          /\ agent'.sha = agent.sha => ActivationOK'
    BY <1>0, <1>1, Names DEF ActivationOK
  <2>q. QED
    BY <1>0, <1>1, <1>4, <1>6, <2>1, ActivationStep
<1>q. QED
  BY <1>5, <1>6 DEF Snapshot

\* What is created again comes from the images that ran.
LEMMA RestartStep == ASSUME IInv, Restart PROVE IInv'
<1>0. /\ UNCHANGED <<main, published, receipt, journal, env, current, chaincode>>
      /\ agent.pc = "restart" /\ (Fault \/ NoFault)
  BY DEF Restart, At, outside
<1>1. /\ agent.component = "blockchain" /\ journal.phase = "preparing"
      /\ journal # NoJournal /\ Undoable /\ WorldType /\ FromFile
      /\ journal.component = "blockchain" /\ Touched(journal.component) = {"worker", "fabric"}
      /\ marker \in {"none", "worker", "no worker"}
  BY <1>0, PreparingFacts
<1>2. marker' \in {"none", "worker", "no worker"}
  BY <1>1 DEF Restart
<1>3. PICK S \in SUBSET Snapped : up' = up \cup S /\ image' = Created(S)
  BY DEF Restart, Snapped, Restarted
<1>4. image' = image
  <2>1. /\ image' \in [Services -> Nat]
        /\ \A s \in Services : image'[s] = IF s \in S THEN env[ImageOf(s)] ELSE image[s]
    BY <1>1, <1>3, CreatedContainers
  <2>2. \A s \in Services : image'[s] = image[s]
    BY <1>1, <2>1 DEF FromFile
  <2>3. image \in [Services -> Nat]
    BY <1>1 DEF WorldType
  <2>q. QED
    BY <2>1, <2>2, <2>3
<1>5. World'
  <2>1. up' \subseteq Containers /\ Containers \ Touched(journal.component) \subseteq up'
    BY <1>1, <1>3, Names DEF WorldType, Undoable, Snapped
  <2>q. QED
    BY <1>0, <1>2, <1>4, <2>1, StopWorld
<1>6. CASE Raise
  BY <1>0, <1>5, <1>6, RaiseStep
<1>7. CASE Goto("halt") /\ marker' = "none"
  <2>1. AgentType' /\ agent'.pc = "halt" /\ agent'.component = agent.component
          /\ agent'.sha = agent.sha => ActivationOK'
    BY <1>0, <1>1, Names DEF ActivationOK
  <2>q. QED
    BY <1>0, <1>1, <1>5, <1>7, <2>1, ActivationStep
<1>q. QED
  BY <1>6, <1>7 DEF Restart

LEMMA HaltStep == ASSUME IInv, Halt PROVE IInv'
<1>0. /\ UNCHANGED <<main, published, receipt, journal, marker, env, current, image, chaincode>>
      /\ agent.pc = "halt" /\ (Fault \/ NoFault) /\ up' \in {up, up \ {"worker"}}
  BY DEF Halt, At, outside, files
<1>1. /\ agent.component = "blockchain" /\ journal.phase = "preparing"
      /\ journal # NoJournal /\ Undoable /\ WorldType
      /\ journal.component = "blockchain" /\ Touched(journal.component) = {"worker", "fabric"}
  BY <1>0, PreparingFacts
<1>2. marker = "none"
  BY <1>0 DEF IInv, AgentOK, MarkerOK
<1>3. World'
  <2>1. up' \subseteq Containers /\ Containers \ Touched(journal.component) \subseteq up'
    BY <1>0, <1>1 DEF WorldType, Undoable
  <2>q. QED
    BY <1>0, <1>2, <2>1, StopWorld
<1>4. CASE Raise
  BY <1>0, <1>3, <1>4, RaiseStep
<1>5. CASE Goto("upgrade")
  <2>1. AgentType' /\ agent'.pc = "upgrade" /\ agent'.component = agent.component
          /\ agent'.sha = agent.sha => ActivationOK'
    BY <1>0, <1>1, Names DEF ActivationOK
  <2>q. QED
    BY <1>0, <1>1, <1>2, <1>3, <1>5, <2>1, ActivationStep
<1>q. QED
  BY <1>4, <1>5 DEF Halt

LEMMA UpgradeStep == ASSUME IInv, Upgrade PROVE IInv'
<1>0. /\ UNCHANGED <<outside, receipt, marker, env, current, host>>
      /\ agent.pc = "upgrade" /\ (Fault \/ NoFault)
  BY DEF Upgrade, At
<1>u. UNCHANGED <<main, published, receipt, marker, env, current, image, chaincode, up>>
  BY <1>0 DEF outside, host
<1>1. /\ agent.component = "blockchain" /\ journal.phase = "preparing"
      /\ journal # NoJournal /\ Undoable /\ WorldType /\ JournalType
      /\ journal.component = "blockchain"
  BY <1>0, PreparingFacts
<1>2. marker = "none"
  BY <1>0 DEF IInv, AgentOK, MarkerOK
<1>3. CASE Raise /\ UNCHANGED journal
  <2>1. World'
    BY <1>0, <1>3, WorldKept DEF IInv, files
  <2>q. QED
    BY <1>0, <1>3, <2>1, RaiseStep
<1>4. CASE journal' = [journal EXCEPT !.phase = Upgrading] /\ Goto("deploy")
  <2>1. /\ journal' \in Journal /\ journal'.phase = "upgrading" /\ journal'.component = "blockchain"
        /\ journal'.sha = journal.sha /\ journal'.images = journal.images
        /\ journal'.chaincode = journal.chaincode
    BY <1>1, <1>4 DEF JournalType, Journal, Upgrading
  <2>2. journal' # NoJournal
    BY <2>1, Names, NoJournalNames
  <2>3. WorldType'
    BY <1>u, <1>0, <1>1, FaultsType DEF WorldType
  <2>4. JournalType'
    BY <1>1, <2>1, Names DEF JournalType
  <2>5. Undoable'
    BY <1>u, <1>1, <2>1, Names DEF Undoable
  <2>6. receipt[journal.component].status # "success"
    BY <1>0, <1>1, ActivationFacts
  <2>7. World'
    BY <1>u, <1>1, <2>1, <2>2, <2>3, <2>4, <2>5, <2>6, WorldChanged DEF IInv
  <2>8. current' = journal'.chaincode
    BY <1>u, <1>1, <2>1 DEF Undoable
  <2>9. AgentType' /\ agent'.pc = "deploy" /\ agent'.component = agent.component
          /\ agent'.sha = agent.sha => ActivationOK'
    BY <2>1, <2>8 DEF ActivationOK
  <2>q. QED
    BY <1>0, <1>1, <1>2, <1>4, <1>u, <2>1, <2>2, <2>7, <2>9, ActivationStep
<1>q. QED
  BY <1>3, <1>4 DEF Upgrade

LEMMA DeployStep == ASSUME IInv, Deploy PROVE IInv'
<1>0. /\ UNCHANGED <<main, published, receipt, journal, marker, env, current, image, up>>
      /\ agent.pc = "deploy" /\ (Fault \/ NoFault) /\ chaincode' \in {chaincode, agent.sha}
  BY DEF Deploy, At, outside, files
<1>1. /\ journal # NoJournal /\ Undoable /\ WorldType /\ JournalType
      /\ journal.component = agent.component /\ agent.sha \in Releases(agent.component)
      /\ receipt[agent.component].status # "success"
  BY <1>0, ActivationFacts
<1>2. /\ agent.component = "blockchain" /\ journal.phase = "upgrading" /\ marker = "none"
      /\ current = journal.chaincode
  BY <1>0 DEF IInv, AgentOK, ReleaseOK, ActivationOK, MarkerOK
<1>3. WorldType'
  BY <1>0, <1>1, <1>2, FaultsType DEF WorldType
<1>4. JournalType' /\ Undoable'
  BY <1>0, <1>1, <1>2 DEF JournalType, Undoable
<1>5. World'
  BY <1>0, <1>1, <1>2, <1>3, <1>4, Names, WorldChanged DEF IInv
<1>6. CASE Raise
  BY <1>0, <1>5, <1>6, RaiseStep
<1>7. CASE chaincode' = agent.sha /\ Goto("start")
  <2>1. AgentType' /\ agent'.pc = "start" /\ agent'.component = agent.component
          /\ agent'.sha = agent.sha => ActivationOK'
    BY <1>0, <1>2, <1>7, Names DEF ActivationOK
  <2>q. QED
    BY <1>0, <1>1, <1>2, <1>5, <1>7, <2>1, Names, ActivationStep
<1>q. QED
  BY <1>6, <1>7 DEF Deploy

\* What runs is put on file.
LEMMA RecordStep == ASSUME IInv, Record PROVE IInv'
<1>0. /\ UNCHANGED <<outside, receipt, journal, marker, env, host>>
      /\ agent.pc = "record" /\ (Fault \/ NoFault) /\ current' \in {current, agent.sha}
  BY DEF Record, At
<1>u. UNCHANGED <<main, published, receipt, journal, marker, env, image, chaincode, up>>
  BY <1>0 DEF outside, host
<1>1. /\ journal # NoJournal /\ Undoable /\ WorldType /\ JournalType
      /\ journal.component = agent.component /\ agent.sha \in Releases(agent.component)
      /\ receipt[agent.component].status # "success"
  BY <1>0, ActivationFacts
<1>2. /\ agent.component = "blockchain" /\ journal.phase = "upgrading" /\ marker = "none"
      /\ chaincode = agent.sha /\ FromFile /\ up = Containers /\ AllFit
  BY <1>0 DEF IInv, AgentOK, ReleaseOK, ActivationOK, MarkerOK
<1>3. WorldType'
  BY <1>u, <1>0, <1>1, <1>2, FaultsType DEF WorldType
<1>4. JournalType' /\ Undoable'
  BY <1>u, <1>1, <1>2 DEF JournalType, Undoable
<1>5. World'
  BY <1>u, <1>1, <1>2, <1>3, <1>4, Names, WorldChanged DEF IInv
<1>6. CASE Raise /\ UNCHANGED current
  BY <1>0, <1>u, <1>5, <1>6, RaiseStep
<1>7. CASE current' = agent.sha /\ Goto("succeed")
  <2>1. Whole'
    BY <1>u, <1>2, <1>7 DEF Whole, FromFile, Filed, AllFit
  <2>2. agent'.component = agent.component /\ agent'.sha = agent.sha => RunsRelease'
    BY <1>u, <1>2, Names DEF RunsRelease
  <2>3. AgentType' /\ agent'.pc = "succeed" /\ agent'.component = agent.component
          /\ agent'.sha = agent.sha => ActivationOK'
    BY <2>1, <2>2 DEF ActivationOK
  <2>q. QED
    BY <1>0, <1>u, <1>1, <1>2, <1>5, <1>7, <2>3, Names, ActivationStep
<1>q. QED
  BY <1>6, <1>7 DEF Record

-----------------------------------------------------------------------------
(* The end of process *)

\* A failing write or unlink leaves the claim to the receipt of the failure.
LEMMA ClaimStep ==
  ASSUME IInv, agent.pc \in {"succeed", "unlink"}, RaiseClaimed, Fault, UNCHANGED <<outside, files, host>>
  PROVE  IInv'
<1>u. UNCHANGED <<main, published, receipt, journal, marker, env, current, image, chaincode, up>>
  BY DEF outside, files, host
<1>1. World'
  BY WorldKept DEF IInv
<1>2. /\ AgentType' /\ agent'.pc = "fail" /\ agent'.switched = agent.switched
      /\ agent'.component = agent.component /\ agent'.sha = agent.sha
      /\ agent'.recovered = agent.recovered /\ agent'.recovering = agent.recovering
  BY DEF IInv, AgentOK, AgentType, RaiseClaimed
<1>3. ~agent.recovering /\ ~agent.recovered
  BY DEF IInv, AgentOK, FlagsOK
<1>4. FlagsOK'
  BY <1>2, <1>3 DEF FlagsOK
<1>5. ReleaseOK'
  BY <1>u, <1>2 DEF IInv, AgentOK, ReleaseOK
<1>6. MarkerOK' /\ ActivationOK' /\ UndoOK'
  BY <1>2, <1>3 DEF MarkerOK, ActivationOK, UndoOK
<1>q. QED
  BY <1>1, <1>2, <1>4, <1>5, <1>6 DEF IInv, AgentOK

LEMMA SucceedStep == ASSUME IInv, Succeed PROVE IInv'
<1>0. UNCHANGED <<outside, journal, marker, env, current, host>> /\ agent.pc = "succeed" /\ (Fault \/ NoFault)
  BY DEF Succeed, At
<1>u. UNCHANGED <<main, published, marker, env, current, image, chaincode, up>>
  BY <1>0 DEF outside, host
<1>1. CASE RaiseClaimed /\ Fault /\ UNCHANGED receipt
  BY <1>0, <1>1, ClaimStep DEF files
<1>2. CASE /\ receipt' = [receipt EXCEPT ![agent.component] =
                            [status |-> "success", deployed |-> Deployed, attempted |-> agent.sha]]
           /\ Goto("unlink")
  <2> DEFINE r == [status |-> "success", deployed |-> agent.sha, attempted |-> agent.sha]
  <2>0. /\ Whole /\ RunsRelease /\ marker = "none"
        /\ agent.component \in Components /\ agent.sha \in Releases(agent.component) /\ agent.sha \in Nat
        /\ journal # NoJournal => journal.component = agent.component /\ journal.sha = agent.sha
    BY <1>0 DEF IInv, AgentOK, AgentType, ReleaseOK, ActivationOK, MarkerOK
  <2>1. r \in Receipt /\ {r.deployed, r.attempted} \subseteq Releases(agent.component) /\ r.deployed = agent.sha
    BY <2>0 DEF Receipt, Statuses
  <2>2. receipt' = [receipt EXCEPT ![agent.component] = r]
    BY <1>2 DEF Deployed
  <2>3. IF agent.component \in Images
        THEN \A s \in Services : ImageOf(s) = agent.component => image[s] = agent.sha
        ELSE Content[agent.component][chaincode] = Content[agent.component][agent.sha]
    BY <2>0, Names DEF RunsRelease
  <2> HIDE DEF r
  <2>4. World'
    BY <1>0, <2>0, <2>1, <2>2, <2>3, ReceiptWritten DEF IInv
  <2>5. /\ AgentType' /\ agent'.pc = "unlink" /\ agent'.switched = agent.switched
        /\ agent'.component = agent.component /\ agent'.sha = agent.sha
        /\ agent'.recovered = agent.recovered /\ agent'.claimed = agent.claimed
        /\ agent'.recovering = agent.recovering
    BY <1>2, GotoStep DEF IInv, AgentOK
  <2>6. FlagsOK'
    BY <1>0, <2>5 DEF IInv, AgentOK, FlagsOK
  <2>7. ReleaseOK'
    BY <1>0, <2>0, <2>5 DEF ReleaseOK
  <2>8. MarkerOK'
    BY <1>u, <2>0 DEF MarkerOK
  <2>9. Whole'
    BY <1>u, <2>0 DEF Whole, FromFile, Filed, AllFit
  <2>10. ActivationOK' /\ UndoOK'
    BY <2>5, <2>6, <2>9 DEF ActivationOK, UndoOK, FlagsOK
  <2>q. QED
    BY <2>4, <2>5, <2>6, <2>7, <2>8, <2>10 DEF IInv, AgentOK
<1>q. QED
  BY <1>1, <1>2 DEF Succeed

LEMMA UnlinkStep == ASSUME IInv, Unlink PROVE IInv'
<1>0. UNCHANGED <<outside, receipt, marker, env, current, host>> /\ agent.pc = "unlink" /\ (Fault \/ NoFault)
  BY DEF Unlink, At
<1>1. CASE RaiseClaimed /\ Fault /\ UNCHANGED journal
  BY <1>0, <1>1, ClaimStep DEF files
<1>2. CASE journal' = NoJournal /\ Poll
  <2>1. Whole /\ agent.todo \in SUBSET Components
    BY <1>0 DEF IInv, AgentOK, AgentType, ActivationOK
  <2>2. World'
    BY <1>0, <1>2, <2>1, JournalRemoved DEF IInv
  <2>q. QED
    BY <1>2, <2>1, <2>2, PollStep DEF Poll
<1>q. QED
  BY <1>1, <1>2 DEF Unlink

\* The run goes on only when nothing is outstanding.
LEMMA LeaveStep ==
  ASSUME AgentType, World', Leave, UNCHANGED journal
  PROVE  IInv'
<1>1. CASE journal = NoJournal
  <2>1. agent.todo \in SUBSET Components
    BY DEF AgentType
  <2>q. QED
    BY <1>1, <2>1, PollStep DEF Leave, Poll
<1>2. CASE journal # NoJournal
  BY <1>2, ExitStep DEF Leave
<1>q. QED
  BY <1>1, <1>2

LEMMA FailStep == ASSUME IInv, Fail PROVE IInv'
<1>0. UNCHANGED <<outside, journal, marker, env, current, host>> /\ agent.pc = "fail" /\ (Fault \/ NoFault)
  BY DEF Fail, At
<1>u. UNCHANGED <<main, published, marker, env, current, image, chaincode, up>>
  BY <1>0 DEF outside, host
<1>1. CASE Leave /\ Fault /\ UNCHANGED receipt
  <2>1. World'
    BY <1>0, <1>1, WorldKept DEF IInv, files
  <2>q. QED
    BY <1>0, <1>1, <2>1, LeaveStep DEF IInv, AgentOK
<1>2. CASE /\ receipt' = [receipt EXCEPT ![agent.component] =
                [status    |-> IF agent.recovered THEN "rolled_back" ELSE "failed",
                 deployed  |-> IF agent.claimed THEN agent.sha ELSE @.deployed,
                 attempted |-> agent.sha]]
           /\ Goto("failed")
  <2>0. /\ agent.component \in Components /\ agent.sha \in Releases(agent.component) /\ agent.sha \in Nat
        /\ receipt[agent.component] \in Receipt /\ receipt \in [Components -> Receipt]
        /\ receipt[agent.component].deployed \in Releases(agent.component)
    BY <1>0 DEF IInv, World, WorldType, AgentOK, AgentType, ReleaseOK
  <2> DEFINE r == [status    |-> IF agent.recovered THEN "rolled_back" ELSE "failed",
                   deployed  |-> IF agent.claimed THEN agent.sha ELSE receipt[agent.component].deployed,
                   attempted |-> agent.sha]
  <2>1. /\ r \in Receipt /\ {r.deployed, r.attempted} \subseteq Releases(agent.component)
        /\ r.status # "success"
    BY <2>0 DEF Receipt, Statuses
  <2>2. receipt' = [receipt EXCEPT ![agent.component] = r]
    BY <1>2, <2>0
  <2> HIDE DEF r
  <2>3. World'
    BY <1>0, <2>0, <2>1, <2>2, ReceiptWritten DEF IInv
  <2>5. /\ AgentType' /\ agent'.pc = "failed" /\ agent'.switched = agent.switched
        /\ agent'.component = agent.component /\ agent'.sha = agent.sha
        /\ agent'.recovered = agent.recovered /\ agent'.claimed = agent.claimed
        /\ agent'.recovering = agent.recovering
    BY <1>2, GotoStep DEF IInv, AgentOK
  <2>6. FlagsOK'
    BY <1>0, <2>5 DEF IInv, AgentOK, FlagsOK
  <2>7. ReleaseOK'
    BY <1>0, <2>5 DEF IInv, AgentOK, ReleaseOK
  <2>8. MarkerOK' /\ ActivationOK'
    BY <2>5 DEF MarkerOK, ActivationOK
  <2>9. agent.recovered => Whole'
    BY <1>u DEF IInv, AgentOK, UndoOK, Whole, FromFile, Filed, AllFit
  <2>10. UndoOK'
    BY <2>5, <2>9 DEF UndoOK
  <2>q. QED
    BY <2>3, <2>5, <2>6, <2>7, <2>8, <2>10 DEF IInv, AgentOK
<1>q. QED
  BY <1>1, <1>2 DEF Fail

\* A deployment that was undone is forgotten; another is left to the next run.
LEMMA FailedStep == ASSUME IInv, Failed PROVE IInv'
<1>0. UNCHANGED <<outside, receipt, marker, env, current, host>> /\ agent.pc = "failed" /\ (Fault \/ NoFault)
  BY DEF Failed, At
<1>1. CASE UNCHANGED journal /\ Leave
  <2>1. World'
    BY <1>0, <1>1, WorldKept DEF IInv, files
  <2>q. QED
    BY <1>1, <2>1, LeaveStep DEF IInv, AgentOK
<1>2. CASE Clears /\ journal' = NoJournal /\ Poll
  <2>1. Whole /\ agent.todo \in SUBSET Components
    BY <1>2 DEF IInv, AgentOK, AgentType, UndoOK, Clears
  <2>2. World'
    BY <1>0, <1>2, <2>1, JournalRemoved DEF IInv
  <2>q. QED
    BY <1>2, <2>1, <2>2, PollStep DEF Poll
<1>q. QED
  BY <1>1, <1>2 DEF Failed

-----------------------------------------------------------------------------
(* The outside world *)

LEMMA KillStep == ASSUME IInv, Kill PROVE IInv'
  BY WorldKept, ExitStep DEF IInv, Kill

\* main moves on, or its head is published; the host is not concerned.
LEMMA OutsideStep ==
  ASSUME IInv, NEW c \in Components, Merge(c) \/ Publish(c)
  PROVE  IInv'
<1>0. UNCHANGED <<receipt, journal, marker, env, current, image, chaincode, up, agent, faults>>
  BY DEF Merge, Publish, files, host
<1>1. main' \in [Components -> Nat] /\ (\A d \in Components : main'[d] \in Releases(d))
      /\ published' \subseteq Components
  <2>1. /\ main \in [Components -> Nat] /\ \A d \in Components : main[d] \in Releases(d)
        /\ published \subseteq Components
    BY DEF IInv, World, WorldType
  <2>2. Last[c] \in Nat
    BY ReleaseAssumption
  <2>3. CASE Publish(c)
    BY <2>1, <2>3 DEF Publish
  <2>4. CASE Merge(c)
    <3>1. main' = [main EXCEPT ![c] = main[c] + 1] /\ published' \subseteq Components
      BY <2>1, <2>4 DEF Merge
    <3>2. main[c] + 1 \in Nat /\ main[c] + 1 \in Releases(c)
      BY <2>1, <2>2, <2>4 DEF Merge, Releases
    <3>q. QED
      BY <2>1, <3>1, <3>2
  <2>q. QED
    BY <2>3, <2>4
<1>2. WorldType'
  BY <1>0, <1>1 DEF IInv, World, WorldType
<1>3. (Whole' <=> Whole) /\ (JournalType' <=> JournalType) /\ (Undoable' <=> Undoable)
      /\ (ReceiptTrue' <=> ReceiptTrue)
  BY <1>0 DEF Whole, FromFile, Filed, AllFit, JournalType, Undoable, ReceiptTrue
<1>4. ReceiptOK' <=> ReceiptOK
  BY <1>0, <1>3 DEF ReceiptOK
<1>5. World'
  BY <1>0, <1>2, <1>3, <1>4 DEF IInv, World
<1>6. AgentType' /\ FlagsOK' /\ ReleaseOK' /\ MarkerOK'
  BY <1>0 DEF IInv, AgentOK, AgentType, FlagsOK, ReleaseOK, MarkerOK
<1>7. (Untouched' <=> Untouched) /\ (RunsRelease' <=> RunsRelease) /\ (FromFile' <=> FromFile)
      /\ (Filed' <=> Filed) /\ (AllFit' <=> AllFit)
  BY <1>0 DEF Untouched, RunsRelease, FromFile, Filed, AllFit
<1>8. ActivationOK'
  BY <1>0, <1>3, <1>7 DEF IInv, AgentOK, ActivationOK
<1>9. UndoOK'
  BY <1>0, <1>3, <1>7 DEF IInv, AgentOK, UndoOK
<1>q. QED
  BY <1>5, <1>6, <1>8, <1>9 DEF IInv, AgentOK

LEMMA RetryStep == ASSUME IInv, NEW c \in Components, Retry(c) PROVE IInv'
<1>0. /\ UNCHANGED <<outside, journal, marker, env, current, host, agent, faults>>
      /\ agent.pc = "idle" /\ NoFault
      /\ receipt' = [receipt EXCEPT ![c].status = "retry_requested"]
  BY DEF Retry, At, NoFault
<1>1. /\ receipt[c] \in Receipt /\ receipt \in [Components -> Receipt]
      /\ {receipt[c].deployed, receipt[c].attempted} \subseteq Releases(c)
  BY DEF IInv, World, WorldType
<1> DEFINE r == [receipt[c] EXCEPT !.status = "retry_requested"]
<1>2. r \in Receipt /\ {r.deployed, r.attempted} \subseteq Releases(c) /\ r.status # "success"
  BY <1>1 DEF Receipt, Statuses
<1>3. receipt' = [receipt EXCEPT ![c] = r]
  BY <1>0, <1>1 DEF Receipt
<1> HIDE DEF r
<1>4. World'
  BY <1>0, <1>2, <1>3, ReceiptWritten DEF IInv
<1>5. AgentType' /\ FlagsOK' /\ MarkerOK'
  BY <1>0 DEF IInv, AgentOK, AgentType, FlagsOK, MarkerOK
<1>6. ReleaseOK' /\ ActivationOK'
  BY <1>0 DEF ReleaseOK, ActivationOK
<1>7. UndoOK'
  BY <1>0, <1>5 DEF UndoOK, FlagsOK
<1>q. QED
  BY <1>4, <1>5, <1>6, <1>7 DEF IInv, AgentOK

-----------------------------------------------------------------------------
(* Theorems *)

LEMMA InitIInv == ASSUME Init PROVE IInv
<1>1. \A c \in Components : 0 \in Releases(c) /\ Content[c][0] \notin Broken[c] \cup Unfit[c]
  BY ReleaseAssumption, ContentAssumption DEF Releases
<1>2. MaxFaults \in Nat /\ "blockchain" \in Components /\ Images \subseteq Components
      /\ \A s \in Services : ImageOf(s) \in Components
  BY ReleaseAssumption, Names
<1>3. WorldType
  BY <1>1, <1>2 DEF Init, WorldType, Receipt, Statuses
<1>4. AllFit
  <2>1. chaincode = 0 /\ \A s \in Services : image[s] = 0
    BY DEF Init
  <2>q. QED
    BY <1>1, <1>2, <2>1 DEF AllFit, Fit
<1>5. Whole
  BY <1>2, <1>4, Names DEF Init, Whole, FromFile, Filed
<1>6. ReceiptTrue
  BY <1>2, Names DEF Init, ReceiptTrue
<1>7. World
  BY <1>3, <1>5, <1>6 DEF Init, World
<1>8. agent.pc = "idle" /\ ~agent.recovering /\ ~agent.recovered /\ ~agent.claimed /\ ~agent.switched
      /\ marker = "none"
  BY DEF Init, Idle
<1>9. AgentType
  BY DEF Init, Idle, AgentType
<1>10. FlagsOK /\ ReleaseOK /\ MarkerOK /\ ActivationOK /\ UndoOK
  BY <1>8 DEF FlagsOK, ReleaseOK, MarkerOK, ActivationOK, UndoOK
<1>q. QED
  BY <1>7, <1>9, <1>10 DEF IInv, AgentOK

LEMMA StutterIInv == ASSUME IInv, UNCHANGED vars PROVE IInv'
<1>0. UNCHANGED <<outside, files, host>> /\ UNCHANGED agent /\ NoFault
  BY DEF vars, NoFault
<1>u. UNCHANGED <<main, published, receipt, journal, marker, env, current, image, chaincode, up, agent>>
  BY <1>0 DEF outside, files, host
<1>1. World'
  BY <1>0, WorldKept DEF IInv
<1>2. AgentType' /\ FlagsOK' /\ ReleaseOK' /\ MarkerOK'
  BY <1>u DEF IInv, AgentOK, AgentType, FlagsOK, ReleaseOK, MarkerOK
<1>3. /\ Untouched' <=> Untouched
      /\ RunsRelease' <=> RunsRelease
      /\ FromFile' <=> FromFile
      /\ Filed' <=> Filed
      /\ AllFit' <=> AllFit
      /\ Whole' <=> Whole
  BY <1>u DEF Untouched, RunsRelease, FromFile, Filed, AllFit, Whole
<1>4. ActivationOK'
  BY <1>u, <1>3 DEF IInv, AgentOK, ActivationOK
<1>5. UndoOK'
  BY <1>u, <1>3 DEF IInv, AgentOK, UndoOK
<1>q. QED
  BY <1>1, <1>2, <1>4, <1>5 DEF IInv, AgentOK

LEMMA StepIInv == ASSUME IInv, [Next]_vars PROVE IInv'
<1>1. CASE Run
  <2>1. CASE Recovery
    BY <2>1, RecoverBackupStep, ResumeStep, QuietStep, UndoStep, RecheckStep, ReportStep, ForgetStep
       DEF Recovery
  <2>2. CASE Image
    BY <2>2, LoadStep, WriteEnvStep, CandidateStep, StopStep, CleanupStep DEF Image
  <2>3. CASE Ledger
    BY <2>3, CheckStep, BackupStep, SnapshotStep, RestartStep, HaltStep, UpgradeStep, DeployStep,
       RecordStep DEF Ledger
  <2>q. QED
    BY <1>1, <2>1, <2>2, <2>3, TimerStep, ProcessStep, FetchStep, StartStep, ProbeNewStep, SucceedStep,
       UnlinkStep, FailStep, FailedStep DEF Run
<1>2. CASE Kill
  BY <1>2, KillStep
<1>3. CASE \E c \in Components : Merge(c) \/ Publish(c) \/ Retry(c)
  BY <1>3, OutsideStep, RetryStep
<1>4. CASE UNCHANGED vars
  BY <1>4, StutterIInv
<1>q. QED
  BY <1>1, <1>2, <1>3, <1>4 DEF Next

\* At every step of a run, and wherever it is killed, the journal describes
\* all that is out of order, and the run knows what it has changed.
THEOREM Invariance == Spec => []IInv
  BY InitIInv, StepIInv, PTL DEF Spec

\* ReceiptTrue: a receipt that says success names the release that runs,
\* whatever failed and whenever the run was killed.
THEOREM ReceiptsTrue == Spec => []ReceiptTrue
<1>1. IInv => ReceiptTrue
  BY DEF IInv, World
<1>q. QED
  BY <1>1, Invariance, PTL

\* NothingHalfDone: without a journal everything runs and works, from the images and
\* the chaincode on file.
THEOREM NothingIsHalfDone == Spec => []NothingHalfDone
<1>1. ASSUME IInv PROVE NothingHalfDone
  <2>1. TypeOK
    <3>1. WorldType /\ AgentType /\ (journal # NoJournal => JournalType)
      BY <1>1 DEF IInv, World, AgentOK
    <3>2. \A c \in Components : receipt[c].status \in Statuses
      BY <3>1 DEF WorldType, Receipt
    <3>3. \A c \in Images : image[c] \in Releases(c)
      BY <3>1, Names DEF WorldType, ImageOf
    <3>4. agent.todo \subseteq Components
      BY <3>1 DEF AgentType
    <3>q. QED
      BY <3>1, <3>2, <3>3, <3>4, Names DEF TypeOK, WorldType, JournalType
  <2>2. journal = NoJournal => Whole
    BY <1>1 DEF IInv, World
  <2>q. QED
    BY <2>1, <2>2 DEF NothingHalfDone, Whole, FromFile, Filed, AllFit
<1>q. QED
  BY <1>1, Invariance, PTL

\* OneUndoableActivation: only Load and Check open a journal, and there is none then;
\* what runs is changed in the steps that have one.
THEOREM ActivationsUndoable == Spec => OneUndoableActivation
<1>1. ASSUME IInv, [Next]_vars
      PROVE  [ /\ journal # NoJournal /\ journal' # NoJournal =>
                    journal' \in {journal, [journal EXCEPT !.phase = "upgrading"]}
               /\ <<image, chaincode>>' # <<image, chaincode>> => journal # NoJournal ]_vars
  <2>1. journal # NoJournal /\ journal' # NoJournal =>
          journal' \in {journal, [journal EXCEPT !.phase = "upgrading"]}
    <3>1. agent.pc \in {"load", "check"} => journal = NoJournal
      BY <1>1 DEF IInv, AgentOK, ReleaseOK
    <3>2. CASE Upgrade
      BY <3>2 DEF Upgrade, Upgrading
    <3>3. CASE Load \/ Check
      BY <3>1, <3>3 DEF Load, Check, At
    <3>4. CASE Recovery \/ WriteEnv \/ Candidate \/ Stop \/ Cleanup
      BY <3>4 DEF Recovery, RecoverBackup, Resume, Quiet, Undo, Recheck, Report, Forget,
                  WriteEnv, Candidate, Stop, Cleanup, files
    <3>5. CASE Backup \/ Snapshot \/ Restart \/ Halt \/ Deploy \/ Record
      BY <3>5 DEF Backup, Snapshot, Restart, Halt, Deploy, Record, files
    <3>6. CASE Timer \/ Process \/ Fetch \/ Start \/ ProbeNew \/ Succeed \/ Unlink \/ Fail \/ Failed
      BY <3>6 DEF Timer, Process, Fetch, Start, ProbeNew, Succeed, Unlink, Fail, Failed, files
    <3>7. CASE Kill \/ (\E c \in Components : Merge(c) \/ Publish(c) \/ Retry(c)) \/ UNCHANGED vars
      BY <3>7 DEF Kill, Merge, Publish, Retry, files, vars
    <3>q. QED
      BY <1>1, <3>2, <3>3, <3>4, <3>5, <3>6, <3>7 DEF Next, Run, Image, Ledger
  <2>2. <<image, chaincode>>' # <<image, chaincode>> => journal # NoJournal
    <3>1. /\ agent.pc \in Journaled => journal # NoJournal
          /\ marker # "none" => journal # NoJournal
      BY <1>1 DEF IInv, World, Whole, AgentOK, ReleaseOK
    <3>2. CASE RecoverBackup
      BY <3>1, <3>2 DEF RecoverBackup
    <3>3. CASE Undo \/ Start \/ Restart \/ Deploy
      BY <3>1, <3>3 DEF Undo, Start, Restart, Deploy, At
    <3>4. CASE Resume \/ Quiet \/ Recheck \/ Report \/ Forget \/ Image
      BY <3>4 DEF Resume, Quiet, Recheck, Report, Forget, Image, Load, WriteEnv, Candidate, Stop, Cleanup,
                  host
    <3>5. CASE Check \/ Backup \/ Snapshot \/ Halt \/ Upgrade \/ Record
      BY <3>5 DEF Check, Backup, Snapshot, Halt, Upgrade, Record, host
    <3>6. CASE Timer \/ Process \/ Fetch \/ ProbeNew \/ Succeed \/ Unlink \/ Fail \/ Failed
      BY <3>6 DEF Timer, Process, Fetch, ProbeNew, Succeed, Unlink, Fail, Failed, host
    <3>7. CASE Kill \/ (\E c \in Components : Merge(c) \/ Publish(c) \/ Retry(c)) \/ UNCHANGED vars
      BY <3>7 DEF Kill, Merge, Publish, Retry, host, vars
    <3>q. QED
      BY <1>1, <3>2, <3>3, <3>4, <3>5, <3>6, <3>7 DEF Next, Run, Recovery, Ledger
  <2>q. QED
    BY <2>1, <2>2
<1>q. QED
  BY <1>1, Invariance, PTL DEF Spec, OneUndoableActivation
=============================================================================
