--------------------------- MODULE Deployment_proofs ---------------------------
(***************************************************************************)
(* A deployment is its parts: what is proved of the launches and of the    *)
(* mirror alone holds of servers and sessions together.  A session may end *)
(* its server and only that one, which needs that the server of a session  *)
(* is one that was listening when the session began.                       *)
(***************************************************************************)
EXTENDS Deployment, TreeMirror_proofs, Launch_proofs, TLAPS

\* The session's server, and the two ignore sets it came with.
ServedBy ==
    /\ serving \in Nat /\ serving <= starts
    /\ receiver = "running" => serving \in Process /\ stage[serving] \in {"listening", "ended"}
    /\ serving \in Process =>
           /\ offering = Settings(raw[serving]).ignore
           /\ keeping = KeptBy(given, serving)

DeployInv == LaunchInv /\ ServedBy

\* A session's steps leave the ignore sets alone, and it runs until it ends.
LEMMA SessionFrame ==
    SessionStep => receiver = "running" /\ UNCHANGED <<offering, keeping>>
<1> SUFFICES ASSUME SessionStep PROVE receiver = "running" /\ UNCHANGED <<offering, keeping>>
  OBVIOUS
<1>1. CASE Walk
  BY <1>1 DEF Walk, VisitDir, VisitIgnored, CannotList, runVars
<1>2. CASE \E item \in lines : TakeDir(item) \/ TakeOffer(item)
  BY <1>2 DEF TakeDir, TakeOffer, walkVars, runVars
<1>3. CASE \E item \in pending : WriteFile(item)
  BY <1>3 DEF WriteFile, walkVars, runVars
<1>4. CASE FinishClean \/ FinishBroken \/ CutSession
  BY <1>4 DEF FinishClean, FinishBroken, CutSession, walkVars
<1> QED BY <1>1, <1>2, <1>3, <1>4 DEF SessionStep, Receive

\* At its end a session stops its server at most.
LEMMA SessionLaunches ==
    ASSUME DeployInv, Session
    PROVE  [LaunchNext]_launchVars /\ stage'[serving] \in {"listening", "ended"}
<1>1. /\ serving \in Process /\ stage[serving] \in {"listening", "ended"}
      /\ stage = [p \in Process |-> stage[p]]
  BY SessionFrame DEF DeployInv, ServedBy, Session, LaunchInv, Shape
<1>2. /\ stage' = [stage EXCEPT ![serving] = "ended"] \/ stage' = stage
      /\ UNCHANGED <<text, bak, starts, faults, file, raw, saved, raced, since, last>>
  BY DEF Session
<1>3. CASE stage' = stage
  BY <1>1, <1>2, <1>3 DEF launchVars
<1>4. CASE stage' # stage
  <2>1. stage[serving] = "listening" /\ stage' = [stage EXCEPT ![serving] = "ended"]
    BY <1>1, <1>2, <1>4
  <2>2. Stop(serving)
    BY <1>2, <2>1 DEF Stop, Steps, othersOfUpgrade
  <2> QED BY <1>1, <2>1, <2>2 DEF LaunchNext
<1> QED BY <1>3, <1>4

\* A start reads its config for itself, not for a server that is up.
LEMMA StartsApart ==
    ASSUME Shape, LaunchNext
    PROVE  /\ starts' \in Nat /\ starts <= starts'
           /\ \A p \in Process : p <= starts => raw'[p] = raw[p]
<1>1. ASSUME NEW q \in Process, NEW f \in File, Load(q, f)
      PROVE  /\ starts' \in Nat /\ starts <= starts'
             /\ \A p \in Process : p <= starts => raw'[p] = raw[p]
  <2>1. q = starts + 1 /\ starts' = q /\ (raw' = raw \/ raw' = [raw EXCEPT ![q] = text[f]])
    BY <1>1 DEF Load
  <2>2. \A p \in Process : p <= starts => p # q
    BY <2>1 DEF Shape, Process
  <2> QED BY <2>1, <2>2 DEF Shape
<1>2. CASE ~\E q \in Process, f \in File : Load(q, f)
  <2>1. UNCHANGED <<raw, starts>>
    BY <1>2 DEF LaunchNext, Advance, NoUpgrade, TruncateBak, WriteBak, TruncateConfig,
                WriteConfig, NoFolders, TruncateConnection, WriteConnection, Bind,
                WriteFails, CannotServe, Stop, Kill, Save, Restore, othersOfUpgrade
  <2> QED BY <2>1 DEF Shape
<1> QED BY <1>1, <1>2

LEMMA DeployParts ==
    ASSUME DeployInv, [DeployNext]_deployVars
    PROVE  [LaunchNext]_launchVars /\ [TreeNext]_treeVars
<1>1. CASE Start
  BY <1>1 DEF Start
<1>2. CASE Carry
  BY <1>2 DEF Carry
<1>3. CASE Session
  BY <1>3, SessionLaunches DEF Session, TreeNext
<1>4. CASE KillServer
  <2>1. serving \in Process
    BY <1>4 DEF KillServer, DeployInv, ServedBy
  <2> QED BY <1>4, <2>1 DEF KillServer, LaunchNext, TreeNext, SessionStep
<1>5. CASE Edit
  BY <1>5 DEF Edit, TreeNext
<1>6. ASSUME NEW over, Get(over) PROVE [LaunchNext]_launchVars /\ [TreeNext]_treeVars
  BY <1>6 DEF Get, TreeNext
<1>7. CASE UNCHANGED deployVars
  BY <1>7 DEF deployVars
<1> QED BY <1>1, <1>2, <1>3, <1>4, <1>5, <1>6, <1>7 DEF DeployNext

LEMMA DeployInvInit == DeployInit => DeployInv
  BY LaunchInvInit DEF DeployInit, DeployInv, ServedBy, LaunchInit, TreeInit, Process

LEMMA DeployInvStep == DeployInv /\ [DeployNext]_deployVars => DeployInv'
<1> SUFFICES ASSUME DeployInv, [DeployNext]_deployVars PROVE DeployInv'
  OBVIOUS
<1>1. LaunchInv' /\ Shape
  BY DeployParts, LaunchInvStep DEF DeployInv, LaunchInv
<1>2. Process \subseteq Nat /\ 0 \notin Process /\ starts \in Nat
  BY <1>1 DEF Process, Shape
<1> SUFFICES ServedBy'
  BY <1>1 DEF DeployInv
<1> USE DEF DeployInv, ServedBy, KeptBy
<1>3. CASE Start
  <2>1. /\ LaunchNext /\ receiver # "running"
        /\ UNCHANGED <<serving, given, receiver, offering, keeping>>
    BY <1>3 DEF Start, treeVars, runVars, walkVars
  <2>2. serving \in Process => raw'[serving] = raw[serving]
    BY <1>1, <2>1, StartsApart
  <2>3. starts' \in Nat /\ starts <= starts'
    BY <1>1, <2>1, StartsApart
  <2> QED BY <1>2, <2>1, <2>2, <2>3
<1>4. CASE Session
  <2>1. /\ UNCHANGED <<offering, keeping, serving, given, raw, starts>>
        /\ receiver = "running"
    BY <1>4, SessionFrame DEF Session
  <2>2. stage'[serving] \in {"listening", "ended"}
    BY <1>4, SessionLaunches
  <2> QED BY <2>1, <2>2
<1>5. CASE KillServer
  <2>1. /\ UNCHANGED <<offering, keeping, serving, given, raw, starts>>
        /\ receiver = "running" /\ stage' = [stage EXCEPT ![serving] = "ended"]
    BY <1>5 DEF KillServer, Kill, CutSession, walkVars
  <2>2. stage'[serving] = "ended"
    BY <1>1, <2>1 DEF Shape
  <2> QED BY <2>1, <2>2
<1>6. CASE Carry \/ Edit \/ UNCHANGED deployVars
  <2>1. /\ UNCHANGED <<offering, keeping, serving, given, launchVars>>
        /\ receiver' = receiver
    BY <1>6 DEF Carry, Edit, EditSource, deployVars, treeVars, runVars, walkVars
  <2> QED BY <2>1 DEF launchVars
<1>7. ASSUME NEW over, Get(over) PROVE ServedBy'
  <2>1. /\ serving' = carried.by /\ given' = over /\ UNCHANGED launchVars
        /\ offering' = Settings(raw[carried.by]).ignore
        /\ keeping' = KeptBy(over, carried.by)
        /\ carried.by \in Process /\ stage[carried.by] = "listening"
    BY <1>7 DEF Get, LetIn, Listening
  <2>2. serving' \in Nat /\ serving' <= starts
    <3>1. \A p \in Process : stage[p] = "listening" => ~(p > starts)
      BY <1>1 DEF Shape
    <3>2. ~(serving' > starts) /\ serving' \in Nat
      BY <1>2, <2>1, <3>1
    <3> QED BY <1>2, <3>2
  <2> QED BY <2>1, <2>2 DEF launchVars
<1> QED BY <1>3, <1>4, <1>5, <1>6, <1>7 DEF DeployNext

LEMMA DeployInvariant == DeploySpec => []DeployInv
  BY DeployInvInit, DeployInvStep, PTL DEF DeploySpec

------------------------------------------------------------------------------

\* Servers that sessions end and operators kill come up as Launch says.
THEOREM DeployLaunches == DeploySpec => LaunchSpec
<1>1. DeployInit => LaunchInit
  BY DEF DeployInit
<1>2. DeployInv /\ [DeployNext]_deployVars => [LaunchNext]_launchVars
  BY DeployParts
<1> QED BY <1>1, <1>2, DeployInvariant, PTL DEF DeploySpec, LaunchSpec

\* Each session with one of them is a run of the mirror.
THEOREM DeployMirrors == DeploySpec => TreeSpec
<1>1. DeployInit => TreeInit
  BY DEF DeployInit
<1>2. DeployInv /\ [DeployNext]_deployVars => [TreeNext]_treeVars
  BY DeployParts
<1> QED BY <1>1, <1>2, DeployInvariant, PTL DEF DeploySpec, TreeSpec

\* What the operator's config says to ignore stays as it is at a receiver that gave
\* no set of its own, through every upgrade, restart and session.
THEOREM SavedIgnoreStays == DeploySpec => []SavedIgnoreHolds
<1>1. DeployInv /\ IgnoredFilesKept => SavedIgnoreHolds
  <2> SUFFICES ASSUME DeployInv, IgnoredFilesKept, given.ignore = {}, serving \in since, ~raced,
                      NEW p \in Rel, before[p].kind = "file", Ignored(saved.ignore, p, FALSE)
               PROVE  disk[p] = before[p]
    BY DEF SavedIgnoreHolds
  <2>1. serving \in Process /\ Agrees(raw[serving], saved)
    BY DEF DeployInv, LaunchInv, Shape, Sound
  <2>2. Settings(raw[serving]).ignore = saved.ignore
    BY <2>1 DEF Settings, Agrees
  <2>3. offering = saved.ignore /\ keeping = saved.ignore
    BY <2>1, <2>2 DEF DeployInv, ServedBy, KeptBy, GivenOr
  <2> QED BY <2>3 DEF IgnoredFilesKept
<1> QED BY <1>1, DeployInvariant, DeployMirrors, IgnoredStay, PTL
------------------------------------------------------------------------------
(* The connection file. *)

\* The last process to write it has its own token there from then on, if nothing
\* took the file for a config and upgraded it.
ConnectionFresh ==
    /\ \A p \in Process : stage[p] = "off" => file[p] = "config"
    /\ \/ \E q \in Process : file[q] = "connection"
       \/ \A p \in Process :
              last = p /\ stage[p] \in {"bind", "listening"} =>
                  text["connection"] = Text(TRUE, FALSE, NoKeys, {}, TRUE, p)

\* One process goes on, or none, and the connection file stays.
LEMMA ConnectionLeft ==
    ASSUME Shape, ConnectionFresh, UNCHANGED <<file, last>>,
           text'["connection"] = text["connection"],
           \A p \in Process :
               \/ stage'[p] = stage[p]
               \/ /\ stage'[p] # "off"
                  /\ stage'[p] = "listening" => stage[p] = "bind"
                  /\ stage'[p] # "bind"
    PROVE  ConnectionFresh'
  BY DEF ConnectionFresh

LEMMA ConnectionInit == LaunchInit => ConnectionFresh
  BY DEF LaunchInit, ConnectionFresh

LEMMA ConnectionStep ==
    LaunchInv /\ ConnectionFresh /\ [LaunchNext]_launchVars => ConnectionFresh'
<1> SUFFICES ASSUME LaunchInv, ConnectionFresh, [LaunchNext]_launchVars
             PROVE  ConnectionFresh'
  OBVIOUS
<1>1. Shape
  BY DEF LaunchInv
<1>2. ASSUME NEW p \in Process, NEW f \in File, Load(p, f) PROVE ConnectionFresh'
  <2>1. /\ stage[p] = "off" /\ stage'[p] \in {"loaded", "ended"}
        /\ UNCHANGED <<text, last>>
        /\ \A q \in Process \ {p} : file'[q] = file[q] /\ stage'[q] = stage[q]
    BY <1>1, <1>2 DEF Load, Shape
  <2>2. file[p] = "config"
    BY <2>1 DEF ConnectionFresh
  <2>3. \A q \in Process : file[q] = "connection" => file'[q] = "connection"
    BY <2>1, <2>2
  <2>4. \A q \in Process : stage'[q] = "off" => file'[q] = "config"
    BY <2>1 DEF ConnectionFresh
  <2>5. \A q \in Process : stage'[q] \in {"bind", "listening"} => stage[q] = stage'[q]
    BY <2>1
  <2> QED BY <2>1, <2>3, <2>4, <2>5 DEF ConnectionFresh
<1>3. ASSUME NEW p \in Process,
             TruncateBak(p) \/ WriteBak(p) \/ TruncateConfig(p) \/ WriteConfig(p)
      PROVE  ConnectionFresh'
  <2>1. /\ UNCHANGED <<file, last>>
        /\ stage'[p] \in {"bakCut", "bakFull", "cut", "ready"}
        /\ \A q \in Process \ {p} : stage'[q] = stage[q]
        /\ text' = text \/ \E t : text' = [text EXCEPT ![file[p]] = t]
    BY <1>1, <1>3 DEF TruncateBak, WriteBak, TruncateConfig, WriteConfig, Steps, Fills, Shape,
                      othersOfUpgrade
  <2>2. CASE file[p] = "connection"
    BY <2>1, <2>2 DEF ConnectionFresh
  <2>3. CASE file[p] # "connection"
    <3>1. text'["connection"] = text["connection"]
      BY <1>1, <2>1, <2>3 DEF Shape, File
    <3> QED BY <1>1, <2>1, <3>1, ConnectionLeft
  <2> QED BY <2>2, <2>3
<1>4. ASSUME NEW p \in Process,
             NoUpgrade(p) \/ NoFolders(p) \/ Bind(p) \/ CannotServe(p) \/ Stop(p)
                 \/ WriteFails(p) \/ Kill(p)
      PROVE  ConnectionFresh'
  <2>1. /\ UNCHANGED <<text, file, last>>
        /\ stage'[p] \in {"ready", "ended"} \/ (stage[p] = "bind" /\ stage'[p] = "listening")
        /\ \A q \in Process \ {p} : stage'[q] = stage[q]
    BY <1>1, <1>4 DEF NoUpgrade, NoFolders, Bind, CannotServe, Stop, WriteFails, Kill, Steps,
                      Shape, othersOfUpgrade
  <2> QED BY <1>1, <2>1, ConnectionLeft
<1>5. ASSUME NEW p \in Process, TruncateConnection(p) \/ WriteConnection(p)
      PROVE  ConnectionFresh'
  <2>1. /\ last' = p /\ file' = file
        /\ stage'[p] = "connCut"
           \/ (stage'[p] = "bind"
               /\ text'["connection"] = Text(TRUE, FALSE, NoKeys, {}, TRUE, p))
        /\ \A q \in Process \ {p} : stage'[q] = stage[q]
    BY <1>1, <1>5 DEF TruncateConnection, WriteConnection, Steps, Fills, Shape, File
  <2> QED BY <2>1 DEF ConnectionFresh
<1>6. CASE Restore \/ \E t \in SavedTexts : Save(t)
  <2>1. /\ UNCHANGED <<stage, file, last>>
        /\ text'["connection"] = text["connection"]
    BY <1>1, <1>6 DEF Restore, Save, Fills, Shape, File
  <2> QED BY <1>1, <2>1, ConnectionLeft
<1>7. CASE UNCHANGED launchVars
  BY <1>7 DEF launchVars, ConnectionFresh
<1> QED BY <1>2, <1>3, <1>4, <1>5, <1>6, <1>7 DEF LaunchNext, Advance

LEMMA OwnText ==
    \A p, t : t = Text(TRUE, FALSE, NoKeys, {}, TRUE, p) =>
                  t.whole = TRUE /\ t.by = p /\ DOMAIN t.keys = {}
<1>1. ASSUME NEW p, NEW t, NEW keys,
             t = [whole |-> TRUE, folders |-> FALSE, keys |-> keys, ignore |-> {}, open |-> TRUE,
                  by |-> p]
      PROVE  t.whole = TRUE /\ t.by = p /\ t.keys = keys
  BY <1>1
<1>2. DOMAIN NoKeys = {}
  BY DEF NoKeys
<1>3. ASSUME NEW p, NEW t, t = Text(TRUE, FALSE, NoKeys, {}, TRUE, p)
      PROVE  t.whole = TRUE /\ t.by = p /\ t.keys = NoKeys
  <2>1. t = [whole |-> TRUE, folders |-> FALSE, keys |-> NoKeys, ignore |-> {}, open |-> TRUE,
             by |-> p]
    BY <1>3, Zenon DEF Text
  <2> QED BY <1>1, <2>1, Zenon
<1> QED BY <1>2, <1>3, Zenon

\* The stream count a client takes from the CFG line is the server's own.
LEMMA SameMode ==
    ASSUME NEW p, NEW conn, conn.by = p, DOMAIN conn.keys = {}
    PROVE  ModesAgree(NoOverride, conn)
<1> DEFINE streams == Settings(raw[p]).streams
<1>1. StreamsOf(NoOverride, conn) = IF streams < 1 THEN 1 ELSE streams
  BY DEF StreamsOf, NoOverride, GivenOr, Pushed
<1>2. \E x : streams = IF x < 1 THEN 1 ELSE x
  <2>1. \E c, x : streams = IF c \/ x < 1 THEN 1 ELSE x
    BY DEF Settings
  <2>2. ~(1 < 1)
    OBVIOUS
  <2> QED BY <2>1, <2>2
<1>3. StreamsOf(NoOverride, conn) = streams
  <2>1. ~(1 < 1)
    OBVIOUS
  <2> HIDE DEF streams
  <2> QED BY <1>1, <1>2, <2>1
<1> QED BY <1>3 DEF ModesAgree

\* A receiver with the file of a server that listens is let in and takes its mode,
\* for any number of starts, faults and upgrades before.
THEOREM FreshCopies == DeploySpec => []FreshCopyWorks
<1>1. LaunchSpec => []ConnectionFresh
  BY LaunchInvariant, ConnectionInit, ConnectionStep, PTL DEF LaunchSpec
<1>2. LaunchInv /\ RunsAsSaved /\ ConnectionFresh => FreshCopyWorks
  <2> SUFFICES ASSUME LaunchInv, RunsAsSaved, ConnectionFresh, ~raced,
                      NEW p \in Listening, p \in since, last = p,
                      ~\E q \in Process : file[q] = "connection",
                      KeyOr(saved, "allowIp", "") \in {"", Address}
               PROVE  LetIn(text["connection"]) /\ ModesAgree(NoOverride, text["connection"])
    BY DEF FreshCopyWorks
  <2>1. p \in Process /\ stage[p] = "listening"
    BY DEF Listening
  <2>2. text["connection"] = Text(TRUE, FALSE, NoKeys, {}, TRUE, p)
    BY <2>1 DEF ConnectionFresh
  <2>3. /\ text["connection"].whole /\ text["connection"].by = p
        /\ DOMAIN text["connection"].keys = {}
    BY <2>2, OwnText, Zenon
  <2>4. Settings(raw[p]) = Settings(saved)
    BY <2>1 DEF RunsAsSaved
  <2>5. Settings(saved).allowIp \in {"any", Address}
    BY DEF Settings
  <2> QED BY <2>3, <2>4, <2>5, SameMode DEF LetIn
<1> QED BY <1>1, <1>2, LaunchInvariant, ServersRunAsSaved, DeployLaunches, PTL

------------------------------------------------------------------------------
(* Types. *)

CarriedTypes ==
    /\ scenario \in Scenarios /\ IsText(carried)
    /\ given \in [ignore : SUBSET SUBSET Patterns, streams : SUBSET Int]

LEMMA CarriedInit == DeployInit => CarriedTypes
<1> SUFFICES ASSUME DeployInit PROVE CarriedTypes
  OBVIOUS
<1>1. IsText(carried)
  BY ShortIsText DEF DeployInit
<1>2. scenario \in Scenarios
  BY DEF DeployInit
<1>3. given = [ignore |-> {}, streams |-> {}]
  BY DEF DeployInit, NoOverride
<1>4. given \in [ignore : SUBSET SUBSET Patterns, streams : SUBSET Int]
  BY <1>3
<1> QED BY <1>1, <1>2, <1>4 DEF CarriedTypes

LEMMA CarriedStep ==
    LaunchTypeOK /\ CarriedTypes /\ [DeployNext]_deployVars => CarriedTypes'
<1> SUFFICES ASSUME LaunchTypeOK, CarriedTypes, [DeployNext]_deployVars PROVE CarriedTypes'
  OBVIOUS
<1>1. scenario' = scenario
  BY DEF DeployNext, Start, Carry, Session, KillServer, Edit, Get, deployVars
<1>2. \/ carried' = carried
      \/ carried' = text["connection"]
  BY DEF DeployNext, Start, Carry, Session, KillServer, Edit, Get, deployVars
<1>3. given' = given \/ given' \in scenario.overrides
  BY DEF DeployNext, Start, Carry, Session, KillServer, Edit, Get, deployVars
<1>4. IsText(carried')
  <2>1. IsText(text["connection"]) /\ IsText(carried)
    BY DEF LaunchTypeOK, CarriedTypes, File
  <2> QED BY <1>2, <2>1
<1>5. given' \in [ignore : SUBSET SUBSET Patterns, streams : SUBSET Int]
  BY <1>3, DeploymentAssumption DEF CarriedTypes
<1> QED BY <1>1, <1>4, <1>5 DEF CarriedTypes

\* What a receiver carries is a text that was a connection file, what it is given are
\* overrides, and its server is one that was started; both parts keep their types.
THEOREM DeployType == DeploySpec => []DeployTypeOK
<1>1. DeployInv /\ LaunchTypeOK /\ TreeTypeOK /\ CarriedTypes => DeployTypeOK
  <2> SUFFICES ASSUME DeployInv, LaunchTypeOK, TreeTypeOK, CarriedTypes PROVE DeployTypeOK
    OBVIOUS
  <2>1. serving \in 0..starts
    BY DEF DeployInv, ServedBy, LaunchInv, Shape
  <2> QED BY <2>1 DEF CarriedTypes, DeployTypeOK
<1> QED BY <1>1, CarriedInit, CarriedStep, DeployInvariant, DeployLaunches, DeployMirrors,
           LaunchType, TreeType, PTL DEF DeploySpec
================================================================================
