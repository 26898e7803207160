------------------------------- MODULE Deployment -------------------------------
(***************************************************************************)
(* A folder kept mirrored over weeks: servers come up from a config file   *)
(* (Launch), the operator carries the connection file to the receiver,     *)
(* and each `ft get` there is one session of TreeMirror, or none.          *)
(*                                                                         *)
(* rust/src/main.rs cmd_get, client.rs connect_auth and run, the handshake *)
(* of server.rs and the pinned certificate of tls.rs decide which.  A get  *)
(* that is refused, or whose two sides differ on the mode (one SYNC        *)
(* session or parallel streams), has no line dispatched and is no action:  *)
(* the most it does is end a parallel server, as Stop may.  A session      *)
(* reads nothing that a start or the operator writes, so these come        *)
(* between sessions.  A parallel server has one walk in it and ends with   *)
(* its session (its re-runs are in ParallelSync); the second pass of a     *)
(* cutover is in ClassicSession.                                           *)
(***************************************************************************)
EXTENDS Launch, TreeMirror

CONSTANTS
    Overrides,  \* what `ft get` may be given: [ignore, streams], sets of at most one
    Scenarios   \* bounds: first contents with the overrides and mishaps to come

ASSUME DeploymentAssumption ==
    /\ Overrides \subseteq [ignore : SUBSET SUBSET Patterns, streams : SUBSET Int]
    /\ \A t \in SavedTexts : t.ignore \subseteq Patterns
    /\ \A s \in Scenarios : s.overrides \subseteq Overrides

VARIABLES
    carried,  \* the receiver's copy of the connection file
    serving,  \* the server of the current or last session, or 0
    given,    \* the overrides it was started with
    scenario

deployVars == <<launchVars, treeVars, carried, serving, given, scenario>>

------------------------------------------------------------------------------

NoOverride == [ignore |-> {}, streams |-> {}]
GivenOr(option, default) == IF option = {} THEN default ELSE CHOOSE x \in option : TRUE

\* The handshake: the certificate and the token are those of one process, and
\* the server asks for the address.
LetIn(conn) ==
    /\ conn.whole /\ conn.by \in Listening
    /\ Settings(raw[conn.by]).allowIp \in {"any", Address}

\* Variant: the CFG line carries the streams of the config file.
PushedFromFile(p) == KeyOr(raw[p], "streams", 4)

\* The CFG line: a single-stream server says 1.
Pushed(p) == Settings(raw[p]).streams

\* What the client takes for the number of streams: its flag, a streams key in
\* the connection file, then the server's.
StreamsOf(over, conn) ==
    LET carriedStreams == IF "streams" \in DOMAIN conn.keys THEN {conn.keys["streams"]} ELSE {}
        streams == GivenOr(over.streams, GivenOr(carriedStreams, Pushed(conn.by)))
    IN  IF streams < 1 THEN 1 ELSE streams

ModesAgree(over, conn) ==
    StreamsOf(over, conn) > 1 <=> Settings(raw[conn.by]).streams > 1

DeployInit ==
    /\ LaunchInit /\ TreeInit
    /\ carried = Short /\ serving = 0 /\ given = NoOverride
    /\ scenario \in Scenarios
    /\ saved = scenario.saved /\ kind = scenario.kind /\ disk = scenario.disk

\* Bounds.
WithinScenario ==
    faults' <= scenario.faults /\ cuts' <= scenario.cuts

Carry ==
    /\ receiver # "running"
    /\ text["connection"].whole /\ carried # text["connection"]
    /\ carried' = text["connection"]
    /\ UNCHANGED <<launchVars, treeVars, serving, given, scenario>>

\* Variant: without a set of its own the client keeps nothing.
KeepsOwn(over, p) == GivenOr(over.ignore, {})

\* What the client does not delete: what its own set ignores, or the CFG line's.
KeptBy(over, p) == GivenOr(over.ignore, Settings(raw[p]).ignore)

\* ft get, let in and of one mind about the mode.
Get(over) ==
    /\ receiver # "running" /\ treeRun < scenario.runs
    /\ LetIn(carried) /\ ModesAgree(over, carried)
    /\ offering' = Settings(raw[carried.by]).ignore
    /\ keeping' = KeptBy(over, carried.by)
    /\ BeginRun
    /\ serving' = carried.by /\ given' = over
    /\ UNCHANGED <<launchVars, carried, scenario>>

\* The walk and the receiver; at the session's end the server ends too if it is
\* parallel, or a one-time server whose client is done.
Session ==
    /\ SessionStep
    /\ LET ran == Settings(raw[serving])
           ends == receiver' # "running" /\ (ran.streams > 1 \/ (ran.once /\ receiver' = "clean"))
       IN  stage' = IF ends THEN [stage EXCEPT ![serving] = "ended"] ELSE stage
    /\ UNCHANGED <<text, bak, starts, faults, file, raw, saved, raced, since, last,
                   carried, serving, given, scenario>>
    /\ WithinScenario

KillServer ==
    /\ receiver = "running" /\ Kill(serving) /\ CutSession
    /\ UNCHANGED <<carried, serving, given, scenario>>
    /\ WithinScenario

Start ==
    /\ receiver # "running" /\ LaunchNext
    /\ UNCHANGED <<treeVars, carried, serving, given, scenario>>
    /\ WithinScenario

Edit ==
    /\ edits < scenario.edits /\ receiver # "running"
    /\ \E r \in Root, p \in Rel, k \in Kinds : EditSource(r, p, k)
    /\ UNCHANGED <<launchVars, carried, serving, given, scenario>>

DeployNext ==
    \/ Start \/ Carry \/ Session \/ KillServer \/ Edit
    \/ \E over \in scenario.overrides : Get(over)

DeploySpec == DeployInit /\ [][DeployNext]_deployVars

------------------------------------------------------------------------------
(* Properties. *)

DeployTypeOK ==
    /\ LaunchTypeOK /\ TreeTypeOK
    /\ scenario \in Scenarios
    /\ IsText(carried) /\ serving \in 0..starts
    /\ given \in [ignore : SUBSET SUBSET Patterns, streams : SUBSET Int]

\* A receiver with the connection file as it is now is let in by the server that
\* listens and takes its mode, if the saved config allows its address, whatever
\* upgrades, failed writes, kills and restarts there were: unless another start
\* has written the file since, or was given it as a config.
FreshCopyWorks ==
    \A p \in Listening :
        LET conn == text["connection"]
        IN  \/ raced \/ p \notin since \/ last # p
            \/ \E q \in Process : file[q] = "connection"
            \/ KeyOr(saved, "allowIp", "") \notin {"", Address}
            \/ LetIn(conn) /\ ModesAgree(NoOverride, conn)

\* What the operator's config says to ignore is neither changed nor deleted at a
\* receiver that gave no set of its own, though only the CFG line says so there.
SavedIgnoreHolds ==
    given.ignore = {} /\ serving \in since /\ ~raced =>
        \A p \in Rel :
            before[p].kind = "file" /\ Ignored(saved.ignore, p, FALSE) => disk[p] = before[p]
================================================================================
