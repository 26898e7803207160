----------------------------- MODULE ParallelSync -----------------------------
(***************************************************************************)
(* A parallel sync from end to end: the server of ParallelServe, the       *)
(* connections, and the client (rust/src/client.rs) whose worker threads   *)
(* receive units over one connection each, record what was offered in one  *)
(* shared set, and whose main thread deletes what nobody offered once      *)
(* every worker has ended and all of them ended well.                      *)
(*                                                                         *)
(* A connection may drop at any time, between any two messages or inside a *)
(* body; bytes under way are then lost from some point on.  The client may *)
(* be run again against the same server.  The source does not change: what *)
(* a change does is ClassicSession's subject.                              *)
(***************************************************************************)
EXTENDS ParallelServe

CONSTANTS
    Streams,     \* streams of one client run; Handler is RunIds \X Streams
    Probe,       \* the stream whose connection fetched the server's CFG
    MaxRuns,     \* bound: client runs against this server
    MaxDrops,    \* bound: connections that fail
    FilesOf,     \* the files of each unit, {} for an empty-dir marker
    Extra,       \* files the receiver has and the source does not
    Lockable,    \* source files that may be in use when they are opened
    InitialCopy  \* the receiver's possible copies of the files at the start

RunIds == 1..MaxRuns
SourceFiles == UNION {FilesOf[u] : u \in Units}
Files == SourceFiles \union Extra

\* A copy is current when size and mtime match the source's (need_fetch).
CopyStates == {"absent", "old", "partial", "current"}

ASSUME SyncAssumption ==
    /\ MaxRuns \in Nat \ {0} /\ MaxDrops \in Nat
    /\ Probe \in Streams
    /\ Handler = RunIds \X Streams
    /\ DOMAIN FilesOf = Units
    /\ \A u, v \in Units : u # v => FilesOf[u] \intersect FilesOf[v] = {}
    /\ SourceFiles \intersect Extra = {}
    /\ InitialCopy \subseteq [Files -> CopyStates]

VARIABLES
    wire,     \* bytes under way to the client, as messages
    link,     \* "up" | "down"
    drops,    \* connections that failed so far
    stage,    \* how far a handler is with its unit: "offer" | "mask" | "body"
    want,     \* the files a stream asked for (want-mask, or 0/-1)
    replied,  \* the mask is under way to the server
    takenBy,  \* history: units each stream's handler popped
    worker,   \* client worker of each connection
    gotUnit,  \* units > 0 in serve_units
    run,      \* the client run under way or last ended
    outcome,  \* "fetching" | "clean" | "unclean" | "nostream"
    fresh,    \* stream_mode of each run: the destination was empty
    seen,     \* Mirror.seen
    local,    \* the receiver's copy of each file
    received, \* history: units whose offer reached the client in this run
    fetched,  \* history: files ever received whole
    deleted   \* history: files the mirror deleted

netVars == <<wire, link, drops>>
streamVars == <<stage, want, replied, takenBy>>
workerVars == <<worker, gotUnit, seen, received>>
runVars == <<run, outcome, fresh>>
diskVars == <<local, fetched, deleted>>
clientVars == <<workerVars, runVars, diskVars>>
syncVars == <<vars, netVars, streamVars, clientVars>>

Conns(r) == {r} \X Streams
Ended(c) == worker[c] \in {"ok", "failed", "none"}

Offer(u) == [type |-> "offer", unit |-> u, files |-> FilesOf[u]]
Body(u, sent) == [type |-> "body", unit |-> u, files |-> sent]
Nounit == [type |-> "nounit", unit |-> 0, files |-> {}]

\* A write to a broken connection may still succeed locally; its bytes vanish.
Send(c, m) ==
    wire' = IF link[c] = "up" THEN [wire EXCEPT ![c] = Append(@, m)] ELSE wire

IsEmptyDest == \A f \in Files : local[f] = "absent"

------------------------------------------------------------------------------

SyncInit ==
    /\ Init
    /\ wire = [c \in Handler |-> <<>>]
    /\ link = [c \in Handler |-> "up"]
    /\ drops = 0
    /\ stage = [c \in Handler |-> "offer"]
    /\ want = [c \in Handler |-> {}]
    /\ replied = [c \in Handler |-> FALSE]
    /\ takenBy = [c \in Handler |-> {}]
    /\ worker = [c \in Handler |-> "off"]
    /\ gotUnit = [c \in Handler |-> FALSE]
    /\ run = 1
    /\ outcome = "fetching"
    /\ local \in InitialCopy
    /\ fresh = [r \in RunIds |-> IsEmptyDest]
    /\ seen = {}
    /\ received = {}
    /\ fetched = {}
    /\ deleted = {}

------------------------------------------------------------------------------
(* The server's side of a connection. *)

\* Steps of the server that say nothing to a client.
ServerInternal ==
    /\ \/ ProducerStep
       \/ NoConnection \/ AcceptError \/ ReapAndCheck \/ JoinThreads
       \/ \E c \in Handler : PopNone(c) \/ PollAgain(c)
    /\ UNCHANGED <<netVars, streamVars, clientVars>>

TakeUnit(c) ==
    /\ PopUnit(c)
    /\ stage' = [stage EXCEPT ![c] = "offer"]
    /\ takenBy' = [takenBy EXCEPT ![c] = @ \union {Head(queue)}]
    /\ UNCHANGED <<netVars, want, replied, clientVars>>

\* D line: the unit is done with it.
OfferDir(c) ==
    /\ handler[c] = "serving" /\ stage[c] = "offer"
    /\ FilesOf[holding[c]] = {}
    /\ Send(c, Offer(holding[c]))
    /\ FinishUnit(c)
    /\ UNCHANGED <<link, drops, streamVars, clientVars>>

\* Variant: a streamed fetch waits for the mask as well.
OfferFilesAlwaysMask(c) ==
    /\ handler[c] = "serving" /\ stage[c] = "offer"
    /\ FilesOf[holding[c]] # {}
    /\ Send(c, Offer(holding[c]))
    /\ stage' = [stage EXCEPT ![c] = "mask"]
    /\ UNCHANGED <<vars, link, drops, want, replied, takenBy, clientVars>>

\* B line and manifest, or F line.  With QSYNC STREAM the body follows at once.
OfferFiles(c) ==
    /\ handler[c] = "serving" /\ stage[c] = "offer"
    /\ FilesOf[holding[c]] # {}
    /\ Send(c, Offer(holding[c]))
    /\ stage' = [stage EXCEPT ![c] = IF fresh[c[1]] THEN "body" ELSE "mask"]
    /\ UNCHANGED <<vars, link, drops, want, replied, takenBy, clientVars>>

ReadMask(c) ==
    /\ handler[c] = "serving" /\ stage[c] = "mask"
    /\ replied[c]
    /\ replied' = [replied EXCEPT ![c] = FALSE]
    /\ stage' = [stage EXCEPT ![c] = "body"]
    /\ UNCHANGED <<vars, netVars, want, takenBy, clientVars>>

\* The wanted files, each as its payload or as -1 when it cannot be opened.
SendBodies(c) ==
    /\ handler[c] = "serving" /\ stage[c] = "body"
    /\ \E locked \in SUBSET Lockable :
           LET asked == IF fresh[c[1]] THEN FilesOf[holding[c]] ELSE want[c]
           IN  IF asked = {} THEN UNCHANGED wire
               ELSE Send(c, Body(holding[c], asked \ locked))
    /\ FinishUnit(c)
    /\ UNCHANGED <<link, drops, streamVars, clientVars>>

TellNounit(c) ==
    /\ SendNounit(c)
    /\ Send(c, Nounit)
    /\ UNCHANGED <<link, drops, streamVars, clientVars>>

\* The handler notices the broken connection, in whatever call it is.
HandlerNotices(c) ==
    /\ link[c] = "down"
    /\ Reject(c) \/ SendFails(c) \/ AbandonUnit(c)
    /\ UNCHANGED <<netVars, streamVars, clientVars>>

\* A bundled file that cannot be read ends the handler; what it sent before
\* still reaches the client.
ReadError(c) ==
    /\ drops < MaxDrops
    /\ drops' = drops + 1
    /\ stage[c] = "body"
    /\ AbandonUnit(c)
    /\ link' = [link EXCEPT ![c] = "down"]
    /\ UNCHANGED <<wire, streamVars, clientVars>>

\* The connection breaks; the client reads some of what was under way.
Drop(c) ==
    /\ drops < MaxDrops
    /\ drops' = drops + 1
    /\ link[c] = "up" /\ handler[c] # "absent" /\ ~Ended(c)
    /\ link' = [link EXCEPT ![c] = "down"]
    /\ \E k \in 0..Len(wire[c]) : wire' = [wire EXCEPT ![c] = SubSeq(@, 1, k)]
    /\ replied' = [replied EXCEPT ![c] = FALSE]
    /\ UNCHANGED <<vars, stage, want, takenBy, clientVars>>

------------------------------------------------------------------------------
(* The client's workers. *)

\* The probe connects first; the other workers start once it is authenticated.
ToConnect(c) ==
    /\ outcome = "fetching" /\ c[1] = run
    /\ worker[c] = "off"
    /\ c[2] = Probe \/ worker[<<run, Probe>>] \notin {"off", "connecting", "none"}

Connect(c) ==
    /\ ToConnect(c)
    /\ worker' = [worker EXCEPT ![c] = "connecting"]
    /\ Accept(c)
    /\ UNCHANGED <<netVars, streamVars, gotUnit, seen, received, runVars, diskVars>>

\* The server no longer accepts: the worker returns None.
Refused(c) ==
    /\ ToConnect(c)
    /\ acceptor \in {"join", "exited", "failed"}
    /\ worker' = [worker EXCEPT ![c] = "none"]
    /\ UNCHANGED <<vars, netVars, streamVars, gotUnit, seen, received, runVars, diskVars>>

\* AUTH, OK, CFG and QSYNC.
Handshake(c) ==
    /\ worker[c] = "connecting" /\ link[c] = "up"
    /\ worker' = [worker EXCEPT ![c] = "reading"]
    /\ StartUnits(c)
    /\ UNCHANGED <<netVars, streamVars, gotUnit, seen, received, runVars, diskVars>>

\* connect_auth fails (None), or the connection fails once QSYNC was sent.
HandshakeFails(c) ==
    /\ worker[c] = "connecting" /\ link[c] = "down"
    /\ \E w \in {"none", "ok"} : worker' = [worker EXCEPT ![c] = w]
    /\ UNCHANGED <<vars, netVars, streamVars, gotUnit, seen, received, runVars, diskVars>>

Receives(c, type) ==
    /\ wire[c] # <<>>
    /\ Head(wire[c]).type = type
    /\ wire' = [wire EXCEPT ![c] = Tail(@)]

\* Variant: only what is fetched counts as seen.
ReadOfferWantedOnly(c) ==
    /\ worker[c] = "reading"
    /\ Receives(c, "offer")
    /\ LET files == Head(wire[c]).files
           wanted == IF fresh[c[1]] THEN files ELSE {f \in files : local[f] # "current"}
       IN  /\ gotUnit' = [gotUnit EXCEPT ![c] = TRUE]
           /\ seen' = seen \union wanted
           /\ received' = received \union {Head(wire[c]).unit}
           /\ want' = [want EXCEPT ![c] = wanted]
           /\ replied' = [replied EXCEPT ![c] = files # {} /\ ~fresh[c[1]] /\ link[c] = "up"]
           /\ worker' = [worker EXCEPT ![c] = IF wanted = {} THEN "reading" ELSE "body"]
    /\ UNCHANGED <<vars, link, drops, stage, takenBy, runVars, diskVars>>

\* A worker takes in an offer: record every file as seen, then ask for those
\* whose copy differs.
ReadOffer(c) ==
    /\ worker[c] = "reading"
    /\ Receives(c, "offer")
    /\ LET files == Head(wire[c]).files
           wanted == IF fresh[c[1]] THEN files ELSE {f \in files : local[f] # "current"}
       IN  /\ gotUnit' = [gotUnit EXCEPT ![c] = TRUE]
           /\ seen' = seen \union files
           /\ received' = received \union {Head(wire[c]).unit}
           /\ want' = [want EXCEPT ![c] = wanted]
           /\ replied' = [replied EXCEPT ![c] = files # {} /\ ~fresh[c[1]] /\ link[c] = "up"]
           /\ worker' = [worker EXCEPT ![c] = IF wanted = {} THEN "reading" ELSE "body"]
    /\ UNCHANGED <<vars, link, drops, stage, takenBy, runVars, diskVars>>

\* Each payload is written over the old copy and stamped with the source's mtime.
ReadBodies(c) ==
    /\ worker[c] = "body"
    /\ Receives(c, "body")
    /\ LET files == Head(wire[c]).files
       IN  /\ local' = [f \in Files |-> IF f \in files THEN "current" ELSE local[f]]
           /\ fetched' = fetched \union files
    /\ worker' = [worker EXCEPT ![c] = "reading"]
    /\ UNCHANGED <<vars, link, drops, streamVars, gotUnit, seen, received, runVars, deleted>>

ReadNounit(c) ==
    /\ worker[c] = "reading"
    /\ Receives(c, "nounit")
    /\ worker' = [worker EXCEPT ![c] = "ok"]
    /\ UNCHANGED <<vars, link, drops, streamVars, gotUnit, seen, received, runVars, diskVars>>

\* Variant: a failed stream counts as ended well.
StreamFailsQuietly(c) ==
    /\ worker[c] \in {"reading", "body"}
    /\ link[c] = "down" /\ wire[c] = <<>>
    /\ worker' = [worker EXCEPT ![c] = "ok"]
    /\ UNCHANGED <<vars, netVars, streamVars, gotUnit, seen, received, runVars, diskVars>>

AtMostOne(S) == {{}} \union {{x} : x \in S}

\* The stream fails: without a unit it counts as ended well.  Of the files it
\* waited for some were written whole, and one may be left truncated or short.
StreamFails(c) ==
    /\ worker[c] \in {"reading", "body"}
    /\ link[c] = "down" /\ wire[c] = <<>>
    /\ worker' = [worker EXCEPT ![c] = IF gotUnit[c] THEN "failed" ELSE "ok"]
    /\ LET waited == IF worker[c] = "body" THEN want[c] ELSE {}
       IN  \E whole \in SUBSET waited : \E cut \in AtMostOne(waited) :
               /\ local' = [f \in Files |-> IF f \in cut THEN "partial"
                                            ELSE IF f \in whole THEN "current"
                                            ELSE local[f]]
               /\ fetched' = fetched \union (whole \ cut)
    /\ UNCHANGED <<vars, netVars, streamVars, gotUnit, seen, received, runVars, deleted>>

------------------------------------------------------------------------------
(* The client's main thread. *)

\* Files below the mirror roots that no stream was offered.  A root is recorded
\* with the first unit received.
Unseen ==
    IF \E c \in Conns(run) : gotUnit[c]
    THEN {f \in Files : local[f] # "absent" /\ f \notin seen}
    ELSE {}

\* Every worker was joined; those that never connected have no say.  Without
\* the probe's connection there are no workers at all.
EndRun ==
    /\ outcome = "fetching"
    /\ \/ \A c \in Conns(run) : Ended(c)
       \/ worker[<<run, Probe>>] = "none"
    /\ outcome' = IF worker[<<run, Probe>>] = "none" THEN "nostream"
                  ELSE IF \E c \in Conns(run) : worker[c] = "failed" THEN "unclean"
                  ELSE "clean"
    /\ LET pruned == IF outcome' = "clean" THEN Unseen ELSE {}
       IN  /\ deleted' = deleted \union pruned
           /\ local' = [f \in Files |-> IF f \in pruned THEN "absent" ELSE local[f]]
    /\ UNCHANGED <<vars, netVars, streamVars, workerVars, run, fresh, fetched>>

\* The same command again, against the server that is still up.
Rerun ==
    /\ outcome # "fetching"
    /\ run < MaxRuns
    /\ run' = run + 1
    /\ outcome' = "fetching"
    /\ fresh' = [fresh EXCEPT ![run + 1] = IsEmptyDest]
    /\ seen' = {}
    /\ received' = {}
    /\ UNCHANGED <<vars, netVars, streamVars, worker, gotUnit, diskVars>>

------------------------------------------------------------------------------

ServerSide(c) ==
    \/ TakeUnit(c) \/ OfferDir(c) \/ OfferFiles(c) \/ ReadMask(c) \/ SendBodies(c)
    \/ TellNounit(c) \/ HandlerNotices(c)

ClientSide(c) ==
    \/ Connect(c) \/ Refused(c) \/ Handshake(c) \/ HandshakeFails(c)
    \/ ReadOffer(c) \/ ReadBodies(c) \/ ReadNounit(c) \/ StreamFails(c)

SyncNext ==
    \/ ServerInternal
    \/ \E c \in Handler :
           \/ ServerSide(c) \/ ClientSide(c)
           \/ ReadError(c) \/ Drop(c)
    \/ EndRun \/ Rerun

\* Threads are scheduled, and bytes on an unbroken connection arrive.  A
\* connection request waits in the listener's backlog, so accept() returns it
\* although the loop looks only now and then: strong fairness for Connect.
SyncFairness ==
    /\ WF_syncVars(ServerInternal /\ ProducerStep)
    /\ WF_syncVars(ServerInternal /\ AcceptLoop)
    /\ \A c \in Handler :
           /\ WF_syncVars(ServerSide(c) \/ (ServerInternal /\ HandlerStep(c)))
           /\ WF_syncVars(ClientSide(c))
           /\ SF_syncVars(Connect(c))
    /\ WF_syncVars(EndRun)

SyncSpec == SyncInit /\ [][SyncNext]_syncVars

SyncFairSpec == SyncSpec /\ SyncFairness

------------------------------------------------------------------------------
(* Properties. *)

Messages == [type : {"offer", "body", "nounit"}, unit : 0..NUnits, files : SUBSET Files]

SyncTypeOK ==
    /\ TypeOK
    /\ wire \in [Handler -> Seq(Messages)]
    /\ link \in [Handler -> {"up", "down"}]
    /\ drops \in 0..MaxDrops
    /\ stage \in [Handler -> {"offer", "mask", "body"}]
    /\ want \in [Handler -> SUBSET Files]
    /\ replied \in [Handler -> BOOLEAN]
    /\ takenBy \in [Handler -> SUBSET Units]
    /\ worker \in [Handler -> {"off", "connecting", "reading", "body", "ok", "failed", "none"}]
    /\ gotUnit \in [Handler -> BOOLEAN]
    /\ run \in RunIds
    /\ outcome \in {"fetching", "clean", "unclean", "nostream"}
    /\ fresh \in [RunIds -> BOOLEAN]
    /\ seen \subseteq SourceFiles
    /\ received \subseteq Units
    /\ local \in [Files -> CopyStates]
    /\ fetched \subseteq SourceFiles
    /\ deleted \subseteq Files

\* A run reported as done holds the current copy of everything that was offered
\* to any of its streams: no drop inside a unit, on any stream, passes for a
\* clean finish.  Only a file in use at the source may be behind.
CleanRunIsComplete ==
    outcome = "clean" => \A f \in seen \ Lockable : local[f] = "current"

\* When every unit of the walk reached the run's streams, however they were
\* shared out, a clean finish leaves the exact mirror: nothing of the source
\* was deleted and nothing else is left.
FullRunMirrors ==
    outcome = "clean" /\ received = Units /\ Units # {} =>
        /\ deleted \subseteq Extra
        /\ \A f \in Extra : local[f] = "absent"
        /\ \A f \in SourceFiles \ Lockable : local[f] = "current"

\* The server takes a unit out of its queue before it says a word about it, and
\* never puts it back.  A run reported as done has nevertheless been told of
\* every unit that was taken for a stream it had a unit from: the unit that
\* goes down unannounced with a stream makes the run unclean.
CleanRunMissesNoUnit ==
    outcome = "clean" =>
        \A c \in Conns(run) : gotUnit[c] => takenBy[c] \subseteq received

\* Whatever drops and whenever, a run ends: no worker and no handler waits for
\* the other for ever.
RunEnds == outcome = "fetching" ~> outcome # "fetching"

\* The mirror deletes no file the source still has.
PruneSparesSource == deleted \intersect SourceFiles = {}

\* When a stream takes a unit down with it, the mirror deletes none of the
\* unit's files.
LostUnitFilesKept == \A u \in lost : FilesOf[u] \intersect deleted = {}

\* After an unclean run the same command resumes: a clean finish of the re-run
\* deletes nothing that was fetched whole.
RerunKeepsFetched ==
    (\E c \in Handler : c[1] < run /\ worker[c] = "failed")
        => deleted \intersect fetched = {}

\* How far the run is, as the receiver's files see it.
RunPhase ==
    IF outcome = "fetching"
    THEN IF \E c \in Conns(run) : worker[c] = "failed" THEN "broken" ELSE "running"
    ELSE IF outcome = "clean" THEN "done" ELSE "stopped"

\* What the workers wait for.
Owed == UNION {want[c] : c \in {d \in Conns(run) : worker[d] = "body"}}

CopyStatus(state) ==
    IF state = "current" THEN "good" ELSE IF state = "absent" THEN "absent" ELSE "stale"

\* The streams together keep the promise of one mirror run: none writes a file
\* that it did not ask for, no stream's end is overlooked when the others end
\* well, and nothing is deleted while a file is owed.
Mirror == INSTANCE MirrorRun WITH
    File <- Files,
    MaySkip <- Lockable,
    phase <- RunPhase,
    owed <- Owed,
    copy <- [f \in Files |-> CopyStatus(local[f])]

ImplementsMirror == Mirror!Spec
==============================================================================
