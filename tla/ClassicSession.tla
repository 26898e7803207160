---------------------------- MODULE ClassicSession ----------------------------
(***************************************************************************)
(* A single-stream transfer (rust/src/server.rs run_serve_single,          *)
(* handle_session, send_pass, wait_cutover; rust/src/client.rs run,        *)
(* run_passes, mirror_delete), with or without the two-phase cutover,      *)
(* while the source folder is being written to.                            *)
(*                                                                         *)
(* A file's size and mtime are one value, its version: 0 is an absent      *)
(* file, and every write makes a version that never was before.  What is   *)
(* on the receiver's disk is a content and a stamp (the size and mtime     *)
(* need_fetch compares), because the two are written by separate calls.    *)
(* A file is looked at (metadata), opened and read by separate steps, and  *)
(* may change between any two of them.                                     *)
(*                                                                         *)
(* One shared folder of plain files; T, PING and D lines, AUTH and the     *)
(* codecs are left out.  A connection that breaks, times out on either     *)
(* side, or is closed on a local error is one action, Drop.                *)
(***************************************************************************)
EXTENDS Integers, Sequences, FiniteSets, SequencesExt

CONSTANTS
    File,
    Large,        \* the files above SMALL_FILE
    Lockable,     \* files that may be in use when they are opened
    Unreadable,   \* files whose metadata call may fail
    BundleCap,    \* files in a full bundle (BUNDLE_BYTES, BUNDLE_MAX_COUNT)
    Configs,      \* the server's possible settings
    FirstSource,  \* the source's possible first versions
    FirstCopies,  \* the receiver's possible first copies
    MaxChanges,   \* bound: writes and deletions at the source
    MaxDrops,     \* bound: connections that break
    MaxRuns       \* bound: client runs

Versions == 1..(1 + MaxChanges)
Torn == -1        \* content mixed from two versions, or cut short
Foreign == 0      \* the stamp of a file whose mtime was never set from a stat

ASSUME ClassicAssumption ==
    /\ Large \subseteq File /\ Lockable \subseteq File /\ Unreadable \subseteq File
    /\ BundleCap \in Nat \ {0}
    /\ MaxChanges \in Nat /\ MaxDrops \in Nat /\ MaxRuns \in Nat \ {0}
    /\ Configs \subseteq [cutover : BOOLEAN, once : BOOLEAN]
    /\ \A c \in Configs : c.cutover => c.once
    /\ FirstSource \subseteq [File -> {0, 1}]
    /\ FirstCopies \subseteq [File -> {"absent", "same", "other"}]

VARIABLES
    cfg,        \* ServeConfig: cutover and once
    source,     \* the version of each file at the source
    changes,    \* writes and deletions so far
    frozen,     \* the operator has stopped the writers
    flag,       \* ft-cutover.go exists
    server,     \* where the server is
    phase,      \* pass 1 or 2 of the session
    todo,       \* files the walk has not come to
    bundle,     \* BundleItems collected: <<file, version>>
    held,       \* a large file looked at, behind the bundle
    sending,    \* files the client asked for, not yet sent
    opened,     \* the file being read, with its version when opened
    stop,       \* why the server exited
    link, drops,
    down, up,   \* lines under way to the client and to the server
    client,     \* where the client is
    pending,    \* <<file, offered version>> asked for and not received
    seen,       \* Mirror.seen
    rooted,     \* Mirror.roots is not empty
    content, stamp, \* the receiver's copy of each file; content 0 is no file
    run,
    span,       \* history: the versions each file had during the last pass
    passed,     \* history: files the last pass could not open or look at
    pruned,     \* history: files this run's mirror_delete removed
    delivered   \* history: some run got as far as its mirror_delete

sourceVars == <<source, changes, frozen>>
walkVars == <<todo, bundle, held, sending, opened>>
serverVars == <<cfg, flag, server, phase, walkVars, stop>>
netVars == <<link, drops, down, up>>
diskVars == <<content, stamp>>
mirrorVars == <<pending, seen, rooted>>
historyVars == <<pruned, delivered>>
clientVars == <<client, mirrorVars, diskVars, run, historyVars>>
passVars == <<span, passed>>
cvars == <<sourceVars, serverVars, netVars, clientVars, passVars>>

Walking == {"walk", "mask", "bodies"}
InSession == Walking \union {"command", "cutover"}
Receiving == {"pass", "bodies", "between"}
Running == Receiving \union {"idle", "mirror", "bye"}

Line(type, items) == [type |-> type, items |-> items]
FilesIn(items) == {i[1] : i \in items}

\* Bytes written to a broken connection vanish.
ToClient(lines) == down' = IF link THEN down \o lines ELSE down
ToServer(line) == up' = IF link THEN Append(up, line) ELSE up

------------------------------------------------------------------------------

ClassicInit ==
    /\ cfg \in Configs
    /\ source \in FirstSource /\ changes = 0 /\ frozen = FALSE
    /\ flag = FALSE /\ server = "accept" /\ phase = 1 /\ stop = "none"
    /\ todo = {} /\ bundle = {} /\ held = {} /\ sending = {} /\ opened = {}
    /\ link = FALSE /\ drops = 0 /\ down = <<>> /\ up = <<>>
    /\ client = "idle" /\ pending = {} /\ seen = {} /\ rooted = FALSE
    /\ \E copy \in FirstCopies :
           /\ content = [f \in File |-> IF copy[f] = "absent" THEN 0
                                        ELSE IF copy[f] = "same" THEN 1 ELSE Torn]
           /\ stamp = [f \in File |-> IF copy[f] = "same" THEN 1 ELSE Foreign]
    /\ run = 1
    /\ span = [f \in File |-> {}] /\ passed = {}
    /\ pruned = {} /\ delivered = FALSE

------------------------------------------------------------------------------
(* The source folder and the operator. *)

Change(f, v) ==
    /\ ~frozen
    /\ changes < MaxChanges
    /\ changes' = changes + 1
    /\ source' = [source EXCEPT ![f] = v]
    /\ span' = IF server \in Walking THEN [span EXCEPT ![f] = @ \union {v}] ELSE span
    /\ UNCHANGED <<frozen, serverVars, netVars, clientVars, passed>>

WriteFile(f) == Change(f, changes + 2)

RemoveFile(f) == source[f] # 0 /\ Change(f, 0)

StopWriters ==
    /\ cfg.cutover /\ ~frozen
    /\ frozen' = TRUE
    /\ UNCHANGED <<source, changes, serverVars, netVars, clientVars, passVars>>

\* The operator creates the flag file only once the writers are stopped.
CreateFlag ==
    /\ frozen /\ ~flag
    /\ flag' = TRUE
    /\ UNCHANGED <<sourceVars, cfg, server, phase, walkVars, stop, netVars, clientVars, passVars>>

------------------------------------------------------------------------------
(* The server. *)

StartPass(n) ==
    /\ server' = "walk" /\ phase' = n
    /\ todo' = File /\ bundle' = {} /\ held' = {} /\ sending' = {} /\ opened' = {}
    /\ span' = [f \in File |-> {source[f]}] /\ passed' = {}

ReadSync ==
    /\ server = "command"
    /\ up # <<>> /\ Head(up).type = "sync"
    /\ up' = Tail(up)
    /\ StartPass(1)
    /\ UNCHANGED <<sourceVars, cfg, flag, stop, link, drops, down, clientVars>>

\* Variant: a file that is gone is offered with mtime 0.
LookAtAnyway(f) ==
    /\ server = "walk" /\ f \in todo
    /\ Cardinality(bundle) < BundleCap /\ held = {}
    /\ todo' = todo \ {f}
    /\ IF f \in Large
       THEN held' = {<<f, source[f]>>} /\ UNCHANGED bundle
       ELSE bundle' = bundle \union {<<f, source[f]>>} /\ UNCHANGED held
    /\ UNCHANGED <<sourceVars, cfg, flag, server, phase, sending, opened, stop,
                   netVars, clientVars, passVars>>

\* The walk comes to a file.  One that is gone, was not in the directory's
\* listing, or whose metadata cannot be had is passed over without a word.
LookAt(f) ==
    /\ server = "walk" /\ f \in todo
    /\ Cardinality(bundle) < BundleCap /\ held = {}
    /\ todo' = todo \ {f}
    /\ \/ /\ source[f] # 0
          /\ IF f \in Large
             THEN held' = {<<f, source[f]>>} /\ UNCHANGED bundle
             ELSE bundle' = bundle \union {<<f, source[f]>>} /\ UNCHANGED held
          /\ UNCHANGED passed
       \/ /\ source[f] = 0
          /\ UNCHANGED <<held, bundle, passed>>
       \/ /\ source[f] # 0 /\ f \in Unreadable
          /\ passed' = passed \union {f}
          /\ UNCHANGED <<held, bundle>>
    /\ UNCHANGED <<sourceVars, cfg, flag, server, phase, sending, opened, stop,
                   netVars, clientVars, span>>

\* send_bundle: the bundle is full, a large file is next, or the walk is over.
OfferBundle ==
    /\ server = "walk" /\ bundle # {}
    /\ Cardinality(bundle) >= BundleCap \/ held # {} \/ todo = {}
    /\ ToClient(<<Line("offer", bundle)>>)
    /\ bundle' = {}
    /\ server' = "mask"
    /\ UNCHANGED <<sourceVars, cfg, flag, phase, todo, held, sending, opened, stop,
                   link, drops, up, clientVars, passVars>>

OfferLarge ==
    /\ server = "walk" /\ bundle = {} /\ held # {}
    /\ ToClient(<<Line("offer", held)>>)
    /\ held' = {}
    /\ server' = "mask"
    /\ UNCHANGED <<sourceVars, cfg, flag, phase, todo, bundle, sending, opened, stop,
                   link, drops, up, clientVars, passVars>>

ReadMask ==
    /\ server = "mask"
    /\ up # <<>> /\ Head(up).type = "mask"
    /\ up' = Tail(up)
    /\ sending' = FilesIn(Head(up).items)
    /\ server' = IF sending' = {} THEN "walk" ELSE "bodies"
    /\ UNCHANGED <<sourceVars, cfg, flag, phase, todo, bundle, held, opened, stop,
                   link, drops, down, clientVars, passVars>>

OpenFile(f) ==
    /\ server = "bodies" /\ opened = {} /\ f \in sending
    /\ source[f] # 0
    /\ opened' = {<<f, source[f]>>}
    /\ UNCHANGED <<sourceVars, cfg, flag, server, phase, todo, bundle, held, sending, stop,
                   netVars, clientVars, passVars>>

Sent(f) ==
    /\ sending' = sending \ {f}
    /\ server' = IF sending' = {} THEN "walk" ELSE "bodies"

\* The file is in use or gone: -1 in place of a payload.
CannotOpen(f) ==
    /\ server = "bodies" /\ opened = {} /\ f \in sending
    /\ source[f] = 0 \/ f \in Lockable
    /\ ToClient(<<Line("skip", {<<f, 0>>})>>)
    /\ Sent(f)
    /\ passed' = passed \union {f}
    /\ UNCHANGED <<sourceVars, cfg, flag, phase, todo, bundle, held, opened, stop,
                   link, drops, up, clientVars, span>>

\* What reading a file to its end gives.  One that was written to since it was
\* opened may have been read before the write, after it, or across it.
Readable(f, v) ==
    {v} \union (IF source[f] = v THEN {} ELSE {Torn} \union ({source[f]} \ {0}))

SendBody(f, v) ==
    /\ server = "bodies" /\ <<f, v>> \in opened
    /\ \E c \in Readable(f, v) : ToClient(<<Line("body", {<<f, c>>})>>)
    /\ opened' = {}
    /\ Sent(f)
    /\ UNCHANGED <<sourceVars, cfg, flag, phase, todo, bundle, held, stop,
                   link, drops, up, clientVars, passVars>>

\* Variant: the final pass ends without DONE.
EndPassNoDone ==
    /\ server = "walk" /\ todo = {} /\ bundle = {} /\ held = {}
    /\ IF cfg.cutover /\ phase = 1
       THEN /\ server' = "cutover" /\ flag' = FALSE
            /\ ToClient(<<Line("passend", {})>>)
       ELSE /\ server' = "command" /\ UNCHANGED flag
            /\ ToClient(<<Line("passend", {})>>)
    /\ UNCHANGED <<sourceVars, cfg, phase, walkVars, stop, link, drops, up,
                   clientVars, passVars>>

\* PASS-END; then DONE, or wait_cutover, which begins by removing a flag file
\* that is already there.
EndPass ==
    /\ server = "walk" /\ todo = {} /\ bundle = {} /\ held = {}
    /\ IF cfg.cutover /\ phase = 1
       THEN /\ server' = "cutover" /\ flag' = FALSE
            /\ ToClient(<<Line("passend", {})>>)
       ELSE /\ server' = "command" /\ UNCHANGED flag
            /\ ToClient(<<Line("passend", {}), Line("done", {})>>)
    /\ UNCHANGED <<sourceVars, cfg, phase, walkVars, stop, link, drops, up,
                   clientVars, passVars>>

SeeFlag ==
    /\ server = "cutover" /\ flag
    /\ flag' = FALSE
    /\ ToClient(<<Line("go", {})>>)
    /\ StartPass(2)
    /\ UNCHANGED <<sourceVars, cfg, stop, link, drops, up, clientVars>>

\* A one-time server leaves after the client's BYE.
ReadBye ==
    /\ server = "command"
    /\ up # <<>> /\ Head(up).type = "bye"
    /\ up' = Tail(up) /\ link' = FALSE
    /\ server' = IF cfg.once THEN "exited" ELSE "accept"
    /\ stop' = IF cfg.once THEN "once" ELSE stop
    /\ UNCHANGED <<sourceVars, cfg, flag, phase, walkVars, drops, down, clientVars, passVars>>

\* Variant: an aborted session ends a one-time server as well.
AbortEndsServer ==
    /\ server \in InSession
    /\ ~link /\ up = <<>>
    /\ server' = IF cfg.once THEN "exited" ELSE "accept"
    /\ stop' = IF cfg.once THEN "once" ELSE stop
    /\ UNCHANGED <<sourceVars, cfg, flag, phase, walkVars, netVars, clientVars, passVars>>

\* A read or a write on the broken connection fails, and the session with it.
AbortSession ==
    /\ server \in InSession
    /\ ~link /\ up = <<>>
    /\ server' = "accept"
    /\ UNCHANGED <<sourceVars, cfg, flag, phase, walkVars, stop, netVars, clientVars, passVars>>

IdleTimeout ==
    /\ server = "accept"
    /\ server' = "exited" /\ stop' = "idle"
    /\ UNCHANGED <<sourceVars, cfg, flag, phase, walkVars, netVars, clientVars, passVars>>

------------------------------------------------------------------------------
(* The connection. *)

\* It breaks; a part of what was under way still arrives.
Drop ==
    /\ link /\ drops < MaxDrops
    /\ drops' = drops + 1
    /\ link' = FALSE
    /\ \E k \in 0..Len(down) : down' = SubSeq(down, 1, k)
    /\ \E k \in 0..Len(up) : up' = SubSeq(up, 1, k)
    /\ UNCHANGED <<sourceVars, serverVars, clientVars, passVars>>

------------------------------------------------------------------------------
(* The client. *)

Connect ==
    /\ client = "idle" /\ server = "accept"
    /\ link' = TRUE /\ down' = <<>> /\ up' = <<Line("sync", {})>>
    /\ server' = "command"
    /\ client' = "pass"
    /\ seen' = {} /\ rooted' = FALSE /\ pending' = {} /\ pruned' = {}
    /\ UNCHANGED <<sourceVars, cfg, flag, phase, walkVars, stop, drops, diskVars, run,
                   delivered, passVars>>

\* Nobody listens any more, or the server is still in the session of a run that
\* failed, and AUTH is not answered within the client's read time-out.
Refused ==
    /\ client = "idle" /\ server # "accept"
    /\ client' = "refused"
    /\ UNCHANGED <<sourceVars, serverVars, netVars, mirrorVars, diskVars, run,
                   historyVars, passVars>>

Gets(type) ==
    /\ down # <<>> /\ Head(down).type = type
    /\ down' = Tail(down)

\* Variant: only what is fetched counts as seen.
ReadOfferFetchedOnly ==
    /\ client = "pass"
    /\ Gets("offer")
    /\ LET items == Head(down).items
           wanted == {i \in items : content[i[1]] = 0 \/ stamp[i[1]] # i[2]}
       IN  /\ seen' = seen \union FilesIn(wanted)
           /\ pending' = wanted
           /\ ToServer(Line("mask", wanted))
           /\ client' = IF wanted = {} THEN "pass" ELSE "bodies"
    /\ rooted' = TRUE
    /\ UNCHANGED <<sourceVars, serverVars, link, drops, diskVars, run, historyVars, passVars>>

ReadOffer ==
    /\ client = "pass"
    /\ Gets("offer")
    /\ LET items == Head(down).items
           wanted == {i \in items : content[i[1]] = 0 \/ stamp[i[1]] # i[2]}
       IN  /\ seen' = seen \union FilesIn(items)
           /\ pending' = wanted
           /\ ToServer(Line("mask", wanted))
           /\ client' = IF wanted = {} THEN "pass" ELSE "bodies"
    /\ rooted' = TRUE
    /\ UNCHANGED <<sourceVars, serverVars, link, drops, diskVars, run, historyVars, passVars>>

Got(f) ==
    /\ pending' = {i \in pending : i[1] # f}
    /\ client' = IF pending' = {} THEN "pass" ELSE "bodies"

\* Truncate, write to the end, then set the mtime the offer gave.
ReadBody(f, v) ==
    /\ client = "bodies" /\ <<f, v>> \in pending
    /\ Gets("body")
    /\ \E c \in Versions \union {Torn} :
           /\ Head(down).items = {<<f, c>>}
           /\ content' = [content EXCEPT ![f] = c]
    /\ stamp' = [stamp EXCEPT ![f] = v]
    /\ Got(f)
    /\ UNCHANGED <<sourceVars, serverVars, link, drops, up, seen, rooted, run,
                   historyVars, passVars>>

ReadSkip(f) ==
    /\ client = "bodies"
    /\ Gets("skip")
    /\ Head(down).items = {<<f, 0>>}
    /\ Got(f)
    /\ UNCHANGED <<sourceVars, serverVars, link, drops, up, seen, rooted, diskVars, run,
                   historyVars, passVars>>

ReadPassEnd ==
    /\ client = "pass"
    /\ Gets("passend")
    /\ client' = "between"
    /\ UNCHANGED <<sourceVars, serverVars, link, drops, up, mirrorVars, diskVars, run,
                   historyVars, passVars>>

\* Variant: the second pass adds to the first one's set.
ReadGoKeepsSeen ==
    /\ client = "between"
    /\ Gets("go")
    /\ client' = "pass"
    /\ UNCHANGED <<sourceVars, serverVars, link, drops, up, mirrorVars, diskVars, run,
                   historyVars, passVars>>

\* Another pass: the mirror is to reflect only the latest one.
ReadGo ==
    /\ client = "between"
    /\ Gets("go")
    /\ client' = "pass"
    /\ seen' = {}
    /\ UNCHANGED <<sourceVars, serverVars, link, drops, up, pending, rooted, diskVars, run,
                   historyVars, passVars>>

ReadDone ==
    /\ client = "between"
    /\ Gets("done")
    /\ client' = "mirror"
    /\ UNCHANGED <<sourceVars, serverVars, link, drops, up, mirrorVars, diskVars, run,
                   historyVars, passVars>>

MirrorDelete ==
    /\ client = "mirror"
    /\ client' = "bye"
    /\ pruned' = IF rooted THEN {f \in File : content[f] # 0 /\ f \notin seen} ELSE {}
    /\ content' = [f \in File |-> IF f \in pruned' THEN 0 ELSE content[f]]
    /\ stamp' = [f \in File |-> IF f \in pruned' THEN Foreign ELSE stamp[f]]
    /\ delivered' = TRUE
    /\ UNCHANGED <<sourceVars, serverVars, netVars, mirrorVars, run, passVars>>

\* run prints DONE when the BYE could be written, and INCOMPLETE when not.
SendBye ==
    /\ client = "bye"
    /\ ToServer(Line("bye", {}))
    /\ client' = "clean" \/ (~link /\ client' = "incomplete")
    /\ UNCHANGED <<sourceVars, serverVars, link, drops, down, mirrorVars, diskVars, run,
                   historyVars, passVars>>

\* Variant: the mtime is set before the body is received.
FailStampedEarly ==
    /\ client \in Receiving
    /\ ~link /\ down = <<>>
    /\ client' = "incomplete"
    /\ \/ UNCHANGED diskVars
       \/ \E i \in pending :
              /\ content' = [content EXCEPT ![i[1]] = Torn]
              /\ stamp' = [stamp EXCEPT ![i[1]] = i[2]]
    /\ UNCHANGED <<sourceVars, serverVars, netVars, mirrorVars, run, historyVars, passVars>>

\* Variant: a connection that closes is taken for the end of the last pass.
FailEndsPass ==
    /\ client \in Receiving
    /\ ~link /\ down = <<>>
    /\ client' = "mirror"
    /\ UNCHANGED <<sourceVars, serverVars, netVars, mirrorVars, diskVars, run, historyVars,
                   passVars>>

\* Reading fails; the file being received stays truncated or short, with the
\* mtime of that moment.
Fail ==
    /\ client \in Receiving
    /\ ~link /\ down = <<>>
    /\ client' = "incomplete"
    /\ \/ UNCHANGED diskVars
       \/ \E i \in pending :
              /\ content' = [content EXCEPT ![i[1]] = Torn]
              /\ stamp' = [stamp EXCEPT ![i[1]] = Foreign]
    /\ UNCHANGED <<sourceVars, serverVars, netVars, mirrorVars, run, historyVars, passVars>>

Rerun ==
    /\ client \in {"clean", "incomplete", "refused"}
    /\ run < MaxRuns
    /\ run' = run + 1
    /\ client' = "idle"
    /\ UNCHANGED <<sourceVars, serverVars, netVars, mirrorVars, diskVars, historyVars, passVars>>

------------------------------------------------------------------------------

SourceStep == \E f \in File : WriteFile(f) \/ RemoveFile(f)

Operator == StopWriters \/ CreateFlag

ServerStep ==
    \/ ReadSync \/ OfferBundle \/ OfferLarge \/ ReadMask
    \/ EndPass \/ SeeFlag \/ ReadBye \/ AbortSession
    \/ \E f \in File : LookAt(f) \/ OpenFile(f) \/ CannotOpen(f)
    \/ \E f \in File, v \in Versions : SendBody(f, v)

ClientStep ==
    \/ Connect \/ Refused \/ ReadOffer
    \/ \E f \in File, v \in Versions : ReadBody(f, v)
    \/ \E f \in File : ReadSkip(f)
    \/ ReadPassEnd \/ ReadGo \/ ReadDone \/ MirrorDelete \/ SendBye \/ Fail

ClassicNext ==
    SourceStep \/ Operator \/ ServerStep \/ IdleTimeout \/ Drop \/ ClientStep \/ Rerun

\* Both processes run, bytes on an unbroken connection arrive, the operator
\* does what the banner asks, and a server nobody connects to times out.
ClassicFairness ==
    /\ WF_cvars(ServerStep) /\ WF_cvars(ClientStep) /\ WF_cvars(Operator)
    /\ WF_cvars(IdleTimeout)

ClassicSpec == ClassicInit /\ [][ClassicNext]_cvars

ClassicFairSpec == ClassicSpec /\ ClassicFairness

------------------------------------------------------------------------------
(* Properties. *)

ClassicTypeOK ==
    /\ cfg \in Configs
    /\ source \in [File -> {0} \union Versions]
    /\ changes \in 0..MaxChanges
    /\ frozen \in BOOLEAN /\ flag \in BOOLEAN
    /\ server \in InSession \union {"accept", "exited"}
    /\ phase \in {1, 2}
    /\ todo \subseteq File
    /\ bundle \subseteq File \X Versions /\ held \subseteq File \X Versions
    /\ sending \subseteq File /\ opened \subseteq File \X Versions
    /\ stop \in {"none", "once", "idle"}
    /\ link \in BOOLEAN /\ drops \in 0..MaxDrops
    /\ client \in Running \union {"clean", "incomplete", "refused"}
    /\ pending \subseteq File \X Versions
    /\ seen \subseteq File /\ rooted \in BOOLEAN
    /\ content \in [File -> {0, Torn} \union Versions]
    /\ stamp \in [File -> {Foreign} \union Versions]
    /\ run \in 1..MaxRuns
    /\ span \in [File -> SUBSET ({0} \union Versions)]
    /\ passed \subseteq File /\ pruned \subseteq File /\ delivered \in BOOLEAN

\* A copy that looks current is current.  Whatever is written to the source
\* while a file is looked at, opened and read, and wherever the connection
\* breaks, no stale, torn or short copy carries the size and mtime the source
\* has now: need_fetch asks for it again.
StampNeverHides ==
    \A f \in File : source[f] # 0 /\ stamp[f] = source[f] => content[f] = source[f]

\* A clean finish mirrors exactly every file that did not change during the
\* last pass, in a run with no cutover as in one with: what pass 1 saw, fetched
\* or missed makes no difference.  With the writers stopped that is a
\* point-in-time image.  A folder of which nothing was offered is not pruned.
UnchangedFilesMirrored ==
    client = "clean" =>
        \A f \in File :
            \/ f \in passed
            \/ Cardinality(span[f]) > 1
            \/ span[f] = {content[f]}
            \/ ~rooted /\ span[f] = {0}

\* The mirror deletes a file only if the source was without it at some moment of
\* the last pass, or could not tell.
PrunedWasGone ==
    \A f \in pruned : client \in {"bye", "clean", "incomplete"} => 0 \in span[f] \/ f \in passed

\* A one-time server exits only when a client has finished its mirror: no drop,
\* whenever it comes, is taken for the end of the job.
OnceServerDelivered == stop = "once" => delivered

\* Every run ends: client and server never wait for each other for ever, and a
\* cutover pause outlives neither the operator's flag nor a dead client.
SessionEnds == client \in Running ~> client \notin Running

\* What the INCOMPLETE report says: nothing was deleted.
IncompleteDeletedNothing == client = "incomplete" => pruned = {}

\* How far the run is, as the receiver's files see it.
RunPhase ==
    IF client \in Receiving \union {"idle", "mirror"} THEN "running"
    ELSE IF client \in {"bye", "clean"} THEN "done" ELSE "stopped"

\* A copy stamped from an offer is good; need_fetch sees any other as different.
CopyStatus(f) ==
    IF content[f] = 0 THEN "absent" ELSE IF stamp[f] = Foreign THEN "stale" ELSE "good"

Unconnected == client \in {"idle", "refused"}

\* A session keeps the promise of a mirror run, with the cutover's second pass
\* as without it: a body is written only to a file that was asked for, nothing
\* is deleted while one is owed or after a failure.
Mirror == INSTANCE MirrorRun WITH
    MaySkip <- File,
    phase <- RunPhase,
    seen <- IF Unconnected THEN {} ELSE seen,
    owed <- IF Unconnected THEN {} ELSE FilesIn(pending),
    copy <- [f \in File |-> CopyStatus(f)]

ImplementsMirror == Mirror!Spec
==============================================================================
