--------------------------- MODULE ParallelSync_proofs ---------------------------
(***************************************************************************)
(* Proofs about a parallel sync, for every number of units, streams, runs  *)
(* and drops: its server is the one of ParallelServe, a run that is        *)
(* reported as done has all that was offered to it, and one that every     *)
(* unit reached leaves the exact mirror.                                   *)
(***************************************************************************)
EXTENDS ParallelSync, ParallelServe_proofs, SequenceTheorems, TLAPS

------------------------------------------------------------------------------
(* The server of a sync is the parallel server. *)

LEMMA StepServes == [SyncNext]_syncVars => [Next]_vars
<1> SUFFICES ASSUME [SyncNext]_syncVars PROVE [Next]_vars
  OBVIOUS
<1>1. CASE ServerInternal
  BY <1>1 DEF ServerInternal, Next, AcceptLoop, HandlerStep
<1>2. ASSUME NEW c \in Handler, ServerSide(c) PROVE [Next]_vars
  <2>1. CASE TakeUnit(c)
    BY <2>1 DEF TakeUnit, Next, HandlerStep
  <2>2. CASE OfferDir(c)
    BY <2>2 DEF OfferDir, Next, HandlerStep
  <2>3. CASE OfferFiles(c) \/ ReadMask(c)
    BY <2>3 DEF OfferFiles, ReadMask
  <2>4. CASE SendBodies(c)
    BY <2>4 DEF SendBodies, Next, HandlerStep
  <2>5. CASE TellNounit(c)
    BY <2>5 DEF TellNounit, Next, HandlerStep
  <2>6. CASE HandlerNotices(c)
    BY <2>6 DEF HandlerNotices, Next, HandlerStep
  <2> QED BY <1>2, <2>1, <2>2, <2>3, <2>4, <2>5, <2>6 DEF ServerSide
<1>3. ASSUME NEW c \in Handler, ClientSide(c) PROVE [Next]_vars
  <2>1. CASE Connect(c)
    BY <2>1 DEF Connect, Next, AcceptLoop
  <2>2. CASE Handshake(c)
    BY <2>2 DEF Handshake, Next, HandlerStep
  <2>3. CASE \/ Refused(c) \/ HandshakeFails(c) \/ ReadOffer(c)
             \/ ReadBodies(c) \/ ReadNounit(c) \/ StreamFails(c)
    BY <2>3 DEF Refused, HandshakeFails, ReadOffer, ReadBodies, ReadNounit, StreamFails
  <2> QED BY <1>3, <2>1, <2>2, <2>3 DEF ClientSide
<1>4. ASSUME NEW c \in Handler, ReadError(c) \/ Drop(c) PROVE [Next]_vars
  BY <1>4 DEF ReadError, Drop, Next, HandlerStep
<1>5. CASE EndRun \/ Rerun \/ UNCHANGED syncVars
  BY <1>5 DEF EndRun, Rerun, syncVars
<1> QED BY <1>1, <1>2, <1>3, <1>4, <1>5 DEF SyncNext

\* The server of a sync takes no step that the parallel server does not take, so
\* what is proved of that one alone holds under any clients and connections.
THEOREM SyncServes == SyncSpec => Spec
<1>1. SyncInit => Init
  BY DEF SyncInit
<1> QED BY <1>1, StepServes, PTL DEF SyncSpec, Spec

\* What the server alone keeps.
Serves == TInv /\ UnitsConserved

LEMMA ServesStep == Serves /\ [SyncNext]_syncVars => Serves'
  BY StepServes, NextTInv, NextConserved DEF Serves

LEMMA ServesInit == SyncInit => Serves
  BY InitTInv, InitConserved DEF Serves, SyncInit

------------------------------------------------------------------------------
(* Types. *)

\* A message is about a unit and its files.
Told ==
    {m \in Messages :
        /\ m.files \subseteq SourceFiles
        /\ m.type = "offer" => m.unit \in Units /\ m.files = FilesOf[m.unit]}

Working == {"connecting", "reading", "body"}

LEMMA UnitFiles ==
    /\ \A u \in Units : FilesOf[u] \subseteq SourceFiles
    /\ SourceFiles \subseteq Files
    /\ \A f \in SourceFiles : \E u \in Units : f \in FilesOf[u]
  BY DEF SourceFiles, Files

\* A connection is one of some run.
LEMMA ConnsOfRun ==
    /\ \A c \in Handler : c[1] \in RunIds
    /\ \A r \in RunIds : /\ \A c : c \in Conns(r) <=> c \in Handler /\ c[1] = r
                         /\ <<r, Probe>> \in Conns(r)
    /\ RunIds \subseteq Nat
<1>1. \A c \in Handler : c[1] \in RunIds
  BY SyncAssumption
<1>2. ASSUME NEW r \in RunIds
      PROVE  \A c : c \in Conns(r) <=> c \in Handler /\ c[1] = r
  BY SyncAssumption DEF Conns
<1>3. \A r \in RunIds : <<r, Probe>> \in Conns(r)
  BY SyncAssumption DEF Conns
<1>4. RunIds \subseteq Nat
  BY SyncAssumption DEF RunIds
<1> QED BY <1>1, <1>2, <1>3, <1>4

\* The messages there are.
LEMMA MessagesTold ==
    /\ \A u \in Units : Offer(u) \in Told /\ Offer(u).type = "offer"
           /\ Offer(u).unit = u /\ Offer(u).files = FilesOf[u]
    /\ \A u \in Units, sent \in SUBSET SourceFiles : Body(u, sent) \in Told
           /\ Body(u, sent).type = "body" /\ Body(u, sent).files = sent
    /\ Nounit \in Told /\ Nounit.type = "nounit" /\ Nounit.files = {}
<1>1. 0 \in 0..NUnits /\ Units \subseteq 0..NUnits
  BY ConstantsAssumption DEF Units
<1>2. ASSUME NEW u \in Units
      PROVE  /\ Offer(u) \in Told /\ Offer(u).type = "offer"
             /\ Offer(u).unit = u /\ Offer(u).files = FilesOf[u]
  BY <1>1, UnitFiles DEF Offer, Told, Messages
<1>3. ASSUME NEW u \in Units, NEW sent \in SUBSET SourceFiles
      PROVE  Body(u, sent) \in Told /\ Body(u, sent).type = "body" /\ Body(u, sent).files = sent
  BY <1>1, UnitFiles DEF Body, Told, Messages
<1>4. Nounit \in Told /\ Nounit.type = "nounit" /\ Nounit.files = {}
  BY <1>1 DEF Nounit, Told, Messages
<1> QED BY <1>2, <1>3, <1>4

\* A connection that breaks keeps what came first.
LEMMA Truncated ==
    ASSUME NEW S, NEW q \in Seq(S), NEW k \in 0..Len(q)
    PROVE  /\ SubSeq(q, 1, k) \in Seq(S) /\ Len(SubSeq(q, 1, k)) = k
           /\ \A i \in 1..k : SubSeq(q, 1, k)[i] = q[i]
  BY LenProperties, SubSeqProperties

LEMMA WiderSeq ==
    ASSUME NEW S, NEW T, S \subseteq T, NEW q \in Seq(S)
    PROVE  q \in Seq(T)
<1>1. /\ q = [i \in 1..Len(q) |-> q[i]] /\ Len(q) \in Nat
      /\ \A i \in 1..Len(q) : q[i] \in S
  BY LenProperties
<1>2. q \in [1..Len(q) -> T]
  BY <1>1
<1> QED BY <1>1, <1>2, SeqDef

\* A message goes out, or is lost.
LEMMA Sending ==
    ASSUME wire \in [Handler -> Seq(Told)], NEW c \in Handler, NEW m \in Told, Send(c, m)
    PROVE  /\ wire' \in [Handler -> Seq(Told)]
           /\ \A d \in Handler \ {c} : wire'[d] = wire[d]
           /\ link[c] # "up" => wire'[c] = wire[c]
           /\ link[c] = "up" => wire'[c] = Append(wire[c], m)
<1>1. Append(wire[c], m) \in Seq(Told)
  BY PushPop
<1> QED BY <1>1 DEF Send

LEMMA Receiving ==
    ASSUME wire \in [Handler -> Seq(Told)], NEW c \in Handler, NEW type, Receives(c, type)
    PROVE  /\ wire' \in [Handler -> Seq(Told)]
           /\ \A d \in Handler \ {c} : wire'[d] = wire[d]
           /\ wire'[c] = Tail(wire[c]) /\ wire[c] # <<>>
           /\ wire[c][1] = Head(wire[c]) /\ Head(wire[c]) \in Told
           /\ Head(wire[c]).type = type
<1>1. wire[c] # <<>> /\ wire[c] \in Seq(Told) /\ wire' = [wire EXCEPT ![c] = Tail(wire[c])]
      /\ Head(wire[c]).type = type
  BY DEF Receives
<1>2. Tail(wire[c]) \in Seq(Told) /\ wire[c][1] = Head(wire[c]) /\ Head(wire[c]) \in Told
  BY <1>1, PushPop
<1> QED BY <1>1, <1>2

\* What a handler serves is a unit.
LEMMA Holds ==
    ASSUME TInv, NEW c \in Handler, handler[c] = "serving"
    PROVE  holding[c] \in Units
  BY DEF TInv, HoldingInv

\* The conjuncts of SyncTypeOK on the sync's own variables.
NetTypes ==
    /\ wire \in [Handler -> Seq(Told)]
    /\ link \in [Handler -> {"up", "down"}] /\ drops \in 0..MaxDrops
StreamTypes ==
    /\ stage \in [Handler -> {"offer", "mask", "body"}]
    /\ want \in [Handler -> SUBSET Files] /\ (\A c \in Handler : want[c] \subseteq SourceFiles)
    /\ replied \in [Handler -> BOOLEAN] /\ takenBy \in [Handler -> SUBSET Units]
WorkerTypes ==
    /\ worker \in [Handler -> {"off", "connecting", "reading", "body", "ok", "failed", "none"}]
    /\ gotUnit \in [Handler -> BOOLEAN]
    /\ seen \subseteq SourceFiles /\ received \subseteq Units
RunTypes ==
    /\ run \in RunIds /\ outcome \in {"fetching", "clean", "unclean", "nostream"}
    /\ fresh \in [RunIds -> BOOLEAN]
DiskTypes ==
    /\ local \in [Files -> CopyStates]
    /\ fetched \subseteq SourceFiles /\ deleted \subseteq Files

ClientTypes == WorkerTypes /\ RunTypes /\ DiskTypes
TypeInv == NetTypes /\ StreamTypes /\ ClientTypes

LEMMA TypesAreOK == TInv /\ TypeInv => SyncTypeOK
<1> SUFFICES ASSUME TInv, TypeInv PROVE SyncTypeOK
  OBVIOUS
<1>1. Told \subseteq Messages
  BY DEF Told
<1>2. wire \in [Handler -> Seq(Messages)]
  <2>1. wire = [c \in Handler |-> wire[c]] /\ \A c \in Handler : wire[c] \in Seq(Messages)
    BY <1>1, WiderSeq DEF TypeInv, NetTypes
  <2> QED BY <2>1
<1> QED BY <1>2 DEF TInv, TypeInv, NetTypes, StreamTypes, ClientTypes, WorkerTypes, RunTypes,
                    DiskTypes, SyncTypeOK

LEMMA InitTypes == SyncInit => TypeInv
<1> SUFFICES ASSUME SyncInit PROVE TypeInv
  OBVIOUS
<1>1. <<>> \in Seq(Told) /\ 1 \in RunIds /\ 0 \in 0..MaxDrops
  BY SyncAssumption DEF RunIds
<1>2. NetTypes /\ StreamTypes
  BY <1>1 DEF SyncInit, NetTypes, StreamTypes
<1>3. IsEmptyDest \in BOOLEAN
  BY DEF IsEmptyDest
<1>4. RunTypes
  BY <1>1, <1>3 DEF SyncInit, RunTypes
<1>5. WorkerTypes /\ DiskTypes
  BY SyncAssumption DEF SyncInit, WorkerTypes, DiskTypes
<1> QED BY <1>2, <1>4, <1>5 DEF TypeInv, ClientTypes

LEMMA ServerTypes ==
    ASSUME TInv, TypeInv, NEW c \in Handler, ServerSide(c) \/ ReadError(c) \/ Drop(c)
    PROVE  TypeInv'
<1>1. CASE OfferDir(c) \/ OfferFiles(c)
  <2>1. handler[c] = "serving" /\ Send(c, Offer(holding[c]))
    BY <1>1 DEF OfferDir, OfferFiles
  <2>2. wire' \in [Handler -> Seq(Told)]
    BY <2>1, Holds, MessagesTold, Sending DEF TypeInv, NetTypes
  <2> QED BY <1>1, <2>2 DEF OfferDir, OfferFiles, TypeInv, NetTypes, StreamTypes, ClientTypes,
                    WorkerTypes, RunTypes, DiskTypes, clientVars, workerVars, runVars, diskVars,
                    streamVars
<1>2. CASE SendBodies(c)
  <2>1. PICK locked \in SUBSET Lockable :
            LET asked == IF fresh[c[1]] THEN FilesOf[holding[c]] ELSE want[c]
            IN  IF asked = {} THEN UNCHANGED wire
                ELSE Send(c, Body(holding[c], asked \ locked))
    BY <1>2 DEF SendBodies
  <2>2. holding[c] \in Units
    BY <1>2, Holds DEF SendBodies
  <2>3. want[c] \in SUBSET SourceFiles /\ FilesOf[holding[c]] \in SUBSET SourceFiles
    BY <2>2, UnitFiles DEF TypeInv, StreamTypes
  <2>4. wire' \in [Handler -> Seq(Told)]
    <3>1. CASE wire' = wire
      BY <3>1 DEF TypeInv, NetTypes
    <3>2. ASSUME NEW sent \in SUBSET SourceFiles, Send(c, Body(holding[c], sent))
          PROVE  wire' \in [Handler -> Seq(Told)]
      <4>1. Body(holding[c], sent) \in Told
        BY <2>2, MessagesTold
      <4> QED BY <3>2, <4>1, Sending DEF TypeInv, NetTypes
    <3> QED BY <2>1, <2>3, <3>1, <3>2
  <2> QED BY <1>2, <2>4 DEF SendBodies, TypeInv, NetTypes, StreamTypes, ClientTypes,
                    WorkerTypes, RunTypes, DiskTypes, clientVars, workerVars, runVars, diskVars,
                    streamVars
<1>3. CASE TellNounit(c)
  <2>1. wire' \in [Handler -> Seq(Told)]
    BY <1>3, MessagesTold, Sending DEF TypeInv, NetTypes, TellNounit
  <2> QED BY <1>3, <2>1 DEF TellNounit, TypeInv, NetTypes, StreamTypes, ClientTypes,
                    WorkerTypes, RunTypes, DiskTypes, clientVars, workerVars, runVars, diskVars,
                    streamVars
<1>0. CASE TakeUnit(c)
  <2>1. Head(queue) \in Units
    BY <1>0, PushPop DEF TakeUnit, PopUnit, TInv, TypeOK
  <2> QED BY <1>0, <2>1
          DEF TakeUnit, TypeInv, NetTypes, StreamTypes, ClientTypes, WorkerTypes, RunTypes,
              DiskTypes, clientVars, workerVars, runVars, diskVars, netVars
<1>4. CASE ReadMask(c)
  BY <1>4
  DEF ReadMask, TypeInv, NetTypes, StreamTypes, ClientTypes, WorkerTypes, RunTypes,
      DiskTypes, clientVars, workerVars, runVars, diskVars, netVars
<1>5. CASE HandlerNotices(c)
  BY <1>5
  DEF HandlerNotices, TypeInv, NetTypes, StreamTypes, ClientTypes, WorkerTypes, RunTypes,
      DiskTypes, clientVars, workerVars, runVars, diskVars, netVars, streamVars
<1>6. CASE ReadError(c)
  BY <1>6, SyncAssumption
  DEF ReadError, TypeInv, NetTypes, StreamTypes, ClientTypes, WorkerTypes, RunTypes,
      DiskTypes, clientVars, workerVars, runVars, diskVars, streamVars
<1>7. CASE Drop(c)
  <2>1. PICK k \in 0..Len(wire[c]) : wire' = [wire EXCEPT ![c] = SubSeq(wire[c], 1, k)]
    BY <1>7 DEF Drop
  <2>2. SubSeq(wire[c], 1, k) \in Seq(Told)
    BY Truncated DEF TypeInv, NetTypes
  <2>3. wire' \in [Handler -> Seq(Told)]
    BY <2>1, <2>2 DEF TypeInv, NetTypes
  <2> QED BY <1>7, <2>3, SyncAssumption
          DEF Drop, TypeInv, NetTypes, StreamTypes, ClientTypes, WorkerTypes, RunTypes,
              DiskTypes, clientVars, workerVars, runVars, diskVars
<1> QED BY <1>0, <1>1, <1>2, <1>3, <1>4, <1>5, <1>6, <1>7 DEF ServerSide

LEMMA ClientStepTypes ==
    ASSUME TInv, TypeInv, NEW c \in Handler, ClientSide(c)
    PROVE  TypeInv'
<1> USE DEF TypeInv, NetTypes, StreamTypes, ClientTypes, WorkerTypes, RunTypes, DiskTypes,
            netVars, streamVars, workerVars, runVars, diskVars
<1>1. CASE Connect(c) \/ Refused(c) \/ Handshake(c) \/ HandshakeFails(c)
  BY <1>1 DEF Connect, Refused, Handshake, HandshakeFails
<1>2. CASE ReadOffer(c)
  <2> DEFINE files == Head(wire[c]).files
             wanted == IF fresh[c[1]] THEN files ELSE {f \in files : local[f] # "current"}
  <2>1. /\ Receives(c, "offer")
        /\ gotUnit' = [gotUnit EXCEPT ![c] = TRUE]
        /\ seen' = seen \union files
        /\ received' = received \union {Head(wire[c]).unit}
        /\ want' = [want EXCEPT ![c] = wanted]
        /\ replied' = [replied EXCEPT ![c] = files # {} /\ ~fresh[c[1]] /\ link[c] = "up"]
        /\ worker' = [worker EXCEPT ![c] = IF wanted = {} THEN "reading" ELSE "body"]
        /\ UNCHANGED <<vars, link, drops, stage, takenBy, runVars, diskVars>>
    BY <1>2 DEF ReadOffer
  <2>2. /\ wire' \in [Handler -> Seq(Told)]
        /\ Head(wire[c]) \in Told /\ Head(wire[c]).type = "offer"
    BY <2>1, Receiving
  <2>3. files \subseteq SourceFiles /\ Head(wire[c]).unit \in Units
    BY <2>2 DEF Told
  <2>4. wanted \subseteq SourceFiles
    BY <2>3
  <2>5. (files # {} /\ ~fresh[c[1]] /\ link[c] = "up") \in BOOLEAN
    OBVIOUS
  <2> HIDE DEF files, wanted
  <2>6. replied' \in [Handler -> BOOLEAN]
    BY <2>1, <2>5, Zenon
  <2>7. StreamTypes'
    BY <2>1, <2>4, <2>6, UnitFiles
  <2>8. WorkerTypes'
    BY <2>1, <2>3
  <2> QED BY <2>1, <2>2, <2>7, <2>8
<1>3. CASE ReadBodies(c)
  <2>1. /\ wire' \in [Handler -> Seq(Told)]
        /\ Head(wire[c]) \in Told
    BY <1>3, Receiving DEF ReadBodies
  <2>2. Head(wire[c]).files \subseteq SourceFiles
    BY <2>1 DEF Told
  <2> QED BY <1>3, <2>1, <2>2 DEF ReadBodies, CopyStates
<1>4. CASE ReadNounit(c)
  <2>1. wire' \in [Handler -> Seq(Told)]
    BY <1>4, Receiving DEF ReadNounit
  <2> QED BY <1>4, <2>1 DEF ReadNounit
<1>5. CASE StreamFails(c)
  BY <1>5 DEF StreamFails, CopyStates
<1> QED BY <1>1, <1>2, <1>3, <1>4, <1>5 DEF ClientSide

LEMMA RunStepTypes == TypeInv /\ (EndRun \/ Rerun) => TypeInv'
<1> SUFFICES ASSUME TypeInv, EndRun \/ Rerun PROVE TypeInv'
  OBVIOUS
<1> USE DEF TypeInv, NetTypes, StreamTypes, ClientTypes, WorkerTypes, RunTypes, DiskTypes,
            netVars, streamVars, workerVars, runVars, diskVars
<1>1. CASE EndRun
  BY <1>1 DEF EndRun, CopyStates, Unseen
<1>2. CASE Rerun
  <2>1. run + 1 \in RunIds /\ run' = run + 1
    BY <1>2, SyncAssumption DEF Rerun, RunIds
  <2>2. IsEmptyDest \in BOOLEAN
    BY DEF IsEmptyDest
  <2>3. fresh' \in [RunIds -> BOOLEAN]
    BY <1>2, <2>1, <2>2, Zenon DEF Rerun
  <2> QED BY <1>2, <2>1, <2>3 DEF Rerun
<1> QED BY <1>1, <1>2

LEMMA NextTypes == TInv /\ TypeInv /\ [SyncNext]_syncVars => TypeInv'
<1> SUFFICES ASSUME TInv, TypeInv, [SyncNext]_syncVars PROVE TypeInv'
  OBVIOUS
<1>1. CASE ServerInternal \/ UNCHANGED syncVars
  BY <1>1 DEF ServerInternal, syncVars, TypeInv, NetTypes, StreamTypes, ClientTypes, WorkerTypes,
              RunTypes, DiskTypes, netVars, streamVars, clientVars, workerVars, runVars, diskVars
<1> QED BY <1>1, ServerTypes, ClientStepTypes, RunStepTypes DEF SyncNext

\* Every variable of a sync keeps its type: no message names a file that the source
\* does not have, so nothing is fetched or recorded as seen but the source's files.
THEOREM SyncTypes == SyncSpec => []SyncTypeOK
<1> QED BY ServesInit, ServesStep, InitTypes, NextTypes, TypesAreOK, PTL DEF SyncSpec, Serves

------------------------------------------------------------------------------
(* Who is at work. *)

\* A worker is at work in the run under way only; a connection that was never
\* made carries nothing.
Role(c) ==
    /\ worker[c] \in Working => c[1] = run /\ outcome = "fetching"
    /\ c[1] > run => worker[c] = "off"
    /\ worker[c] = "off" => handler[c] = "absent"
    /\ handler[c] = "absent" =>
           worker[c] \in {"off", "none"} /\ wire[c] = <<>> /\ ~gotUnit[c]
    /\ worker[c] = "body" => gotUnit[c]

\* The workers of a run start behind its probe.
Unproven == {"off", "connecting", "none"}
ProbeFirst ==
    worker[<<run, Probe>>] \in Unproven =>
        \A c \in Conns(run) : c # <<run, Probe>> => worker[c] = "off"

\* A run that is done ended on every stream.
CleanEnds == outcome = "clean" => \A c \in Conns(run) : worker[c] \in {"ok", "none"}

Roles == (\A c \in Handler : Role(c)) /\ ProbeFirst /\ CleanEnds

Typed == Serves /\ TypeInv

LEMMA InitRoles == SyncInit => Roles
<1> SUFFICES ASSUME SyncInit PROVE Roles
  OBVIOUS
<1>1. /\ handler = [c \in Handler |-> "absent"] /\ worker = [c \in Handler |-> "off"]
      /\ wire = [c \in Handler |-> <<>>] /\ gotUnit = [c \in Handler |-> FALSE]
      /\ outcome = "fetching" /\ run = 1
  BY DEF SyncInit, Init
<1>2. 1 \in RunIds
  BY SyncAssumption DEF RunIds
<1> QED BY <1>1, <1>2, ConnsOfRun DEF Roles, Role, ProbeFirst, CleanEnds, Working

\* The steps of the server and of the network leave the workers alone, and no
\* handler comes into being by them.
LEMMA ServerApart ==
    ASSUME Typed, ServerInternal \/ \E c \in Handler : ServerSide(c) \/ ReadError(c) \/ Drop(c)
    PROVE  /\ UNCHANGED clientVars
           /\ \A d \in Handler : handler'[d] = "absent" <=> handler[d] = "absent"
<1>0. handler = [d \in Handler |-> handler[d]]
  BY DEF Typed, Serves, TInv, TypeOK
<1>1. CASE ServerInternal
  BY <1>0, <1>1
  DEF ServerInternal, ProducerStep, SeeSpace, Push, StoreDone, NoConnection, AcceptError,
      ReapAndCheck, JoinThreads, PopNone, PollAgain, Move, handlerVars
<1>2. ASSUME NEW c \in Handler, ServerSide(c) \/ ReadError(c) \/ Drop(c)
      PROVE  /\ UNCHANGED clientVars
             /\ \A d \in Handler : handler'[d] = "absent" <=> handler[d] = "absent"
  BY <1>0, <1>2
  DEF ServerSide, TakeUnit, OfferDir, OfferFiles, ReadMask, SendBodies, TellNounit,
      HandlerNotices, ReadError, Drop, PopUnit, FinishUnit, SendNounit, Reject, SendFails,
      AbandonUnit, Move, vars, handlerVars
<1> QED BY <1>1, <1>2

\* Nor is anything sent to a client that never connected.
LEMMA ServerWires ==
    ASSUME Typed, ServerInternal \/ \E c \in Handler : ServerSide(c) \/ ReadError(c) \/ Drop(c)
    PROVE  \A d \in Handler : handler[d] = "absent" => wire'[d] = wire[d]
<1>1. CASE ServerInternal
  BY <1>1 DEF ServerInternal, netVars
<1>2. ASSUME NEW c \in Handler, ServerSide(c) \/ ReadError(c) \/ Drop(c)
      PROVE  \A d \in Handler : handler[d] = "absent" => wire'[d] = wire[d]
  <2>1. \A d \in Handler \ {c} : wire'[d] = wire[d]
    BY <1>2
    DEF ServerSide, TakeUnit, OfferDir, OfferFiles, ReadMask, SendBodies, TellNounit,
        HandlerNotices, ReadError, Drop, Send, netVars, Typed, TypeInv, NetTypes
  <2>2. handler[c] # "absent" \/ wire' = wire
    BY <1>2
    DEF ServerSide, TakeUnit, OfferDir, OfferFiles, ReadMask, SendBodies, TellNounit,
        SendNounit, HandlerNotices, ReadError, Drop, Move, netVars
  <2> QED BY <2>1, <2>2
<1> QED BY <1>1, <1>2

LEMMA NextRoles == Typed /\ Roles /\ [SyncNext]_syncVars => Roles'
<1> SUFFICES ASSUME Typed, Roles, [SyncNext]_syncVars PROVE Roles'
  OBVIOUS
<1>0. /\ handler = [d \in Handler |-> handler[d]] /\ worker = [d \in Handler |-> worker[d]]
      /\ gotUnit = [d \in Handler |-> gotUnit[d]]
      /\ wire = [d \in Handler |-> wire[d]]
      /\ run \in RunIds
  BY DEF Typed, Serves, TInv, TypeOK, TypeInv, ClientTypes, WorkerTypes, RunTypes, NetTypes
<1>1. CASE ServerInternal \/ \E c \in Handler : ServerSide(c) \/ ReadError(c) \/ Drop(c)
  <2>1. /\ UNCHANGED <<worker, gotUnit, run, outcome>>
        /\ \A d \in Handler : handler'[d] = "absent" <=> handler[d] = "absent"
        /\ \A d \in Handler : handler[d] = "absent" => wire'[d] = wire[d]
    BY <1>1, ServerApart, ServerWires DEF clientVars, workerVars, runVars
  <2> QED BY <2>1 DEF Roles, Role, ProbeFirst, CleanEnds, Conns
<1>2. ASSUME NEW c \in Handler, ClientSide(c) PROVE Roles'
  <2>1. /\ worker[c] \in Working \/ ToConnect(c)
        /\ UNCHANGED <<run, outcome>>
        /\ \A d \in Handler \ {c} : UNCHANGED <<handler[d], worker[d], wire[d], gotUnit[d]>>
    BY <1>0, <1>2
    DEF ClientSide, Connect, Accept, Refused, Handshake, StartUnits, HandshakeFails, ReadOffer,
        ReadBodies, ReadNounit, StreamFails, Receives, Move, netVars, vars, handlerVars, runVars,
        Working
  <2>2. c \in Conns(run) /\ outcome = "fetching"
    BY <1>0, <2>1, ConnsOfRun DEF Roles, Role, ToConnect
  <2>3. ASSUME NEW d \in Handler, d # c PROVE Role(d)'
    BY <2>1, <2>3 DEF Roles, Role
  <2>4. Role(c)'
    <3>01. c[1] = run /\ run \in Nat
      BY <1>0, <2>2, ConnsOfRun
    <3>02. ~(c[1] > run)
      BY <3>01
    <3>0. c[1] = run /\ ~(c[1] > run) /\ Role(c)
      BY <3>01, <3>02 DEF Roles
    <3>1. CASE Connect(c)
      BY <1>0, <2>1, <2>2, <3>0, <3>1
      DEF Connect, ToConnect, Accept, Move, Role, Working
    <3>2. CASE Refused(c)
      BY <1>0, <2>1, <2>2, <3>0, <3>2
      DEF Refused, ToConnect, Role, Working, vars, handlerVars, netVars
    <3>3. CASE Handshake(c)
      BY <1>0, <2>1, <2>2, <3>0, <3>3
      DEF Handshake, StartUnits, Move, Role, Working
    <3>4. CASE HandshakeFails(c)
      BY <1>0, <2>1, <2>2, <3>0, <3>4
      DEF HandshakeFails, Role, Working, vars, handlerVars
    <3>5. CASE ReadOffer(c) \/ ReadBodies(c) \/ ReadNounit(c) \/ StreamFails(c)
      <4>1. /\ worker[c] \in {"reading", "body"} /\ handler' = handler
            /\ worker'[c] \in {"reading", "body", "ok", "failed"}
            /\ worker'[c] = "body" => gotUnit'[c]
        BY <1>0, <3>5
        DEF ReadOffer, ReadBodies, ReadNounit, StreamFails, vars, handlerVars
      <4> QED BY <2>1, <2>2, <3>0, <4>1 DEF Role, Working
    <3> QED BY <1>2, <3>1, <3>2, <3>3, <3>4, <3>5 DEF ClientSide
  <2>5. ProbeFirst'
    <3>1. CASE c = <<run, Probe>>
      <4>1. worker[c] \in Unproven \/ worker'[c] \notin Unproven
        BY <1>0, <1>2
        DEF ClientSide, Connect, ToConnect, Refused, Handshake, HandshakeFails, ReadOffer,
            ReadBodies, ReadNounit, StreamFails, Unproven
      <4> QED BY <2>1, <3>1, <4>1, ConnsOfRun DEF Roles, ProbeFirst
    <3>2. CASE c # <<run, Probe>>
      <4>1. <<run, Probe>> \in Handler
        BY <1>0, ConnsOfRun
      <4>2. c[2] # Probe
        BY <1>0, <2>2, <3>2, SyncAssumption DEF Conns
      <4>3. worker[<<run, Probe>>] \notin Unproven
        BY <2>1, <2>2, <3>2, <4>2 DEF Roles, ProbeFirst, ToConnect, Unproven, Working
      <4> QED BY <2>1, <3>2, <4>1, <4>3 DEF ProbeFirst
    <3> QED BY <3>1, <3>2
  <2> QED BY <2>1, <2>2, <2>3, <2>4, <2>5 DEF Roles, CleanEnds
<1>3. CASE EndRun
  <2>1. /\ UNCHANGED <<handler, wire, worker, gotUnit, run>>
        /\ outcome = "fetching"
        /\ \/ \A c \in Conns(run) : Ended(c)
           \/ worker[<<run, Probe>>] = "none"
        /\ outcome' = "clean" => /\ worker[<<run, Probe>>] # "none"
                                 /\ ~\E c \in Conns(run) : worker[c] = "failed"
    BY <1>3 DEF EndRun, netVars, vars, handlerVars, workerVars
  <2>2. \A c \in Conns(run) : worker[c] \notin Working
    BY <2>1 DEF Roles, ProbeFirst, Unproven, Working, Ended
  <2>3. ASSUME NEW c \in Handler PROVE Role(c)'
    <3>1. worker[c] \notin Working
      BY <1>0, <2>2, ConnsOfRun DEF Roles, Role
    <3> QED BY <2>1, <3>1 DEF Roles, Role
  <2>4. CleanEnds'
    BY <2>1 DEF CleanEnds, Ended, Conns
  <2> QED BY <2>1, <2>3, <2>4 DEF Roles, ProbeFirst, Conns
<1>4. CASE Rerun
  <2>1. /\ UNCHANGED <<handler, wire, worker, gotUnit>>
        /\ run' = run + 1 /\ outcome # "fetching" /\ outcome' = "fetching"
        /\ run' \in RunIds
    BY <1>4, NextTypes
    DEF Rerun, netVars, vars, handlerVars, Typed, Serves, TypeInv, ClientTypes, RunTypes
  <2>2. ASSUME NEW c \in Handler PROVE Role(c)' /\ (c[1] = run + 1 => worker[c] = "off")
    <3>1. c[1] \in Nat /\ run \in Nat
      BY <1>0, ConnsOfRun
    <3>2. c[1] > run + 1 \/ c[1] = run + 1 => c[1] > run
      BY <3>1
    <3>3. worker[c] \notin Working
      BY <2>1 DEF Roles, Role
    <3> QED BY <2>1, <3>2, <3>3 DEF Roles, Role
  <2>3. ProbeFirst'
    BY <1>0, <2>1, <2>2, ConnsOfRun DEF ProbeFirst
  <2> QED BY <2>1, <2>2, <2>3 DEF Roles, CleanEnds
<1>5. CASE UNCHANGED syncVars
  BY <1>5 DEF syncVars, vars, netVars, handlerVars, clientVars, workerVars, runVars,
              Roles, Role, ProbeFirst, CleanEnds, Conns
<1> QED BY <1>1, <1>2, <1>3, <1>4, <1>5 DEF SyncNext

------------------------------------------------------------------------------
(* Bodies come behind their offers. *)

OffersFiles(m) == m.type = "offer" /\ m.files # {}

\* A body holds what was asked for; all that may be missing is locked.
Answers(m, files) ==
    m.type = "body" /\ files \ Lockable \subseteq m.files /\ m.files \subseteq files

\* A streamed body comes right behind its offer.
Streamed(c) ==
    \A i \in 1..Len(wire[c]) : OffersFiles(wire[c][i]) /\ i < Len(wire[c]) =>
        fresh[c[1]] /\ Answers(wire[c][i + 1], wire[c][i].files)

\* A worker that waits for files gets them next, or its handler has yet to send them.
Awaited(c) ==
    worker[c] = "body" =>
        /\ want[c] # {}
        /\ wire[c] # <<>> => Answers(wire[c][1], want[c])
        /\ wire[c] = <<>> /\ link[c] = "up" =>
               /\ handler[c] = "serving"
               /\ fresh[c[1]] => want[c] = FilesOf[holding[c]]
               /\ stage[c] = "body" \/ (stage[c] = "mask" /\ replied[c])

\* A handler that offered files last is at that unit.
Followed(c) ==
    wire[c] # <<>> /\ link[c] = "up" /\ OffersFiles(wire[c][Len(wire[c])]) =>
        /\ handler[c] = "serving" /\ holding[c] = wire[c][Len(wire[c])].unit
        /\ stage[c] = IF fresh[c[1]] THEN "body" ELSE "mask"
        /\ ~replied[c]

\* A handler that was answered had asked.
Asked(c) == replied[c] /\ link[c] = "up" => handler[c] = "serving" /\ stage[c] = "mask"

Framed(c) == Streamed(c) /\ Awaited(c) /\ Followed(c) /\ Asked(c)

FramedInv == \A c \in Handler : Framed(c)

LEMMA InitFramed == SyncInit => FramedInv
<1> SUFFICES ASSUME SyncInit, NEW c \in Handler PROVE Framed(c)
  BY DEF FramedInv
<1>1. wire[c] = <<>> /\ worker[c] = "off" /\ replied[c] = FALSE
  BY DEF SyncInit
<1>2. Len(wire[c]) = 0 /\ 1..0 = {}
  BY <1>1
<1> QED BY <1>1, <1>2, Zenon DEF Framed, Streamed, Awaited, Followed, Asked

\* A step that leaves what is under way alone; a handler at its unit stays there.
LEMMA FramedKept ==
    ASSUME NEW c \in Handler, Framed(c),
           wire'[c] = wire[c],
           wire[c] # <<>> \/ handler[c] = "serving" => fresh'[c[1]] = fresh[c[1]],
           worker'[c] = "body" => worker[c] = "body" /\ want'[c] = want[c],
           link'[c] # "up" \/ (link[c] = "up" /\ replied'[c] = replied[c]),
           \/ link'[c] # "up"
           \/ handler[c] # "serving"
           \/ /\ handler'[c] = "serving"
              /\ UNCHANGED <<holding[c], stage[c]>>
    PROVE  Framed(c)'
<1>1. Streamed(c)'
  <2> SUFFICES ASSUME NEW i \in 1..Len(wire[c]), OffersFiles(wire[c][i]), i < Len(wire[c])
               PROVE  fresh'[c[1]] /\ Answers(wire[c][i + 1], wire[c][i].files)
    BY DEF Streamed, Answers, OffersFiles
  <2>1. wire[c] # <<>>
    OBVIOUS
  <2>2. fresh[c[1]] /\ Answers(wire[c][i + 1], wire[c][i].files)
    BY DEF Framed, Streamed
  <2> QED BY <2>1, <2>2
<1>2. Awaited(c)'
  BY DEF Framed, Awaited, Answers
<1>3. Followed(c)'
  BY DEF Framed, Followed, OffersFiles
<1>4. Asked(c)'
  BY DEF Framed, Asked
<1> QED BY <1>1, <1>2, <1>3, <1>4 DEF Framed

LEMMA StreamedSent ==
    ASSUME NEW c \in Handler, wire[c] \in Seq(Told), NEW m \in Told, Streamed(c),
           wire'[c] = Append(wire[c], m), fresh' = fresh,
           wire[c] # <<>> /\ OffersFiles(wire[c][Len(wire[c])]) =>
               fresh[c[1]] /\ Answers(m, wire[c][Len(wire[c])].files)
    PROVE  Streamed(c)'
<1> DEFINE n == Len(wire[c])
<1>1. /\ n \in Nat /\ Len(wire'[c]) = n + 1 /\ wire'[c][n + 1] = m
      /\ \A i \in 1..n : wire'[c][i] = wire[c][i]
      /\ n > 0 => wire[c] # <<>>
  BY PushPop
<1> SUFFICES ASSUME NEW i \in 1..(n + 1), OffersFiles(wire'[c][i]), i < n + 1
             PROVE  fresh[c[1]] /\ Answers(wire'[c][i + 1], wire'[c][i].files)
  BY <1>1 DEF Streamed, OffersFiles, Answers
<1>2. i \in 1..n /\ wire'[c][i] = wire[c][i] /\ i + 1 \in 1..(n + 1) /\ n > 0
  BY <1>1
<1>3. CASE i = n
  BY <1>1, <1>2, <1>3
<1>4. CASE i < n
  <2>1. i + 1 \in 1..n /\ wire'[c][i + 1] = wire[c][i + 1]
    BY <1>1, <1>4
  <2> QED BY <1>2, <1>4, <2>1 DEF Streamed
<1> QED BY <1>1, <1>2, <1>3, <1>4

LEMMA AwaitedSent ==
    ASSUME NEW c \in Handler, wire[c] \in Seq(Told), NEW m \in Told, Awaited(c),
           wire'[c] = Append(wire[c], m), UNCHANGED <<worker, want>>,
           worker[c] = "body" /\ wire[c] = <<>> => Answers(m, want[c])
    PROVE  Awaited(c)'
<1>1. wire'[c] # <<>> /\ wire'[c][1] = IF wire[c] = <<>> THEN m ELSE wire[c][1]
  <2>1. Len(wire[c]) = 0 \/ (Len(wire[c]) > 0 /\ 1 \in 1..Len(wire[c]))
    BY PushPop
  <2>2. wire[c] = <<>> <=> Len(wire[c]) = 0
    BY EmptySeq
  <2> QED BY <2>1, <2>2, PushPop
<1> QED BY <1>1 DEF Awaited, Answers

LEMMA FollowedSent ==
    ASSUME NEW c \in Handler, wire[c] \in Seq(Told), NEW m \in Told,
           wire'[c] = Append(wire[c], m),
           OffersFiles(m) /\ link[c] = "up" =>
               /\ handler'[c] = "serving" /\ holding'[c] = m.unit
               /\ stage'[c] = IF fresh'[c[1]] THEN "body" ELSE "mask"
               /\ ~replied'[c],
           link' = link
    PROVE  Followed(c)'
<1>1. wire'[c][Len(wire'[c])] = m
  BY PushPop
<1> QED BY <1>1 DEF Followed, OffersFiles

\* The server's steps that send.
LEMMA SendFramed ==
    ASSUME Typed, FramedInv, NEW c \in Handler,
           OfferDir(c) \/ OfferFiles(c) \/ SendBodies(c) \/ TellNounit(c)
    PROVE  FramedInv'
<1>0. /\ wire \in [Handler -> Seq(Told)] /\ stage = [d \in Handler |-> stage[d]]
      /\ handler = [d \in Handler |-> handler[d]] /\ holding = [d \in Handler |-> holding[d]]
      /\ UNCHANGED <<fresh, worker, want, link, replied>>
  BY DEF Typed, Serves, TInv, TypeOK, TypeInv, NetTypes, StreamTypes, OfferDir, OfferFiles,
         SendBodies, TellNounit, streamVars, clientVars, workerVars, runVars
<1>1. /\ \A d \in Handler \ {c} : /\ wire'[d] = wire[d]
                                  /\ UNCHANGED <<handler[d], holding[d], stage[d]>>
  BY <1>0 DEF OfferDir, OfferFiles, SendBodies, TellNounit, FinishUnit, SendNounit, Move, Send,
              streamVars, vars, handlerVars
<1>2. ASSUME NEW d \in Handler, d # c PROVE Framed(d)'
  BY <1>0, <1>1, <1>2, FramedKept DEF FramedInv
<1> SUFFICES Framed(c)'
  BY <1>2 DEF FramedInv
<1>3. Framed(c) /\ wire[c] \in Seq(Told)
  BY <1>0 DEF FramedInv
<1>4. ASSUME wire'[c] = wire[c], link[c] # "up" PROVE Framed(c)'
  BY <1>0, <1>3, <1>4, FramedKept
<1>5. CASE OfferDir(c) \/ OfferFiles(c)
  <2> DEFINE m == Offer(holding[c])
  <2>1. /\ handler[c] = "serving" /\ stage[c] = "offer" /\ Send(c, m)
        /\ holding[c] \in Units
    BY <1>5, Holds DEF OfferDir, OfferFiles, Typed, Serves
  <2>2. m \in Told /\ m.type = "offer" /\ m.unit = holding[c] /\ m.files = FilesOf[holding[c]]
    BY <2>1, MessagesTold
  <2> HIDE DEF m
  <2>3. CASE link[c] = "up"
    <3>1. wire'[c] = Append(wire[c], m)
      BY <1>0, <2>1, <2>2, <2>3, Sending
    <3>2. ~(wire[c] # <<>> /\ OffersFiles(wire[c][Len(wire[c])]))
      BY <1>3, <2>1, <2>3 DEF Framed, Followed
    <3>3. ~(worker[c] = "body" /\ wire[c] = <<>>)
      BY <1>3, <2>1, <2>3 DEF Framed, Awaited
    <3>4. ~replied[c]
      BY <1>3, <2>1, <2>3 DEF Framed, Asked
    <3>5. OffersFiles(m) => /\ handler'[c] = "serving" /\ holding'[c] = m.unit
                            /\ stage'[c] = IF fresh'[c[1]] THEN "body" ELSE "mask"
      BY <1>0, <1>5, <2>1, <2>2 DEF OfferDir, OfferFiles, OffersFiles, vars, handlerVars
    <3>6. Streamed(c)' /\ Awaited(c)'
      BY <1>0, <1>3, <2>2, <3>1, <3>2, <3>3, StreamedSent, AwaitedSent DEF Framed
    <3>7. Followed(c)'
      BY <1>0, <1>3, <2>2, <3>1, <3>4, <3>5, FollowedSent
    <3> QED BY <1>0, <3>4, <3>6, <3>7 DEF Framed, Asked
  <2> QED BY <1>0, <1>4, <2>1, <2>2, <2>3, Sending
<1>6. CASE SendBodies(c)
  <2>1. /\ handler[c] = "serving" /\ stage[c] = "body" /\ holding[c] \in Units /\ stage' = stage
    BY <1>6, Holds DEF SendBodies, Typed, Serves, streamVars
  <2> DEFINE asked == IF fresh[c[1]] THEN FilesOf[holding[c]] ELSE want[c]
  <2>2. PICK locked \in SUBSET Lockable :
            IF asked = {} THEN UNCHANGED wire
            ELSE Send(c, Body(holding[c], asked \ locked))
    BY <1>6 DEF SendBodies
  <2> DEFINE m == Body(holding[c], asked \ locked)
  <2>3. asked \subseteq SourceFiles
    BY <2>1, UnitFiles DEF Typed, TypeInv, StreamTypes
  <2>4. m \in Told /\ m.type = "body" /\ m.files = asked \ locked
    <3>1. asked \ locked \in SUBSET SourceFiles
      BY <2>3
    <3> QED BY <2>1, <3>1, MessagesTold
  <2>5. ~OffersFiles(m) /\ Answers(m, asked)
    BY <2>4 DEF OffersFiles, Answers
  <2>6. link[c] = "up" /\ wire[c] # <<>> /\ OffersFiles(wire[c][Len(wire[c])]) =>
            /\ fresh[c[1]] /\ wire[c][Len(wire[c])].files = asked
            /\ asked # {}
    <3> SUFFICES ASSUME link[c] = "up", wire[c] # <<>>, OffersFiles(wire[c][Len(wire[c])])
                 PROVE  /\ fresh[c[1]] /\ wire[c][Len(wire[c])].files = asked
                        /\ asked # {}
      OBVIOUS
    <3>1. fresh[c[1]] /\ holding[c] = wire[c][Len(wire[c])].unit
      BY <1>3, <2>1 DEF Framed, Followed
    <3>2. Len(wire[c]) \in 1..Len(wire[c])
      BY <1>3, PushPop
    <3>3. wire[c][Len(wire[c])] \in Told
      BY <1>3, <3>2
    <3> QED BY <3>1, <3>3 DEF Told, OffersFiles
  <2>7. link[c] = "up" /\ worker[c] = "body" /\ wire[c] = <<>> =>
            want[c] = asked /\ asked # {}
    BY <1>3 DEF Framed, Awaited
  <2>8. link[c] = "up" => ~replied[c]
    BY <1>3, <2>1 DEF Framed, Asked
  <2>9. CASE asked = {} /\ link[c] = "up"
    <3>1. wire' = wire
      BY <2>2, <2>9
    <3>2. Streamed(c)'
      BY <1>0, <1>3, <3>1 DEF Framed, Streamed, OffersFiles, Answers
    <3>3. Awaited(c)'
      BY <1>0, <1>3, <2>7, <2>9, <3>1 DEF Framed, Awaited, Answers
    <3>4. Followed(c)'
      BY <1>0, <2>6, <2>9, <3>1 DEF Followed, OffersFiles
    <3> QED BY <1>0, <2>8, <2>9, <3>2, <3>3, <3>4 DEF Framed, Asked
  <2>10. CASE asked # {} /\ link[c] = "up"
    <3>1. Send(c, m)
      BY <2>2, <2>10
    <3> HIDE DEF m, asked
    <3>2. wire'[c] = Append(wire[c], m)
      BY <1>0, <2>4, <2>10, <3>1, Sending
    <3>3. Streamed(c)'
      BY <1>0, <1>3, <2>4, <2>5, <2>6, <2>10, <3>2, StreamedSent DEF Framed
    <3>4. Awaited(c)'
      BY <1>0, <1>3, <2>4, <2>5, <2>7, <2>10, <3>2, AwaitedSent DEF Framed
    <3>5. Followed(c)'
      BY <1>0, <1>3, <2>4, <2>5, <3>2, FollowedSent
    <3> QED BY <1>0, <2>8, <2>10, <3>3, <3>4, <3>5 DEF Framed, Asked
  <2>11. CASE link[c] # "up"
    <3>1. wire'[c] = wire[c]
      BY <2>2, <2>11 DEF Send
    <3> QED BY <1>4, <2>11, <3>1
  <2> QED BY <2>9, <2>10, <2>11
<1>7. CASE TellNounit(c)
  <2>1. handler[c] = "empty" /\ Send(c, Nounit)
    BY <1>7 DEF TellNounit, SendNounit, Move
  <2>2. Nounit \in Told /\ ~OffersFiles(Nounit)
    BY MessagesTold DEF OffersFiles
  <2>3. CASE link[c] = "up"
    <3>1. wire'[c] = Append(wire[c], Nounit)
      BY <1>0, <2>1, <2>2, <2>3, Sending
    <3>2. /\ ~(wire[c] # <<>> /\ OffersFiles(wire[c][Len(wire[c])]))
          /\ ~(worker[c] = "body" /\ wire[c] = <<>>)
          /\ ~replied[c]
      BY <1>3, <2>1, <2>3 DEF Framed, Followed, Awaited, Asked
    <3>3. Streamed(c)' /\ Awaited(c)' /\ Followed(c)'
      BY <1>0, <1>3, <2>2, <3>1, <3>2, StreamedSent, AwaitedSent, FollowedSent DEF Framed
    <3> QED BY <1>0, <3>2, <3>3 DEF Framed, Asked
  <2> QED BY <1>0, <1>4, <2>1, <2>2, <2>3, Sending
<1> QED BY <1>5, <1>6, <1>7

LEMMA StreamedTail ==
    ASSUME NEW c \in Handler, wire[c] \in Seq(Told), Streamed(c), wire[c] # <<>>,
           wire'[c] = Tail(wire[c]), fresh' = fresh
    PROVE  Streamed(c)'
<1> DEFINE n == Len(wire[c]) - 1
<1>1. /\ n \in Nat /\ Len(wire[c]) = n + 1 /\ Len(wire'[c]) = n
      /\ \A i \in 1..n : wire'[c][i] = wire[c][i + 1]
  BY PushPop
<1> SUFFICES ASSUME NEW i \in 1..n, OffersFiles(wire'[c][i]), i < n
             PROVE  fresh[c[1]] /\ Answers(wire'[c][i + 1], wire'[c][i].files)
  BY <1>1 DEF Streamed, OffersFiles, Answers
<1>2. /\ i + 1 \in 1..(n + 1) /\ i + 1 \in 1..n /\ i + 1 < n + 1
      /\ wire'[c][i] = wire[c][i + 1] /\ wire'[c][i + 1] = wire[c][(i + 1) + 1]
  BY <1>1
<1> QED BY <1>1, <1>2 DEF Streamed

\* What is last stays last.
LEMMA FollowedTail ==
    ASSUME NEW c \in Handler, wire[c] \in Seq(Told), wire[c] # <<>>, Followed(c),
           wire'[c] = Tail(wire[c]), UNCHANGED <<fresh, link, handler, holding, stage>>,
           wire'[c] # <<>> /\ ~replied[c] => ~replied'[c]
    PROVE  Followed(c)'
<1> SUFFICES ASSUME wire'[c] # <<>> PROVE Followed(c)'
  BY DEF Followed
<1>1. wire'[c][Len(wire'[c])] = wire[c][Len(wire[c])]
  <2> DEFINE n == Len(wire[c]) - 1
  <2>1. /\ n \in Nat /\ Len(wire[c]) = n + 1 /\ Len(wire'[c]) = n /\ wire'[c] \in Seq(Told)
        /\ \A i \in 1..n : wire'[c][i] = wire[c][i + 1]
    BY PushPop
  <2>2. n # 0
    BY <2>1, EmptySeq
  <2> QED BY <2>1, <2>2
<1>2. (~replied[c] => ~replied'[c]) /\ wire[c] # <<>>
  OBVIOUS
<1> QED BY <1>1, <1>2 DEF Followed, OffersFiles

\* The workers' steps that read.
LEMMA ReadFramed ==
    ASSUME Typed, FramedInv, NEW c \in Handler, ReadOffer(c) \/ ReadBodies(c) \/ ReadNounit(c)
    PROVE  FramedInv'
<1>0. /\ wire \in [Handler -> Seq(Told)] /\ want = [d \in Handler |-> want[d]]
      /\ worker = [d \in Handler |-> worker[d]] /\ replied = [d \in Handler |-> replied[d]]
      /\ UNCHANGED <<fresh, link, handler, holding, stage>>
  BY DEF Typed, TypeInv, NetTypes, StreamTypes, ClientTypes, WorkerTypes, ReadOffer, ReadBodies,
         ReadNounit, streamVars, runVars, vars, handlerVars
<1>1. \A d \in Handler \ {c} : UNCHANGED <<wire[d], want[d], worker[d], replied[d]>>
  BY <1>0 DEF ReadOffer, ReadBodies, ReadNounit, Receives, streamVars
<1>2. ASSUME NEW d \in Handler, d # c PROVE Framed(d)'
  BY <1>0, <1>1, <1>2, FramedKept DEF FramedInv
<1> SUFFICES Framed(c)'
  BY <1>2 DEF FramedInv
<1>3. Framed(c) /\ wire[c] \in Seq(Told)
  BY <1>0 DEF FramedInv
<1>4. /\ wire'[c] = Tail(wire[c]) /\ wire[c] # <<>> /\ wire[c][1] = Head(wire[c])
      /\ Head(wire[c]) \in Told
      /\ Len(wire[c]) \in Nat /\ 1 \in 1..Len(wire[c])
      /\ wire'[c] = <<>> => Len(wire[c]) = 1
      /\ wire'[c] # <<>> => 1 < Len(wire[c]) /\ wire'[c][1] = wire[c][1 + 1]
  <2>1. \E type : Receives(c, type)
    BY DEF ReadOffer, ReadBodies, ReadNounit
  <2>2. /\ wire'[c] = Tail(wire[c]) /\ wire[c] # <<>> /\ wire[c][1] = Head(wire[c])
        /\ Head(wire[c]) \in Told
    BY <1>0, <2>1, Receiving
  <2>3. /\ Len(wire[c]) \in Nat /\ Len(wire[c]) >= 1 /\ Len(wire'[c]) = Len(wire[c]) - 1
        /\ wire'[c] \in Seq(Told)
        /\ \A i \in 1..(Len(wire[c]) - 1) : wire'[c][i] = wire[c][i + 1]
    BY <1>3, <2>2, PushPop
  <2>4. wire'[c] = <<>> => Len(wire[c]) = 1
    BY <2>3, EmptySeq
  <2>5. wire'[c] # <<>> => Len(wire'[c]) # 0
    BY <2>3, EmptySeq
  <2> QED BY <2>2, <2>3, <2>4, <2>5
<1>5. Streamed(c)'
  BY <1>0, <1>3, <1>4, StreamedTail DEF Framed
<1>6. CASE ReadBodies(c) \/ ReadNounit(c)
  <2>1. replied' = replied /\ worker'[c] # "body"
    BY <1>0, <1>6 DEF ReadBodies, ReadNounit, streamVars
  <2>2. Awaited(c)'
    BY <2>1 DEF Awaited
  <2>3. Followed(c)'
    BY <1>0, <1>3, <1>4, <2>1, FollowedTail DEF Framed
  <2>4. Asked(c)'
    BY <1>0, <1>3, <2>1 DEF Framed, Asked
  <2> QED BY <1>5, <2>2, <2>3, <2>4 DEF Framed
<1>7. CASE ReadOffer(c)
  <2> DEFINE files == Head(wire[c]).files
             wanted == IF fresh[c[1]] THEN files ELSE {f \in files : local[f] # "current"}
  <2>1. /\ Head(wire[c]).type = "offer"
        /\ want'[c] = wanted
        /\ replied'[c] <=> files # {} /\ ~fresh[c[1]] /\ link[c] = "up"
        /\ worker'[c] = IF wanted = {} THEN "reading" ELSE "body"
    BY <1>0, <1>7 DEF ReadOffer, Receives
  <2>2. /\ wanted \subseteq files /\ (fresh[c[1]] => wanted = files)
        /\ files # {} => OffersFiles(wire[c][1])
    BY <1>4, <2>1 DEF OffersFiles
  <2>3. Head(wire[c]).unit \in Units /\ files = FilesOf[Head(wire[c]).unit]
    BY <1>4, <2>1 DEF Told
  <2> HIDE DEF wanted
  <2>4. files # {} /\ wire'[c] # <<>> => fresh[c[1]] /\ Answers(wire'[c][1], files)
    BY <1>3, <1>4, <2>2 DEF Framed, Streamed
  <2>5. files # {} /\ wire'[c] = <<>> /\ link[c] = "up" =>
            /\ handler[c] = "serving" /\ holding[c] = Head(wire[c]).unit
            /\ stage[c] = IF fresh[c[1]] THEN "body" ELSE "mask"
            /\ ~replied[c]
    BY <1>3, <1>4, <2>2 DEF Framed, Followed
  <2>6. Awaited(c)'
    <3> SUFFICES ASSUME wanted # {} PROVE Awaited(c)'
      BY <2>1 DEF Awaited
    <3>1. wire'[c] # <<>> => Answers(wire'[c][1], wanted)
      BY <2>2, <2>4
    <3>2. wire'[c] = <<>> /\ link[c] = "up" =>
              /\ handler[c] = "serving" /\ (fresh[c[1]] => wanted = FilesOf[holding[c]])
              /\ stage[c] = "body" \/ (stage[c] = "mask" /\ replied'[c])
      BY <2>1, <2>2, <2>3, <2>5
    <3> QED BY <1>0, <2>1, <3>1, <3>2 DEF Awaited, Answers
  <2>7. wire'[c] # <<>> => ~replied'[c]
    BY <2>1, <2>4
  <2>8. Followed(c)'
    BY <1>0, <1>3, <1>4, <2>7, FollowedTail DEF Framed
  <2>9. Asked(c)'
    BY <1>0, <2>1, <2>4, <2>5 DEF Asked
  <2> QED BY <1>5, <2>6, <2>8, <2>9 DEF Framed
<1> QED BY <1>6, <1>7

LEMMA DropFramed ==
    ASSUME Typed, FramedInv, NEW c \in Handler, Drop(c)
    PROVE  FramedInv'
<1>0. /\ wire \in [Handler -> Seq(Told)]
      /\ link = [d \in Handler |-> link[d]] /\ replied = [d \in Handler |-> replied[d]]
      /\ UNCHANGED <<fresh, worker, want, handler, holding, stage>>
      /\ link' = [link EXCEPT ![c] = "down"] /\ replied' = [replied EXCEPT ![c] = FALSE]
  BY DEF Typed, TypeInv, NetTypes, StreamTypes, Drop, vars, handlerVars, clientVars, workerVars,
         runVars
<1>1. PICK k \in 0..Len(wire[c]) : wire' = [wire EXCEPT ![c] = SubSeq(wire[c], 1, k)]
  BY DEF Drop
<1>2. ASSUME NEW d \in Handler, d # c PROVE Framed(d)'
  <2>1. wire'[d] = wire[d] /\ link'[d] = link[d] /\ replied'[d] = replied[d]
    BY <1>0, <1>1, <1>2
  <2> QED BY <1>0, <2>1, FramedKept DEF FramedInv
<1>3. /\ Framed(c) /\ wire[c] \in Seq(Told) /\ link'[c] = "down"
      /\ wire'[c] = SubSeq(wire[c], 1, k)
  BY <1>0, <1>1 DEF FramedInv
<1>4. /\ wire'[c] \in Seq(Told) /\ Len(wire'[c]) = k /\ Len(wire[c]) \in Nat
      /\ \A i \in 1..k : wire'[c][i] = wire[c][i]
  BY <1>3, Truncated, PushPop
<1>5. Streamed(c)'
  <2> SUFFICES ASSUME NEW i \in 1..k, OffersFiles(wire'[c][i]), i < k
               PROVE  fresh[c[1]] /\ Answers(wire'[c][i + 1], wire'[c][i].files)
    BY <1>0, <1>4 DEF Streamed, OffersFiles, Answers
  <2>1. /\ i \in 1..Len(wire[c]) /\ i < Len(wire[c]) /\ i + 1 \in 1..k
        /\ wire'[c][i] = wire[c][i] /\ wire'[c][i + 1] = wire[c][i + 1]
    BY <1>4
  <2> QED BY <1>3, <2>1 DEF Framed, Streamed
<1>6. Awaited(c)'
  <2>1. wire'[c] # <<>> => wire[c] # <<>> /\ wire'[c][1] = wire[c][1]
    <3> SUFFICES ASSUME wire'[c] # <<>> PROVE wire[c] # <<>> /\ wire'[c][1] = wire[c][1]
      OBVIOUS
    <3>1. k # 0
      BY <1>4, EmptySeq
    <3>2. Len(wire[c]) # 0 /\ 1 \in 1..k
      BY <1>4, <3>1
    <3> QED BY <1>4, <3>2
  <2> QED BY <1>0, <1>3, <2>1 DEF Framed, Awaited, Answers
<1>7. Followed(c)' /\ Asked(c)'
  BY <1>3 DEF Followed, Asked
<1> QED BY <1>2, <1>5, <1>6, <1>7 DEF FramedInv, Framed

LEMMA ReadMaskFramed ==
    ASSUME Typed, FramedInv, NEW c \in Handler, ReadMask(c)
    PROVE  FramedInv'
<1>0. /\ stage = [d \in Handler |-> stage[d]] /\ replied = [d \in Handler |-> replied[d]]
      /\ UNCHANGED <<fresh, worker, want, handler, holding, wire, link>>
      /\ stage' = [stage EXCEPT ![c] = "body"] /\ replied' = [replied EXCEPT ![c] = FALSE]
      /\ handler[c] = "serving" /\ stage[c] = "mask" /\ replied[c]
  BY DEF Typed, TypeInv, StreamTypes, ReadMask, vars, handlerVars, clientVars, workerVars,
         runVars, netVars
<1>1. ASSUME NEW d \in Handler, d # c PROVE Framed(d)'
  <2>1. stage'[d] = stage[d] /\ replied'[d] = replied[d]
    BY <1>0, <1>1
  <2> QED BY <1>0, <2>1, FramedKept DEF FramedInv
<1>2. Framed(c) /\ stage'[c] = "body" /\ ~replied'[c]
  BY <1>0 DEF FramedInv
<1>3. Streamed(c)'
  BY <1>0, <1>2 DEF Framed, Streamed, OffersFiles, Answers
<1>4. Awaited(c)'
  BY <1>0, <1>2 DEF Framed, Awaited, Answers
<1>5. Followed(c)'
  BY <1>0, <1>2 DEF Framed, Followed, OffersFiles
<1>6. Asked(c)'
  BY <1>2 DEF Asked
<1> QED BY <1>1, <1>2, <1>3, <1>4, <1>5, <1>6 DEF FramedInv, Framed

LEMMA NextFramed == Typed /\ Roles /\ FramedInv /\ [SyncNext]_syncVars => FramedInv'
<1> SUFFICES ASSUME Typed, Roles, FramedInv, [SyncNext]_syncVars PROVE FramedInv'
  OBVIOUS
<1>0. /\ handler = [d \in Handler |-> handler[d]] /\ worker = [d \in Handler |-> worker[d]]
      /\ holding = [d \in Handler |-> holding[d]] /\ stage = [d \in Handler |-> stage[d]]
      /\ link = [d \in Handler |-> link[d]]
      /\ run \in RunIds /\ fresh = [r \in RunIds |-> fresh[r]]
  BY DEF Typed, Serves, TInv, TypeOK, TypeInv, ClientTypes, WorkerTypes, RunTypes, NetTypes,
         StreamTypes
<1>1. CASE ServerInternal
  <2> SUFFICES ASSUME NEW d \in Handler PROVE Framed(d)'
    BY DEF FramedInv
  <2>1. /\ UNCHANGED <<fresh, worker, want, wire, link, stage, replied, holding>>
        /\ handler[d] = "serving" => handler'[d] = "serving"
    BY <1>0, <1>1
    DEF ServerInternal, ProducerStep, SeeSpace, Push, StoreDone, NoConnection, AcceptError,
        ReapAndCheck, JoinThreads, PopNone, PollAgain, Move, handlerVars, netVars, streamVars,
        clientVars, workerVars, runVars
  <2> QED BY <2>1, FramedKept DEF FramedInv
<1>2. ASSUME NEW c \in Handler, TakeUnit(c) \/ HandlerNotices(c) \/ ReadError(c)
      PROVE  FramedInv'
  <2> SUFFICES ASSUME NEW d \in Handler PROVE Framed(d)'
    BY DEF FramedInv
  <2>1. UNCHANGED <<fresh, worker, want, wire, replied>>
    BY <1>2 DEF TakeUnit, HandlerNotices, ReadError, netVars, streamVars, clientVars, workerVars,
                runVars
  <2>2. d # c => UNCHANGED <<handler[d], holding[d], stage[d], link[d]>>
    BY <1>0, <1>2 DEF TakeUnit, HandlerNotices, ReadError, PopUnit, Reject, SendFails,
                AbandonUnit, Move, netVars, streamVars
  <2>3. \/ link'[c] # "up"
        \/ handler[c] # "serving" /\ link'[c] = link[c]
    BY <1>0, <1>2 DEF TakeUnit, HandlerNotices, ReadError, PopUnit, Move, netVars
  <2>4. link'[d] # "up" \/ link[d] = "up"
    BY <1>0, <1>2, <2>2 DEF TakeUnit, HandlerNotices, ReadError, netVars
  <2> QED BY <2>1, <2>2, <2>3, <2>4, FramedKept DEF FramedInv
<1>3. ASSUME NEW c \in Handler,
             Connect(c) \/ Refused(c) \/ Handshake(c) \/ HandshakeFails(c) \/ StreamFails(c)
      PROVE  FramedInv'
  <2> SUFFICES ASSUME NEW d \in Handler PROVE Framed(d)'
    BY DEF FramedInv
  <2>1. UNCHANGED <<fresh, want, wire, replied, holding, stage, link>>
    BY <1>3 DEF Connect, Refused, Handshake, HandshakeFails, StreamFails, Accept, StartUnits,
                vars, handlerVars, netVars, streamVars, runVars
  <2>2. handler[d] = "serving" => handler'[d] = "serving"
    BY <1>0, <1>3 DEF Connect, Refused, Handshake, HandshakeFails, StreamFails, Accept,
                StartUnits, Move, vars, handlerVars
  <2>3. worker'[d] = "body" => worker[d] = "body"
    BY <1>0, <1>3 DEF Connect, Refused, Handshake, HandshakeFails, StreamFails
  <2>4. link'[d] # "up" \/ link[d] = "up"
    BY <2>1
  <2> QED BY <2>1, <2>2, <2>3, <2>4, FramedKept DEF FramedInv
<1>4. CASE EndRun \/ Rerun \/ UNCHANGED syncVars
  <2> SUFFICES ASSUME NEW d \in Handler PROVE Framed(d)'
    BY DEF FramedInv
  <2>1. UNCHANGED <<worker, want, wire, replied, handler, holding, stage, link>>
    BY <1>4 DEF EndRun, Rerun, syncVars, vars, handlerVars, netVars, streamVars, clientVars,
                workerVars
  <2>2. wire[d] # <<>> \/ handler[d] = "serving" => fresh'[d[1]] = fresh[d[1]]
    <3>1. CASE fresh' = fresh
      BY <3>1
    <3>2. CASE fresh' # fresh
      <4>1. fresh' = [fresh EXCEPT ![run + 1] = IsEmptyDest]
        BY <1>4, <3>2 DEF EndRun, Rerun, syncVars, clientVars, runVars
      <4>2. d[1] \in RunIds /\ d[1] \in Nat /\ run \in Nat
        BY <1>0, ConnsOfRun
      <4>3. d[1] > run => handler[d] = "absent" /\ wire[d] = <<>>
        BY DEF Roles, Role
      <4>4. d[1] = run + 1 => d[1] > run
        BY <4>2
      <4> QED BY <1>0, <4>1, <4>2, <4>3, <4>4
    <3> QED BY <3>1, <3>2
  <2> QED BY <2>1, <2>2, FramedKept DEF FramedInv
<1> QED
  BY <1>1, <1>2, <1>3, <1>4, SendFramed, ReadFramed, DropFramed, ReadMaskFramed
  DEF SyncNext, ServerSide, ClientSide

------------------------------------------------------------------------------
(* What was offered arrives. *)

Awaiting(c, f) == f \in want[c] /\ worker[c] \in {"body", "failed"}

\* What was recorded as seen are the files of the units received; each of them is
\* there, or its stream waits for it, or failed.
SeenInv ==
    /\ seen = UNION {FilesOf[u] : u \in received}
    /\ \A f \in seen \ Lockable : local[f] = "current" \/ \E c \in Conns(run) : Awaiting(c, f)

LEMMA InitSeen == SyncInit => SeenInv
  BY DEF SyncInit, SeenInv

\* A step that takes nothing from the receiver and lets no stream go.
LEMMA SeenKept ==
    ASSUME SeenInv, UNCHANGED <<seen, received, run>>,
           \A f \in seen \ Lockable :
               \/ local'[f] = "current"
               \/ /\ local[f] = "current" => local'[f] = "current"
                  /\ \A c \in Conns(run) : Awaiting(c, f) => Awaiting(c, f)'
    PROVE  SeenInv'
<1>1. \A f \in seen \ Lockable :
          local'[f] = "current" \/ \E c \in Conns(run) : Awaiting(c, f)'
  BY DEF SeenInv
<1> QED BY <1>1 DEF SeenInv, Conns

\* The worker's end of a unit.
LEMMA BodiesSeen ==
    ASSUME Typed, Roles, FramedInv, SeenInv, NEW c \in Handler, ReadBodies(c)
    PROVE  SeenInv'
<1> DEFINE files == Head(wire[c]).files
<1>1. /\ local' = [f \in Files |-> IF f \in files THEN "current" ELSE local[f]]
      /\ worker' = [worker EXCEPT ![c] = "reading"] /\ worker[c] = "body"
      /\ UNCHANGED <<want, seen, received, run>>
  BY DEF ReadBodies, streamVars, runVars
<1>2. want[c] \ Lockable \subseteq files
  <2>1. wire[c] # <<>> /\ wire[c][1] = Head(wire[c])
    BY Receiving DEF ReadBodies, Typed, TypeInv, NetTypes
  <2> QED BY <1>1, <2>1 DEF FramedInv, Framed, Awaited, Answers
<1> HIDE DEF files
<1>3. worker = [d \in Handler |-> worker[d]] /\ seen \subseteq Files /\ run \in RunIds
  BY UnitFiles DEF Typed, TypeInv, ClientTypes, WorkerTypes, RunTypes
<1>4. ASSUME NEW f \in seen \ Lockable, local'[f] # "current"
      PROVE  /\ local[f] = "current" => local'[f] = "current"
             /\ \A d \in Conns(run) : Awaiting(d, f) => Awaiting(d, f)'
  <2>1. f \notin files /\ local'[f] = local[f] /\ f \notin want[c]
    BY <1>1, <1>2, <1>3, <1>4
  <2>2. \A d \in Conns(run) : d # c => worker'[d] = worker[d]
    BY <1>1, <1>3, ConnsOfRun
  <2> QED BY <1>1, <2>1, <2>2 DEF Awaiting
<1> QED BY <1>1, <1>4, SeenKept

LEMMA OfferSeen ==
    ASSUME Typed, Roles, SeenInv, NEW c \in Handler, ReadOffer(c)
    PROVE  SeenInv'
<1> DEFINE m == Head(wire[c])
           wanted == IF fresh[c[1]] THEN m.files ELSE {f \in m.files : local[f] # "current"}
<1>0. worker = [d \in Handler |-> worker[d]] /\ want = [d \in Handler |-> want[d]]
      /\ run \in RunIds
  BY DEF Typed, TypeInv, ClientTypes, WorkerTypes, StreamTypes, RunTypes
<1>1. /\ worker[c] = "reading"
      /\ seen' = seen \union m.files
      /\ received' = received \union {m.unit}
      /\ want' = [want EXCEPT ![c] = wanted]
      /\ worker' = [worker EXCEPT ![c] = IF wanted = {} THEN "reading" ELSE "body"]
      /\ UNCHANGED <<local, run>>
  BY DEF ReadOffer, runVars, diskVars
<1>2. m.unit \in Units /\ m.files = FilesOf[m.unit]
  BY Receiving DEF ReadOffer, Typed, TypeInv, NetTypes, Told
<1>3. c \in Conns(run)
  BY <1>0, <1>1, ConnsOfRun DEF Roles, Role, Working
<1>4. seen' = UNION {FilesOf[u] : u \in received'}
  BY <1>1, <1>2 DEF SeenInv
<1>5. ASSUME NEW f \in seen' \ Lockable, local[f] # "current"
      PROVE  \E d \in Conns(run) : Awaiting(d, f)'
  <2>1. CASE f \in m.files
    <3>1. f \in wanted
      BY <1>5, <2>1
    <3> HIDE DEF wanted
    <3>2. Awaiting(c, f)'
      BY <1>0, <1>1, <3>1 DEF Awaiting
    <3> QED BY <1>3, <3>2
  <2>2. CASE f \notin m.files
    <3>1. PICK d \in Conns(run) : Awaiting(d, f)
      BY <1>1, <1>5, <2>2 DEF SeenInv
    <3>2. d # c /\ d \in Handler
      BY <1>0, <1>1, <3>1, ConnsOfRun DEF Awaiting
    <3> HIDE DEF wanted, m
    <3>3. Awaiting(d, f)'
      BY <1>0, <1>1, <3>1, <3>2 DEF Awaiting
    <3> QED BY <3>3
  <2> QED BY <2>1, <2>2
<1> HIDE DEF wanted, m
<1> QED BY <1>1, <1>4, <1>5 DEF SeenInv, Conns

\* What a failing stream wrote are files that it asked for.
LEMMA FailWrites ==
    ASSUME NEW c \in Handler, StreamFails(c), local = [f \in Files |-> local[f]],
           local' # local
    PROVE  /\ worker[c] = "body"
           /\ \E whole \in SUBSET want[c] : \E cut \in SUBSET want[c] :
                  local' = [f \in Files |-> IF f \in cut THEN "partial"
                                            ELSE IF f \in whole THEN "current"
                                            ELSE local[f]]
<1> DEFINE waited == IF worker[c] = "body" THEN want[c] ELSE {}
<1>1. PICK whole \in SUBSET waited : \E cut \in AtMostOne(waited) :
          local' = [f \in Files |-> IF f \in cut THEN "partial"
                                    ELSE IF f \in whole THEN "current" ELSE local[f]]
  BY DEF StreamFails
<1>2. PICK cut \in AtMostOne(waited) :
          local' = [f \in Files |-> IF f \in cut THEN "partial"
                                    ELSE IF f \in whole THEN "current" ELSE local[f]]
  BY <1>1
<1>3. cut \subseteq waited
  BY DEF AtMostOne
<1>4. worker[c] = "body"
  <2> SUFFICES ASSUME worker[c] # "body" PROVE FALSE
    OBVIOUS
  <2>1. whole = {} /\ cut = {}
    BY <1>3
  <2>2. local' = [f \in Files |-> local[f]]
    BY <1>2, <2>1
  <2> QED BY <2>2
<1>5. whole \in SUBSET want[c] /\ cut \in SUBSET want[c]
  BY <1>3, <1>4
<1> QED BY <1>2, <1>4, <1>5

LEMMA NextSeen ==
    Typed /\ Roles /\ FramedInv /\ SeenInv /\ [SyncNext]_syncVars => SeenInv'
<1> SUFFICES ASSUME Typed, Roles, FramedInv, SeenInv, [SyncNext]_syncVars PROVE SeenInv'
  OBVIOUS
<1>0. /\ worker = [d \in Handler |-> worker[d]] /\ run \in RunIds
      /\ seen \subseteq Files /\ local = [f \in Files |-> local[f]]
  BY UnitFiles DEF Typed, TypeInv, ClientTypes, WorkerTypes, RunTypes, DiskTypes
<1>1. CASE ServerInternal \/ UNCHANGED syncVars
           \/ \E c \in Handler : ServerSide(c) \/ ReadError(c) \/ Drop(c)
  <2>1. UNCHANGED clientVars
    BY <1>1, ServerApart DEF syncVars
  <2>2. want' = want
    BY <1>1 DEF ServerInternal, syncVars, ServerSide, TakeUnit, OfferDir, OfferFiles, ReadMask,
                SendBodies, TellNounit, HandlerNotices, ReadError, Drop, streamVars
  <2> QED BY <2>1, <2>2, SeenKept DEF clientVars, workerVars, runVars, diskVars, Awaiting
<1>2. ASSUME NEW c \in Handler,
             Connect(c) \/ Refused(c) \/ Handshake(c) \/ HandshakeFails(c) \/ ReadNounit(c)
      PROVE  SeenInv'
  <2>1. /\ UNCHANGED <<seen, received, run, local, want>>
        /\ worker[c] \notin {"body", "failed"}
        /\ \A d \in Handler \ {c} : worker'[d] = worker[d]
    BY <1>0, <1>2
    DEF Connect, ToConnect, Refused, Handshake, HandshakeFails, ReadNounit, runVars, diskVars,
        streamVars
  <2> QED BY <1>0, <2>1, SeenKept, ConnsOfRun DEF Awaiting
<1>3. ASSUME NEW c \in Handler, StreamFails(c) PROVE SeenInv'
  <2>1. /\ UNCHANGED <<seen, received, run, want>>
        /\ worker' = [worker EXCEPT ![c] = IF gotUnit[c] THEN "failed" ELSE "ok"]
        /\ worker[c] = "body" => gotUnit[c]
        /\ worker[c] \in {"reading", "body"}
    BY <1>3 DEF StreamFails, runVars, streamVars, Roles, Role
  <2>2. \A d \in Handler : \A f : Awaiting(d, f) => Awaiting(d, f)'
    BY <1>0, <2>1 DEF Awaiting
  <2>3. CASE UNCHANGED local
    BY <1>0, <2>1, <2>2, <2>3, SeenKept, ConnsOfRun
  <2>4. CASE local' # local
    <3>1. /\ worker[c] = "body"
          /\ \E whole \in SUBSET want[c] : \E cut \in SUBSET want[c] :
                 local' = [f \in Files |-> IF f \in cut THEN "partial"
                                           ELSE IF f \in whole THEN "current"
                                           ELSE local[f]]
      BY <1>0, <1>3, <2>4, FailWrites
    <3> PICK whole \in SUBSET want[c], cut \in SUBSET want[c] :
            local' = [f \in Files |-> IF f \in cut THEN "partial"
                                      ELSE IF f \in whole THEN "current"
                                      ELSE local[f]]
      BY <3>1
    <3>2. worker[c] = "body" /\ worker'[c] = "failed" /\ c \in Conns(run)
      BY <1>0, <2>1, <3>1, ConnsOfRun DEF Roles, Role, Working
    <3>3. \A f \in cut : Awaiting(c, f)'
      BY <2>1, <3>2 DEF Awaiting
    <3>4. \A f \in seen \ Lockable :
              local'[f] = "current" \/ \E d \in Conns(run) : Awaiting(d, f)'
      <4> SUFFICES ASSUME NEW f \in seen \ Lockable, f \notin cut, f \notin whole
                   PROVE  local'[f] = "current" \/ \E d \in Conns(run) : Awaiting(d, f)'
        BY <1>0, <3>2, <3>3
      <4>1. local'[f] = local[f]
        BY <1>0
      <4> QED BY <1>0, <2>2, <4>1, ConnsOfRun DEF SeenInv
    <3> QED BY <2>1, <3>4 DEF SeenInv, Conns
  <2> QED BY <2>3, <2>4
<1>4. CASE EndRun
  <2>1. /\ UNCHANGED <<seen, received, run, want, worker>>
        /\ \A f \in Files : local'[f] = local[f] \/ f \in Unseen
    BY <1>4 DEF EndRun, streamVars, workerVars
  <2>2. \A f \in seen : f \notin Unseen
    BY DEF Unseen
  <2> QED BY <1>0, <2>1, <2>2, SeenKept DEF Awaiting
<1>5. CASE Rerun
  BY <1>5 DEF Rerun, SeenInv
<1> QED BY <1>1, <1>2, <1>3, <1>4, <1>5, BodiesSeen, OfferSeen DEF SyncNext, ClientSide

SyncInv == Typed /\ Roles /\ FramedInv /\ SeenInv

LEMMA SyncInvariant == SyncSpec => []SyncInv
<1>1. SyncInit => SyncInv
  BY ServesInit, InitTypes, InitRoles, InitFramed, InitSeen DEF SyncInv, Typed
<1>2. SyncInv /\ [SyncNext]_syncVars => SyncInv'
  BY ServesStep, NextTypes, NextRoles, NextFramed, NextSeen DEF SyncInv, Typed, Serves
<1> QED BY <1>1, <1>2, PTL DEF SyncSpec

LEMMA CleanHasAll == SyncInv => CleanRunIsComplete
  BY DEF SyncInv, Roles, CleanEnds, SeenInv, Awaiting, CleanRunIsComplete

\* A run reported as done has the current copy of all that was offered to any of
\* its streams, whatever drops and whenever: a stream that fails with a unit keeps
\* what it asked for, and fails the run.
THEOREM CleanRuns == SyncSpec => []CleanRunIsComplete
<1> QED BY SyncInvariant, CleanHasAll, PTL

------------------------------------------------------------------------------
(* A unit goes to one run. *)

\* The units of the offers under way.
Offered(c) ==
    {wire[c][i].unit : i \in {j \in 1..Len(wire[c]) : wire[c][j].type = "offer"}}

\* Units are popped in order, so the first one went to the first run that had any;
\* it reaches none after it.
SpentInv ==
    /\ Popped = 0 => \A c \in Handler : ~gotUnit[c] /\ Offered(c) = {}
    /\ (\E c \in Handler : c[1] < run /\ gotUnit[c]) =>
           /\ 1 \notin received
           /\ \A c \in Conns(run) :
                  1 \notin Offered(c) /\ (handler[c] = "serving" => holding[c] # 1)

LEMMA PoppedGrows ==
    ASSUME Serves, [Next]_vars
    PROVE  /\ Popped \in Nat /\ (Popped' = 0 => Popped = 0)
           /\ \A h \in Handler : handler[h] = "serving" => Popped # 0
           /\ \A h \in Handler : handler'[h] = "serving" =>
                  \/ handler[h] = "serving" /\ holding'[h] = holding[h]
                  \/ holding'[h] = Popped + 1
<1>0. /\ produced \in Nat /\ queue \in Seq(Units) /\ Len(queue) \in Nat /\ Len(queue) <= produced
      /\ handler = [h \in Handler |-> handler[h]] /\ holding = [h \in Handler |-> holding[h]]
  BY ConstantsAssumption, PushPop DEF Serves, TInv, TypeOK, ProducerInv
<1>1. Popped \in Nat
  BY <1>0 DEF Popped
<1>2. ASSUME NEW h \in Handler, handler[h] = "serving" PROVE Popped # 0
  <2>1. holding[h] \in 1..Popped
    BY <1>2 DEF Serves, UnitsConserved, Held, Serving
  <2> QED BY <2>1
<1>3. CASE \E h \in Handler : PopUnit(h)
  <2>1. PICK h \in Handler : PopUnit(h)
    BY <1>3
  <2>2. /\ queue # <<>> /\ queue' = Tail(queue) /\ produced' = produced
        /\ handler' = [handler EXCEPT ![h] = "serving"]
        /\ holding' = [holding EXCEPT ![h] = Head(queue)]
    BY <2>1 DEF PopUnit, Move, producerVars
  <2>3. Len(queue') = Len(queue) - 1 /\ Len(queue) >= 1 /\ Head(queue) = queue[1]
    BY <1>0, <2>2, PushPop
  <2>4. Popped' = Popped + 1
    BY <1>0, <2>2, <2>3 DEF Popped
  <2>5. Head(queue) = Popped + 1
    BY <1>0, <1>1, <2>3 DEF Serves, UnitsConserved, QueueInOrder
  <2> QED BY <1>0, <1>1, <1>2, <2>2, <2>4, <2>5
<1>4. CASE ~\E h \in Handler : PopUnit(h)
  <2>1. Popped' = Popped
    <3>1. CASE Push
      <4>1. produced + 1 \in Units
        BY <3>1, ConstantsAssumption DEF Push, Serves, TInv, TypeOK, ProducerInv, Units
      <4>2. Len(queue') = Len(queue) + 1 /\ produced' = produced + 1
        BY <1>0, <3>1, <4>1, PushPop DEF Push
      <4> QED BY <1>0, <4>2 DEF Popped
    <3>2. CASE ~Push
      <4>1. UNCHANGED <<queue, produced>>
        BY <1>4, <3>2
        DEF Next, ProducerStep, SeeSpace, StoreDone, HandlerStep, StartUnits, Reject, PopNone,
            SendNounit, PollAgain, SendFails, FinishUnit, AbandonUnit, AcceptLoop, Accept,
            NoConnection, AcceptError, ReapAndCheck, JoinThreads, vars, producerVars
      <4> QED BY <4>1 DEF Popped
    <3> QED BY <3>1, <3>2
  <2>2. \A h \in Handler : handler'[h] = "serving" =>
            handler[h] = "serving" /\ holding'[h] = holding[h]
    BY <1>0, <1>4
    DEF Next, ProducerStep, SeeSpace, Push, StoreDone, HandlerStep, StartUnits, Reject, PopNone,
        SendNounit, PollAgain, SendFails, FinishUnit, AbandonUnit, AcceptLoop, Accept,
        NoConnection, AcceptError, ReapAndCheck, JoinThreads, vars, handlerVars, Move
  <2> QED BY <1>1, <1>2, <2>1, <2>2
<1> QED BY <1>3, <1>4

LEMMA NoOffers == ASSUME NEW c, wire[c] = <<>> PROVE Offered(c) = {}
<1>1. 1..Len(wire[c]) = {}
  BY EmptySeq
<1> QED BY <1>1 DEF Offered

\* What is offered is what the handler serves.
LEMMA OffersFrom ==
    ASSUME Typed, [SyncNext]_syncVars, NEW c \in Handler
    PROVE  \A u \in Offered(c)' : u \in Offered(c) \/ (handler[c] = "serving" /\ u = holding[c])
<1>0. wire \in [Handler -> Seq(Told)] /\ wire[c] \in Seq(Told)
  BY DEF Typed, TypeInv, NetTypes
<1>1. ASSUME wire'[c] = wire[c]
      PROVE  \A u \in Offered(c)' : u \in Offered(c)
  BY <1>1 DEF Offered
<1>2. ASSUME NEW m \in Told, wire'[c] = Append(wire[c], m)
      PROVE  \A u \in Offered(c)' : u \in Offered(c) \/ (m.type = "offer" /\ u = m.unit)
  <2> DEFINE n == Len(wire[c])
  <2>1. /\ n \in Nat /\ Len(wire'[c]) = n + 1 /\ wire'[c][n + 1] = m
        /\ \A i \in 1..n : wire'[c][i] = wire[c][i]
    BY <1>0, <1>2, PushPop
  <2> SUFFICES ASSUME NEW i \in 1..(n + 1), wire'[c][i].type = "offer"
               PROVE  \/ wire'[c][i].unit \in Offered(c)
                      \/ m.type = "offer" /\ wire'[c][i].unit = m.unit
    BY <2>1 DEF Offered
  <2>2. i \in 1..n \/ i = n + 1
    BY <2>1
  <2> QED BY <2>1, <2>2 DEF Offered
<1>3. ASSUME wire[c] # <<>>, wire'[c] = Tail(wire[c])
      PROVE  \A u \in Offered(c)' : u \in Offered(c)
  <2> DEFINE n == Len(wire[c]) - 1
  <2>1. /\ n \in Nat /\ Len(wire[c]) = n + 1 /\ Len(wire'[c]) = n
        /\ \A i \in 1..n : wire'[c][i] = wire[c][i + 1] /\ i + 1 \in 1..(n + 1)
    BY <1>0, <1>3, PushPop
  <2> QED BY <2>1 DEF Offered
<1>4. ASSUME NEW k \in 0..Len(wire[c]), wire'[c] = SubSeq(wire[c], 1, k)
      PROVE  \A u \in Offered(c)' : u \in Offered(c)
  <2>1. /\ Len(wire[c]) \in Nat /\ Len(wire'[c]) = k
        /\ \A i \in 1..k : wire'[c][i] = wire[c][i] /\ i \in 1..Len(wire[c])
    BY <1>0, <1>4, Truncated, PushPop
  <2> QED BY <2>1 DEF Offered
<1>5. CASE \E d \in Handler : OfferDir(d) \/ OfferFiles(d)
  <2>1. PICK d \in Handler : OfferDir(d) \/ OfferFiles(d)
    BY <1>5
  <2>2. /\ handler[d] = "serving" /\ Send(d, Offer(holding[d])) /\ holding[d] \in Units
    BY <2>1, Holds DEF OfferDir, OfferFiles, Typed, Serves
  <2>3. Offer(holding[d]) \in Told /\ Offer(holding[d]).unit = holding[d]
    BY <2>2, MessagesTold
  <2>4. wire'[c] = wire[c] \/ (c = d /\ wire'[c] = Append(wire[c], Offer(holding[c])))
    BY <1>0, <2>2, <2>3, Sending
  <2> QED BY <1>1, <1>2, <2>2, <2>3, <2>4
<1>6. CASE \E d \in Handler : SendBodies(d)
  <2>1. PICK d \in Handler : SendBodies(d)
    BY <1>6
  <2>2. /\ handler[d] = "serving" /\ holding[d] \in Units
    BY <2>1, Holds DEF SendBodies, Typed, Serves
  <2> DEFINE asked == IF fresh[d[1]] THEN FilesOf[holding[d]] ELSE want[d]
  <2>3. PICK locked \in SUBSET Lockable :
            IF asked = {} THEN UNCHANGED wire
            ELSE Send(d, Body(holding[d], asked \ locked))
    BY <2>1 DEF SendBodies
  <2>4. asked \ locked \in SUBSET SourceFiles
    BY <2>2, UnitFiles DEF Typed, TypeInv, StreamTypes
  <2> DEFINE m == Body(holding[d], asked \ locked)
  <2>5. m \in Told /\ m.type = "body"
    BY <2>2, <2>4, MessagesTold
  <2>6. UNCHANGED wire \/ Send(d, m)
    BY <2>3
  <2> HIDE DEF m, asked
  <2>7. wire'[c] = wire[c] \/ wire'[c] = Append(wire[c], m)
    BY <1>0, <2>5, <2>6, Sending
  <2> QED BY <1>1, <1>2, <2>5, <2>7
<1>7. CASE \E d \in Handler : TellNounit(d)
  <2>1. PICK d \in Handler : Send(d, Nounit)
    BY <1>7 DEF TellNounit
  <2>2. wire'[c] = wire[c] \/ wire'[c] = Append(wire[c], Nounit)
    BY <1>0, <2>1, MessagesTold, Sending
  <2> QED BY <1>1, <1>2, <2>2, MessagesTold
<1>8. CASE \E d \in Handler : ReadOffer(d) \/ ReadBodies(d) \/ ReadNounit(d)
  <2>1. \E d \in Handler : \E type : Receives(d, type)
    BY <1>8 DEF ReadOffer, ReadBodies, ReadNounit
  <2>2. wire'[c] = wire[c] \/ (wire[c] # <<>> /\ wire'[c] = Tail(wire[c]))
    BY <1>0, <2>1, Receiving
  <2> QED BY <1>1, <1>3, <2>2
<1>9. CASE \E d \in Handler : Drop(d)
  <2>0. PICK d \in Handler : Drop(d)
    BY <1>9
  <2>1. PICK k \in 0..Len(wire[d]) : wire' = [wire EXCEPT ![d] = SubSeq(wire[d], 1, k)]
    BY <2>0 DEF Drop
  <2>2. wire'[c] = wire[c] \/ (k \in 0..Len(wire[c]) /\ wire'[c] = SubSeq(wire[c], 1, k))
    BY <1>0, <2>1
  <2> QED BY <1>1, <1>4, <2>2
<1>10. CASE \/ ServerInternal \/ EndRun \/ Rerun \/ UNCHANGED syncVars
            \/ \E d \in Handler :
                   \/ TakeUnit(d) \/ ReadMask(d) \/ HandlerNotices(d) \/ ReadError(d)
                   \/ Connect(d) \/ Refused(d) \/ Handshake(d) \/ HandshakeFails(d)
                   \/ StreamFails(d)
  <2>1. wire' = wire
    BY <1>10
    DEF ServerInternal, EndRun, Rerun, syncVars, TakeUnit, ReadMask, HandlerNotices, ReadError,
        Connect, Refused, Handshake, HandshakeFails, StreamFails, netVars
  <2> QED BY <1>1, <2>1
<1> QED BY <1>5, <1>6, <1>7, <1>8, <1>9, <1>10 DEF SyncNext, ServerSide, ClientSide

\* What a worker records comes from an offer; a run starts with nothing recorded.
LEMMA ReceivedFrom ==
    ASSUME Typed, Roles, [SyncNext]_syncVars
    PROVE  \/ /\ UNCHANGED <<received, gotUnit, seen, run>>
           \/ /\ Rerun
           \/ \E c \in Conns(run) :
                  /\ outcome = "fetching" /\ outcome' = outcome /\ run' = run
                  /\ \E u \in Offered(c) : received' = received \union {u}
                  /\ gotUnit' = [gotUnit EXCEPT ![c] = TRUE]
                  /\ UNCHANGED <<local, deleted>>
<1>1. CASE ServerInternal \/ \E c \in Handler : ServerSide(c) \/ ReadError(c) \/ Drop(c)
  BY <1>1, ServerApart DEF clientVars, workerVars, runVars
<1>2. CASE EndRun \/ UNCHANGED syncVars
  BY <1>2 DEF EndRun, syncVars, clientVars, workerVars, runVars
<1>3. ASSUME NEW c \in Handler,
             \/ Connect(c) \/ Refused(c) \/ Handshake(c) \/ HandshakeFails(c)
             \/ ReadBodies(c) \/ ReadNounit(c) \/ StreamFails(c)
      PROVE  UNCHANGED <<received, gotUnit, seen, run>>
  BY <1>3 DEF Connect, Refused, Handshake, HandshakeFails, ReadBodies, ReadNounit, StreamFails,
              runVars
<1>4. ASSUME NEW c \in Handler, ReadOffer(c)
      PROVE  /\ c \in Conns(run)
             /\ outcome = "fetching" /\ outcome' = outcome /\ run' = run
             /\ \E u \in Offered(c) : received' = received \union {u}
             /\ gotUnit' = [gotUnit EXCEPT ![c] = TRUE]
             /\ UNCHANGED <<local, deleted>>
  <2>1. /\ wire[c] # <<>> /\ wire[c][1] = Head(wire[c]) /\ Head(wire[c]).type = "offer"
    BY <1>4, Receiving DEF ReadOffer, Typed, TypeInv, NetTypes
  <2>2. 1 \in 1..Len(wire[c])
    <3>1. wire[c] \in Seq(Told)
      BY DEF Typed, TypeInv, NetTypes
    <3> QED BY <2>1, <3>1, PushPop
  <2>3. Head(wire[c]).unit \in Offered(c)
    BY <2>1, <2>2 DEF Offered
  <2>4. c \in Conns(run) /\ outcome = "fetching"
    BY <1>4, ConnsOfRun
    DEF ReadOffer, Roles, Role, Working, Typed, TypeInv, ClientTypes, RunTypes
  <2> QED BY <1>4, <2>3, <2>4 DEF ReadOffer, runVars, diskVars
<1> QED BY <1>1, <1>2, <1>3, <1>4 DEF SyncNext, ClientSide

LEMMA InitSpent == SyncInit => SpentInv
<1> SUFFICES ASSUME SyncInit PROVE SpentInv
  OBVIOUS
<1>1. \A c \in Handler : wire[c] = <<>> /\ gotUnit[c] = FALSE
  BY DEF SyncInit
<1> QED BY <1>1, NoOffers DEF SpentInv

LEMMA NextSpent == Typed /\ Roles /\ SpentInv /\ [SyncNext]_syncVars => SpentInv'
<1> SUFFICES ASSUME Typed, Roles, SpentInv, [SyncNext]_syncVars PROVE SpentInv'
  OBVIOUS
<1>0. /\ gotUnit = [c \in Handler |-> gotUnit[c]] /\ run \in RunIds /\ run \in Nat
      /\ \A c \in Handler : c[1] \in Nat
  BY ConnsOfRun DEF Typed, TypeInv, ClientTypes, WorkerTypes, RunTypes
<1>1. /\ Popped \in Nat /\ (Popped' = 0 => Popped = 0)
      /\ \A h \in Handler : handler[h] = "serving" => Popped # 0
      /\ \A h \in Handler : handler'[h] = "serving" =>
             \/ handler[h] = "serving" /\ holding'[h] = holding[h]
             \/ holding'[h] = Popped + 1
  BY PoppedGrows, StepServes DEF Typed
<1>2. \A c \in Handler : gotUnit'[c] => gotUnit[c] \/ (c \in Conns(run) /\ Popped # 0 /\ run' = run)
  <2>1. CASE Rerun
    BY <2>1 DEF Rerun
  <2>2. CASE UNCHANGED gotUnit
    BY <2>2
  <2>3. ASSUME NEW d \in Conns(run), Offered(d) # {}, gotUnit' = [gotUnit EXCEPT ![d] = TRUE],
               run' = run
        PROVE  \A c \in Handler : gotUnit'[c] =>
                   gotUnit[c] \/ (c \in Conns(run) /\ Popped # 0 /\ run' = run)
    <3>1. d \in Handler
      BY <1>0, ConnsOfRun
    <3>2. Popped # 0
      BY <2>3, <3>1 DEF SpentInv
    <3> QED BY <1>0, <2>3, <3>2
  <2> QED BY <2>1, <2>2, <2>3, ReceivedFrom
<1>3. Popped' = 0 => \A c \in Handler : ~gotUnit'[c] /\ Offered(c)' = {}
  BY <1>1, <1>2, OffersFrom DEF SpentInv
<1>4. ASSUME NEW c \in Handler, c[1] < run', gotUnit'[c]
      PROVE  /\ 1 \notin received'
             /\ \A d \in Conns(run') :
                    1 \notin Offered(d)' /\ (handler'[d] = "serving" => holding'[d] # 1)
  <2>1. CASE Rerun
    <3>1. /\ received' = {} /\ run' = run + 1 /\ UNCHANGED <<wire, handler>> /\ run' \in RunIds
      BY <2>1, NextTypes
      DEF Rerun, netVars, vars, handlerVars, Typed, Serves, TypeInv, ClientTypes, RunTypes
    <3>2. ASSUME NEW d \in Conns(run')
          PROVE  1 \notin Offered(d)' /\ handler'[d] # "serving"
      <4>1. d \in Handler /\ d[1] = run + 1
        BY <3>1, ConnsOfRun
      <4>2. d[1] > run
        BY <1>0, <4>1
      <4>3. handler[d] = "absent" /\ wire[d] = <<>>
        BY <4>1, <4>2 DEF Roles, Role
      <4> QED BY <3>1, <4>1, <4>3, NoOffers, OffersFrom
    <3> QED BY <3>1, <3>2
  <2>2. CASE ~Rerun
    <3>1. run' = run
      BY <2>2, ReceivedFrom
    <3>2. gotUnit[c] /\ c[1] < run
      <4>1. c[1] < run /\ c[1] \in Nat
        BY <1>0, <1>4, <3>1, Zenon
      <4>2. c[1] # run
        <5> SUFFICES \A i, j \in Nat : i < j => i # j
          BY <1>0, <4>1
        <5> QED OBVIOUS
      <4>3. c \notin Conns(run)
        BY <1>0, <4>2, ConnsOfRun
      <4> QED BY <1>2, <1>4, <4>1, <4>3
    <3>3. /\ 1 \notin received /\ Popped # 0
          /\ \A d \in Conns(run) :
                 1 \notin Offered(d) /\ (handler[d] = "serving" => holding[d] # 1)
      BY <3>2 DEF SpentInv
    <3>4. 1 \notin received'
      BY <2>2, <3>3, ReceivedFrom
    <3>5. \A d \in Conns(run) : d \in Handler
      BY <1>0, ConnsOfRun
    <3>6. \A d \in Conns(run) : 1 \notin Offered(d)'
      BY <3>3, <3>5, OffersFrom
    <3>7. Popped + 1 # 1
      BY <1>1, <3>3
    <3>8. \A d \in Conns(run) : handler'[d] = "serving" => holding'[d] # 1
      BY <1>1, <3>3, <3>5, <3>7
    <3> QED BY <3>1, <3>4, <3>6, <3>8 DEF Conns
  <2> QED BY <2>1, <2>2
<1> QED BY <1>3, <1>4 DEF SpentInv

------------------------------------------------------------------------------
(* What the mirror deletes. *)

\* Nothing is deleted without a unit; as long as no earlier run had one, what is
\* deleted is what this run did not see; a run that is done leaves no extra file.
PruneInv ==
    /\ received # {} => \E c \in Conns(run) : gotUnit[c]
    /\ (\A c \in Handler : ~gotUnit[c]) => deleted = {}
    /\ (\A c \in Handler : gotUnit[c] => c[1] >= run) =>
           /\ outcome = "fetching" => deleted = {}
           /\ deleted \intersect seen = {}
    /\ outcome = "clean" /\ received # {} => \A f \in Extra : local[f] = "absent"

LEMMA InitPrune == SyncInit => PruneInv
  BY DEF SyncInit, PruneInv

LEMMA NextPrune == Typed /\ Roles /\ PruneInv /\ [SyncNext]_syncVars => PruneInv'
<1> SUFFICES ASSUME Typed, Roles, PruneInv, [SyncNext]_syncVars PROVE PruneInv'
  OBVIOUS
<1>0. /\ gotUnit = [c \in Handler |-> gotUnit[c]] /\ run \in RunIds /\ run \in Nat
      /\ \A c \in Handler : c[1] \in Nat
  BY ConnsOfRun DEF Typed, TypeInv, ClientTypes, WorkerTypes, RunTypes
<1>1. CASE EndRun
  <2>1. /\ UNCHANGED <<received, gotUnit, seen, run>> /\ outcome = "fetching"
        /\ outcome' # "fetching"
        /\ deleted' = deleted \union (IF outcome' = "clean" THEN Unseen ELSE {})
        /\ outcome' = "clean" =>
               local' = [f \in Files |-> IF f \in Unseen THEN "absent" ELSE local[f]]
    BY <1>1 DEF EndRun, workerVars
  <2>2. Unseen \intersect seen = {}
    BY DEF Unseen
  <2>3. (\A c \in Handler : ~gotUnit[c]) => Unseen = {}
    BY <1>0, ConnsOfRun DEF Unseen
  <2>4. ASSUME outcome' = "clean", received # {}, NEW f \in Extra
        PROVE  local'[f] = "absent"
    <3>1. f \in Files /\ f \notin seen
      BY SyncAssumption DEF Files, Typed, TypeInv, ClientTypes, WorkerTypes
    <3>2. \E c \in Conns(run) : gotUnit[c]
      BY <2>4 DEF PruneInv
    <3>3. f \in Unseen \/ local[f] = "absent"
      BY <3>1, <3>2 DEF Unseen
    <3> QED BY <2>1, <2>4, <3>1, <3>3
  <2> QED BY <2>1, <2>2, <2>3, <2>4 DEF PruneInv, Conns
<1>2. CASE Rerun
  <2>1. /\ UNCHANGED <<gotUnit, deleted>> /\ received' = {} /\ seen' = {}
        /\ outcome' = "fetching" /\ run' = run + 1
    BY <1>2 DEF Rerun, diskVars
  <2>2. (\A c \in Handler : gotUnit[c] => c[1] >= run + 1) => \A c \in Handler : ~gotUnit[c]
    <3> SUFFICES ASSUME NEW c \in Handler, c[1] >= run + 1 PROVE ~gotUnit[c]
      OBVIOUS
    <3>1. c[1] > run
      BY <1>0
    <3> QED BY <3>1 DEF Roles, Role
  <2> QED BY <2>1, <2>2 DEF PruneInv
<1>3. CASE /\ ~EndRun /\ ~Rerun
           /\ UNCHANGED <<received, gotUnit, seen, run>>
  <2>1. UNCHANGED <<outcome, deleted>>
    <3>1. CASE ServerInternal \/ \E c \in Handler : ServerSide(c) \/ ReadError(c) \/ Drop(c)
      BY <3>1, ServerApart DEF clientVars, runVars, diskVars
    <3>2. CASE \/ UNCHANGED syncVars
               \/ \E c \in Handler : ClientSide(c)
      BY <3>2 DEF syncVars, clientVars, ClientSide, Connect, Refused, Handshake, HandshakeFails,
                  ReadOffer, ReadBodies, ReadNounit, StreamFails, runVars, diskVars
    <3> QED BY <1>3, <3>1, <3>2 DEF SyncNext
  <2>2. outcome = "clean" => UNCHANGED local
    <3>1. CASE ServerInternal \/ \E c \in Handler : ServerSide(c) \/ ReadError(c) \/ Drop(c)
      BY <3>1, ServerApart DEF clientVars, diskVars
    <3>2. CASE \/ UNCHANGED syncVars
               \/ \E c \in Handler : Connect(c) \/ Refused(c) \/ Handshake(c) \/ HandshakeFails(c)
                                     \/ ReadOffer(c) \/ ReadNounit(c)
      BY <3>2 DEF syncVars, clientVars, Connect, Refused, Handshake, HandshakeFails,
                  ReadOffer, ReadNounit, diskVars
    <3>3. CASE \E c \in Handler : ReadBodies(c) \/ StreamFails(c)
      BY <3>3 DEF ReadBodies, StreamFails, Roles, Role, Working
    <3> QED BY <1>3, <3>1, <3>2, <3>3 DEF SyncNext, ClientSide
  <2> QED BY <1>3, <2>1, <2>2 DEF PruneInv, Conns
<1>4. ASSUME NEW c \in Conns(run), outcome = "fetching", outcome' = outcome, run' = run,
             gotUnit' = [gotUnit EXCEPT ![c] = TRUE], UNCHANGED <<local, deleted>>
      PROVE  PruneInv'
  <2>1. c \in Handler /\ c[1] = run
    BY <1>0, <1>4, ConnsOfRun
  <2>2. gotUnit'[c]
    BY <1>0, <1>4, <2>1, Zenon
  <2>3. (\A d \in Handler : gotUnit'[d] => d[1] >= run) => deleted = {}
    <3>1. \A d \in Handler : gotUnit[d] => gotUnit'[d]
      BY <1>0, <1>4, <2>2, Zenon
    <3> QED BY <1>4, <3>1 DEF PruneInv
  <2> QED BY <1>4, <2>1, <2>2, <2>3 DEF PruneInv, Conns
<1> QED BY <1>1, <1>2, <1>3, <1>4, ReceivedFrom

LEMMA FullMirrors == SyncInv /\ SpentInv /\ PruneInv /\ CleanRunIsComplete => FullRunMirrors
<1> SUFFICES ASSUME SyncInv, SpentInv, PruneInv, CleanRunIsComplete,
                    outcome = "clean", received = Units, Units # {}
             PROVE  /\ deleted \subseteq Extra
                    /\ \A f \in Extra : local[f] = "absent"
                    /\ \A f \in SourceFiles \ Lockable : local[f] = "current"
  BY DEF FullRunMirrors
<1>1. 1 \in Units
  BY ConstantsAssumption DEF Units
<1>2. seen = SourceFiles
  BY DEF SyncInv, SeenInv, SourceFiles
<1>3. \A c \in Handler : gotUnit[c] => c[1] >= run
  <2>1. run \in Nat /\ \A c \in Handler : c[1] \in Nat
    BY ConnsOfRun DEF SyncInv, Typed, TypeInv, ClientTypes, RunTypes
  <2>2. \A c \in Handler : gotUnit[c] => ~(c[1] < run)
    BY <1>1 DEF SpentInv
  <2> QED BY <2>1, <2>2
<1>4. deleted \subseteq Extra
  <2>1. deleted \subseteq Files /\ deleted \intersect SourceFiles = {}
    BY <1>2, <1>3 DEF PruneInv, SyncInv, Typed, TypeInv, ClientTypes, DiskTypes
  <2> QED BY <2>1 DEF Files
<1> QED BY <1>2, <1>4 DEF PruneInv, CleanRunIsComplete

\* When every unit reached the run, however the streams shared them out, a clean
\* finish is the exact mirror, in whichever run that is: no earlier run can have
\* deleted a file, since it had no unit.
THEOREM FullRuns == SyncSpec => []FullRunMirrors
<1>1. SyncInit => SpentInv /\ PruneInv
  BY InitSpent, InitPrune
<1>2. SyncInv /\ SpentInv /\ PruneInv /\ [SyncNext]_syncVars => (SpentInv /\ PruneInv)'
  BY NextSpent, NextPrune DEF SyncInv
<1> QED BY <1>1, <1>2, SyncInvariant, CleanRuns, FullMirrors, PTL DEF SyncSpec
------------------------------------------------------------------------------
(* No unit taken for a stream is missed. *)

\* NOUNIT is under way.
Closing(c) == \E i \in 1..Len(wire[c]) : wire[c][i].type = "nounit"

\* NOUNIT is the last a handler says.
NounitLast(c) ==
    /\ Closing(c) => handler[c] = "nounit"
    /\ \A i \in 1..Len(wire[c]) : wire[c][i].type = "nounit" => i = Len(wire[c])

\* The unit a handler has in hand and has not announced.
Unsaid(c) == IF handler[c] = "serving" /\ stage[c] = "offer" THEN {holding[c]} ELSE {}

\* While a stream can still end well, the units taken for it have arrived, are
\* under way, or are about to be announced; once it ended well they have arrived.
Heard(c) ==
    /\ handler[c] \in {"absent", "handshake"} => takenBy[c] = {}
    /\ worker[c] \in {"connecting", "none"} => ~gotUnit[c]
    /\ worker[c] \in {"reading", "body"} /\ (link[c] = "up" \/ Closing(c)) =>
           takenBy[c] \subseteq received \union Offered(c) \union Unsaid(c)
    /\ worker[c] = "ok" /\ gotUnit[c] /\ c[1] = run =>
           handler[c] = "nounit" /\ takenBy[c] \subseteq received

Hears(c) == NounitLast(c) /\ Heard(c)

HeardInv == \A c \in Handler : Hears(c)

LEMMA InitHeard == SyncInit => HeardInv
<1> SUFFICES ASSUME SyncInit, NEW c \in Handler PROVE Hears(c)
  BY DEF HeardInv
<1>1. /\ wire[c] = <<>> /\ worker[c] = "off" /\ takenBy[c] = {}
  BY DEF SyncInit
<1>2. 1..Len(wire[c]) = {}
  BY <1>1, EmptySeq
<1> QED BY <1>1, <1>2, Zenon DEF Hears, NounitLast, Closing, Heard

\* A step that leaves what was said alone, and by which the handler neither takes
\* a unit nor, on a connection that is up, gives one up.
LEMMA HeardKept ==
    ASSUME NEW c \in Handler, Hears(c),
           wire'[c] = wire[c], takenBy'[c] = takenBy[c],
           gotUnit'[c] = gotUnit[c], worker'[c] = worker[c],
           link'[c] = "up" => link[c] = "up" /\ Unsaid(c) \subseteq Unsaid(c)',
           worker[c] \in {"reading", "body"} => received \subseteq received',
           worker[c] = "ok" /\ c[1] = run' => c[1] = run /\ received \subseteq received',
           handler'[c] \in {"absent", "handshake"} => handler[c] \in {"absent", "handshake"},
           handler[c] = "nounit" => handler'[c] = "nounit"
    PROVE  Hears(c)'
<1>1. (Closing(c)' <=> Closing(c)) /\ Offered(c)' = Offered(c)
  BY DEF Closing, Offered
<1>2. NounitLast(c)'
  BY <1>1 DEF Hears, NounitLast
<1>3. Closing(c) => Unsaid(c) = {}
  BY DEF Hears, NounitLast, Unsaid
<1>4. Heard(c)'
  BY <1>1, <1>3 DEF Hears, Heard
<1> QED BY <1>2, <1>4 DEF Hears

\* The handler says one thing more.
LEMMA SaidOne ==
    ASSUME NEW c \in Handler, wire[c] \in Seq(Told), NEW m \in Told, ~Closing(c),
           wire'[c] = Append(wire[c], m)
    PROVE  /\ Offered(c) \subseteq Offered(c)'
           /\ m.type = "offer" => m.unit \in Offered(c)'
           /\ Closing(c)' => m.type = "nounit"
           /\ \A i \in 1..Len(wire'[c]) :
                  wire'[c][i].type = "nounit" => i = Len(wire'[c])
<1> DEFINE n == Len(wire[c])
<1>1. /\ n \in Nat /\ Len(wire'[c]) = n + 1 /\ wire'[c][n + 1] = m
      /\ \A i \in 1..n : wire'[c][i] = wire[c][i]
  BY PushPop
<1>2. \A i \in 1..(n + 1) : i \in 1..n \/ i = n + 1
  BY <1>1
<1>3. \A i \in 1..n : i \in 1..(n + 1)
  BY <1>1
<1>4. n + 1 \in 1..(n + 1)
  BY <1>1
<1>5. \A i \in 1..n : wire[c][i].type # "nounit"
  BY DEF Closing
<1> HIDE DEF n
<1>6. Offered(c) \subseteq Offered(c)'
  BY <1>1, <1>3 DEF Offered, n
<1>7. m.type = "offer" => m.unit \in Offered(c)'
  BY <1>1, <1>4 DEF Offered
<1>8. \A i \in 1..(n + 1) : wire'[c][i].type = "nounit" => i = n + 1 /\ m.type = "nounit"
  BY <1>1, <1>2, <1>5
<1> QED BY <1>1, <1>6, <1>7, <1>8 DEF Closing

\* The worker reads one thing.
LEMMA HeardOne ==
    ASSUME NEW c \in Handler, wire[c] \in Seq(Told), wire[c] # <<>>, NounitLast(c),
           wire'[c] = Tail(wire[c]), handler'[c] = handler[c]
    PROVE  /\ NounitLast(c)' /\ (Closing(c)' => Closing(c))
           /\ \A u \in Offered(c) :
                  u \in Offered(c)' \/ (Head(wire[c]).type = "offer" /\ u = Head(wire[c]).unit)
           /\ Head(wire[c]).type = "nounit" => Closing(c) /\ Offered(c) = {}
<1> DEFINE n == Len(wire[c]) - 1
<1>1. /\ n \in Nat /\ Len(wire[c]) = n + 1 /\ Len(wire'[c]) = n
      /\ Head(wire[c]) = wire[c][1]
      /\ \A i \in 1..n : wire'[c][i] = wire[c][i + 1] /\ i + 1 \in 1..(n + 1)
  BY PushPop
<1>2. \A i \in 1..(n + 1) : i = 1 \/ \E j \in 1..n : i = j + 1
  <2> SUFFICES ASSUME NEW i \in 1..(n + 1), i # 1 PROVE \E j \in 1..n : i = j + 1
    OBVIOUS
  <2>1. i - 1 \in 1..n /\ i = (i - 1) + 1
    BY <1>1
  <2> QED BY <2>1
<1>3. 1 \in 1..(n + 1) /\ \A j \in 1..n : (j + 1 = n + 1 => j = n)
  BY <1>1
<1> HIDE DEF n
<1>4. Closing(c)' => Closing(c)
  BY <1>1 DEF Closing
<1>5. \A i \in 1..n : wire'[c][i].type = "nounit" => i = n
  BY <1>1, <1>3 DEF NounitLast
<1>6. NounitLast(c)'
  BY <1>1, <1>4, <1>5 DEF NounitLast
<1>7. ASSUME NEW u \in Offered(c)
      PROVE  u \in Offered(c)' \/ (Head(wire[c]).type = "offer" /\ u = Head(wire[c]).unit)
  <2>1. PICK i \in 1..(n + 1) : wire[c][i].type = "offer" /\ u = wire[c][i].unit
    BY <1>1 DEF Offered
  <2>2. CASE i = 1
    BY <1>1, <2>1, <2>2
  <2>3. CASE i # 1
    <3>1. PICK j \in 1..n : i = j + 1
      BY <1>2, <2>3
    <3> QED BY <1>1, <2>1, <3>1 DEF Offered
  <2> QED BY <2>2, <2>3
<1>8. ASSUME Head(wire[c]).type = "nounit" PROVE Closing(c) /\ Offered(c) = {}
  <2>1. Closing(c)
    BY <1>1, <1>3, <1>8 DEF Closing
  <2>2. 1 = n + 1
    BY <1>1, <1>3, <1>8 DEF NounitLast
  <2>3. n = 0 /\ 1..n = {}
    BY <1>1, <2>2
  <2>4. \A i \in 1..(n + 1) : wire[c][i].type # "offer"
    BY <1>1, <1>2, <1>8, <2>3
  <2> QED BY <1>1, <2>1, <2>4 DEF Offered
<1> QED BY <1>4, <1>6, <1>7, <1>8

LEMMA SendHeard ==
    ASSUME Typed, NEW c \in Handler, Hears(c),
           OfferDir(c) \/ OfferFiles(c) \/ SendBodies(c) \/ TellNounit(c)
    PROVE  Hears(c)'
<1>0. /\ wire \in [Handler -> Seq(Told)] /\ wire[c] \in Seq(Told)
      /\ handler = [d \in Handler |-> handler[d]] /\ holding = [d \in Handler |-> holding[d]]
      /\ UNCHANGED <<worker, gotUnit, received, run, link, takenBy>>
  BY DEF Typed, Serves, TInv, TypeOK, TypeInv, NetTypes, OfferDir, OfferFiles,
         SendBodies, TellNounit, streamVars, clientVars, workerVars, runVars
<1>1. /\ handler[c] \in {"serving", "empty"} /\ handler'[c] \in {"serving", "poll", "nounit"}
      /\ TellNounit(c) => handler'[c] = "nounit"
  BY <1>0 DEF OfferDir, OfferFiles, SendBodies, TellNounit, FinishUnit, SendNounit, Move, vars,
              handlerVars
<1>2. ~Closing(c)
  BY <1>1 DEF Hears, NounitLast
<1>3. CASE wire'[c] = wire[c] /\ link[c] # "up"
  <2>1. handler[c] # "nounit" /\ handler'[c] \notin {"absent", "handshake"}
    BY <1>1
  <2> QED BY <1>0, <1>3, <2>1, HeardKept
<1>4. ASSUME NEW m \in Told, wire'[c] = Append(wire[c], m), link[c] = "up",
             m.type = "nounit" => handler'[c] = "nounit",
             Unsaid(c) = {} \/ (m.type = "offer" /\ Unsaid(c) = {m.unit})
      PROVE  Hears(c)'
  <2>1. /\ Offered(c) \subseteq Offered(c)'
        /\ m.type = "offer" => m.unit \in Offered(c)'
        /\ Closing(c)' => m.type = "nounit"
        /\ \A i \in 1..Len(wire'[c]) : wire'[c][i].type = "nounit" => i = Len(wire'[c])
    BY <1>0, <1>2, <1>4, SaidOne
  <2>2. NounitLast(c)'
    BY <1>4, <2>1 DEF NounitLast
  <2>3. worker[c] = "ok" /\ gotUnit[c] /\ c[1] = run => FALSE
    BY <1>1 DEF Hears, Heard
  <2>4. worker[c] \in {"reading", "body"} =>
            takenBy[c] \subseteq received \union Offered(c)'
    BY <1>4, <2>1 DEF Hears, Heard
  <2>5. worker[c] \in {"connecting", "none"} => ~gotUnit[c]
    BY DEF Hears, Heard
  <2> QED BY <1>0, <1>1, <2>2, <2>3, <2>4, <2>5 DEF Hears, Heard
<1>5. link[c] = "up" \/ link[c] # "up"
  OBVIOUS
<1>6. CASE OfferDir(c) \/ OfferFiles(c)
  <2>1. /\ handler[c] = "serving" /\ stage[c] = "offer" /\ Send(c, Offer(holding[c]))
        /\ holding[c] \in Units
    BY <1>6, Holds DEF OfferDir, OfferFiles, Typed, Serves
  <2>2. /\ Offer(holding[c]) \in Told /\ Offer(holding[c]).type = "offer"
        /\ Offer(holding[c]).unit = holding[c]
    BY <2>1, MessagesTold
  <2>3. Unsaid(c) = {Offer(holding[c]).unit}
    BY <2>1, <2>2 DEF Unsaid
  <2>4. /\ link[c] # "up" => wire'[c] = wire[c]
        /\ link[c] = "up" => wire'[c] = Append(wire[c], Offer(holding[c]))
    BY <1>0, <2>1, <2>2, Sending
  <2> QED BY <1>3, <1>4, <2>2, <2>3, <2>4
<1>7. CASE SendBodies(c)
  <2>1. /\ handler[c] = "serving" /\ stage[c] = "body" /\ holding[c] \in Units
        /\ stage'[c] = stage[c] /\ handler'[c] = "poll"
    BY <1>0, <1>7, Holds DEF SendBodies, Typed, Serves, streamVars, FinishUnit, Move
  <2> DEFINE asked == IF fresh[c[1]] THEN FilesOf[holding[c]] ELSE want[c]
  <2>2. PICK locked \in SUBSET Lockable :
            IF asked = {} THEN UNCHANGED wire
            ELSE Send(c, Body(holding[c], asked \ locked))
    BY <1>7 DEF SendBodies
  <2>3. asked \ locked \in SUBSET SourceFiles
    BY <2>1, UnitFiles DEF Typed, TypeInv, StreamTypes
  <2> DEFINE m == Body(holding[c], asked \ locked)
  <2>4. m \in Told /\ m.type = "body"
    BY <2>1, <2>3, MessagesTold
  <2>5. UNCHANGED wire \/ Send(c, m)
    BY <2>2
  <2>6. Unsaid(c) = {}
    BY <2>1 DEF Unsaid
  <2> HIDE DEF m, asked
  <2>7. CASE UNCHANGED wire
    <3>1. handler[c] # "nounit" /\ handler'[c] \notin {"absent", "handshake"}
      BY <2>1
    <3> QED BY <1>0, <2>6, <2>7, <3>1, HeardKept
  <2>8. CASE Send(c, m)
    <3>1. /\ link[c] # "up" => wire'[c] = wire[c]
          /\ link[c] = "up" => wire'[c] = Append(wire[c], m)
      BY <1>0, <2>4, <2>8, Sending
    <3> QED BY <1>3, <1>4, <2>4, <2>6, <3>1
  <2> QED BY <2>5, <2>7, <2>8
<1>8. CASE TellNounit(c)
  <2>1. handler[c] = "empty" /\ Send(c, Nounit) /\ handler'[c] = "nounit"
    BY <1>0, <1>8 DEF TellNounit, SendNounit, Move
  <2>2. Unsaid(c) = {}
    BY <2>1 DEF Unsaid
  <2>3. /\ link[c] # "up" => wire'[c] = wire[c]
        /\ link[c] = "up" => wire'[c] = Append(wire[c], Nounit)
    BY <1>0, <2>1, MessagesTold, Sending
  <2> QED BY <1>3, <1>4, <2>1, <2>2, <2>3, MessagesTold
<1> QED BY <1>6, <1>7, <1>8

LEMMA DropHeard ==
    ASSUME Typed, NEW c \in Handler, Hears(c), Drop(c)
    PROVE  Hears(c)'
<1>0. /\ wire[c] \in Seq(Told) /\ link'[c] = "down"
      /\ UNCHANGED <<worker, gotUnit, received, run, handler, holding, stage, takenBy>>
  BY DEF Typed, TypeInv, NetTypes, Drop, vars, handlerVars, clientVars, workerVars, runVars
<1>1. PICK k \in 0..Len(wire[c]) : wire' = [wire EXCEPT ![c] = SubSeq(wire[c], 1, k)]
  BY DEF Drop
<1>2. /\ Len(wire[c]) \in Nat /\ Len(wire'[c]) = k
      /\ \A i \in 1..k : wire'[c][i] = wire[c][i] /\ i \in 1..Len(wire[c])
  BY <1>0, <1>1, Truncated, PushPop DEF Typed, TypeInv, NetTypes
<1>3. ASSUME NEW i \in 1..k, wire'[c][i].type = "nounit"
      PROVE  i = k /\ k = Len(wire[c]) /\ Closing(c)
  <2>1. i = Len(wire[c]) /\ Closing(c)
    BY <1>2, <1>3 DEF Hears, NounitLast, Closing
  <2> QED BY <1>2, <2>1
<1>4. Closing(c)' => Closing(c) /\ k = Len(wire[c])
  BY <1>2, <1>3 DEF Closing
<1>5. NounitLast(c)'
  BY <1>0, <1>2, <1>3, <1>4 DEF Hears, NounitLast
<1>6. k = Len(wire[c]) => Offered(c) \subseteq Offered(c)'
  BY <1>2 DEF Offered
<1>7. Unsaid(c)' = Unsaid(c)
  BY <1>0 DEF Unsaid
<1> QED BY <1>0, <1>4, <1>5, <1>6, <1>7 DEF Hears, Heard

LEMMA ReadHeard ==
    ASSUME Typed, Roles, NEW c \in Handler, Hears(c),
           ReadOffer(c) \/ ReadBodies(c) \/ ReadNounit(c)
    PROVE  Hears(c)'
<1>0. /\ wire \in [Handler -> Seq(Told)] /\ wire[c] \in Seq(Told)
      /\ worker = [d \in Handler |-> worker[d]] /\ gotUnit = [d \in Handler |-> gotUnit[d]]
      /\ UNCHANGED <<run, link, takenBy, handler, holding, stage>>
  BY DEF Typed, TypeInv, NetTypes, ClientTypes, WorkerTypes, ReadOffer, ReadBodies,
         ReadNounit, streamVars, runVars, vars, handlerVars
<1>1. wire'[c] = Tail(wire[c]) /\ wire[c] # <<>>
  <2>1. \E type : Receives(c, type)
    BY DEF ReadOffer, ReadBodies, ReadNounit
  <2> QED BY <1>0, <2>1, Receiving
<1>2. /\ NounitLast(c)' /\ (Closing(c)' => Closing(c))
      /\ \A u \in Offered(c) :
             u \in Offered(c)' \/ (Head(wire[c]).type = "offer" /\ u = Head(wire[c]).unit)
      /\ Head(wire[c]).type = "nounit" => Closing(c) /\ Offered(c) = {}
  BY <1>0, <1>1, HeardOne DEF Hears
<1>3. Unsaid(c)' = Unsaid(c)
  BY <1>0 DEF Unsaid
<1>4. worker[c] \in {"reading", "body"} /\ handler[c] # "absent"
  BY DEF ReadOffer, ReadBodies, ReadNounit, Roles, Role
<1>5. handler[c] \in {"absent", "handshake"} => takenBy[c] = {}
  BY DEF Hears, Heard
<1>6. CASE ReadOffer(c)
  <2>1. /\ received' = received \union {Head(wire[c]).unit}
        /\ worker'[c] \in {"reading", "body"}
    BY <1>0, <1>6 DEF ReadOffer
  <2>2. link[c] = "up" \/ Closing(c) =>
            takenBy[c] \subseteq received' \union Offered(c)' \union Unsaid(c)'
    BY <1>2, <1>3, <1>4, <2>1 DEF Hears, Heard
  <2> QED BY <1>0, <1>2, <1>5, <2>1, <2>2 DEF Hears, Heard
<1>7. CASE ReadBodies(c)
  <2>1. /\ received' = received /\ Head(wire[c]).type = "body" /\ worker'[c] = "reading"
    BY <1>0, <1>7 DEF ReadBodies, Receives
  <2>2. link[c] = "up" \/ Closing(c) =>
            takenBy[c] \subseteq received' \union Offered(c)' \union Unsaid(c)'
    BY <1>2, <1>3, <1>4, <2>1 DEF Hears, Heard
  <2> QED BY <1>0, <1>2, <1>5, <2>1, <2>2 DEF Hears, Heard
<1>8. CASE ReadNounit(c)
  <2>1. /\ received' = received /\ Head(wire[c]).type = "nounit" /\ worker'[c] = "ok"
    BY <1>0, <1>8 DEF ReadNounit, Receives
  <2>2. handler[c] = "nounit" /\ Unsaid(c) = {} /\ takenBy[c] \subseteq received
    BY <1>2, <1>4, <2>1 DEF Hears, Heard, NounitLast, Unsaid
  <2> QED BY <1>0, <1>2, <2>1, <2>2 DEF Hears, Heard
<1> QED BY <1>6, <1>7, <1>8

LEMMA NextHeard == Typed /\ Roles /\ HeardInv /\ [SyncNext]_syncVars => HeardInv'
<1> SUFFICES ASSUME Typed, Roles, HeardInv, [SyncNext]_syncVars, NEW d \in Handler
             PROVE  Hears(d)'
  BY DEF HeardInv
<1>0. /\ handler = [c \in Handler |-> handler[c]] /\ worker = [c \in Handler |-> worker[c]]
      /\ holding = [c \in Handler |-> holding[c]] /\ stage = [c \in Handler |-> stage[c]]
      /\ link = [c \in Handler |-> link[c]] /\ takenBy = [c \in Handler |-> takenBy[c]]
      /\ gotUnit = [c \in Handler |-> gotUnit[c]] /\ wire = [c \in Handler |-> wire[c]]
      /\ run \in RunIds /\ Hears(d)
  BY DEF Typed, Serves, TInv, TypeOK, TypeInv, ClientTypes, WorkerTypes, RunTypes, NetTypes,
         StreamTypes, HeardInv
<1>1. CASE ServerInternal
  <2>1. /\ UNCHANGED <<wire, takenBy, gotUnit, link, worker, received, run, stage, holding>>
        /\ \/ handler'[d] = handler[d]
           \/ handler[d] \in {"poll", "empty"} /\ handler'[d] \in {"poll", "empty"}
    BY <1>0, <1>1
    DEF ServerInternal, ProducerStep, SeeSpace, Push, StoreDone, NoConnection, AcceptError,
        ReapAndCheck, JoinThreads, PopNone, PollAgain, Move, handlerVars, netVars, streamVars,
        clientVars, workerVars, runVars
  <2>2. Unsaid(d)' = Unsaid(d)
    BY <2>1 DEF Unsaid
  <2>3. /\ handler'[d] \in {"absent", "handshake"} => handler[d] \in {"absent", "handshake"}
        /\ handler[d] = "nounit" => handler'[d] = "nounit"
    BY <2>1
  <2> QED BY <1>0, <2>1, <2>2, <2>3, HeardKept
<1>2. ASSUME NEW c \in Handler, ServerSide(c) \/ ReadError(c) \/ Drop(c) PROVE Hears(d)'
  <2>1. UNCHANGED <<worker, gotUnit, received, run>>
    BY <1>2, ServerApart DEF clientVars, workerVars, runVars
  <2>2. CASE d # c
    <3>1. UNCHANGED <<handler[d], holding[d], stage[d], link[d], wire[d], takenBy[d]>>
      BY <1>0, <1>2, <2>2
      DEF ServerSide, TakeUnit, OfferDir, OfferFiles, ReadMask, SendBodies, TellNounit,
          HandlerNotices, ReadError, Drop, PopUnit, FinishUnit, SendNounit, Reject, SendFails,
          AbandonUnit, Move, Send, vars, handlerVars, netVars, streamVars
    <3>2. Unsaid(d)' = Unsaid(d)
      BY <3>1 DEF Unsaid
    <3> QED BY <1>0, <2>1, <3>1, <3>2, HeardKept
  <2>3. CASE TakeUnit(c) /\ d = c
    <3>1. /\ handler[c] = "poll" /\ handler'[c] = "serving" /\ stage'[c] = "offer"
          /\ holding'[c] = Head(queue) /\ takenBy'[c] = takenBy[c] \union {Head(queue)}
          /\ UNCHANGED <<wire, link>>
      BY <1>0, <2>3 DEF TakeUnit, PopUnit, Move, netVars
    <3>2. ~Closing(c) /\ (Closing(c)' <=> Closing(c)) /\ Offered(c)' = Offered(c)
      BY <1>0, <2>3, <3>1 DEF Hears, NounitLast, Closing, Offered
    <3>3. NounitLast(c)'
      BY <1>0, <2>3, <3>1, <3>2 DEF Hears, NounitLast
    <3>4. Unsaid(c) = {} /\ Unsaid(c)' = {Head(queue)}
      BY <3>1 DEF Unsaid
    <3>5. Heard(c)'
      BY <1>0, <2>1, <2>3, <3>1, <3>2, <3>4 DEF Hears, Heard
    <3> QED BY <2>3, <3>3, <3>5 DEF Hears
  <2>4. CASE ReadMask(c) /\ d = c
    <3>1. /\ UNCHANGED <<handler, holding, wire, link, takenBy>>
          /\ stage[c] = "mask" /\ stage'[c] = "body"
      BY <1>0, <2>4 DEF ReadMask, vars, handlerVars, netVars
    <3>2. Unsaid(c) = {}
      BY <3>1 DEF Unsaid
    <3> QED BY <1>0, <2>1, <2>4, <3>1, <3>2, HeardKept
  <2>5. CASE (HandlerNotices(c) \/ ReadError(c)) /\ d = c
    <3>1. /\ UNCHANGED <<wire, takenBy>> /\ link'[c] = "down"
          /\ handler[c] # "nounit" /\ handler'[c] = "closed"
      BY <1>0, <2>5 DEF HandlerNotices, ReadError, Reject, SendFails, AbandonUnit, Move, netVars,
                  streamVars, Typed, TypeInv, NetTypes
    <3> QED BY <1>0, <2>1, <2>5, <3>1, HeardKept
  <2> QED
    BY <1>0, <1>2, <2>2, <2>3, <2>4, <2>5, SendHeard, DropHeard DEF ServerSide
<1>3. ASSUME NEW c \in Handler, ClientSide(c) PROVE Hears(d)'
  <2>1. /\ UNCHANGED <<run, link, takenBy, holding, stage>> /\ received \subseteq received'
    BY <1>3 DEF ClientSide, Connect, Refused, Handshake, HandshakeFails, ReadOffer, ReadBodies,
                ReadNounit, StreamFails, Accept, StartUnits, vars, handlerVars, netVars,
                streamVars, runVars
  <2>2. CASE d # c
    <3>1. UNCHANGED <<handler[d], wire[d], worker[d], gotUnit[d]>>
      BY <1>0, <1>3, <2>2
      DEF ClientSide, Connect, Refused, Handshake, HandshakeFails, ReadOffer, ReadBodies,
          ReadNounit, StreamFails, Accept, StartUnits, Move, Receives, vars, handlerVars, netVars
    <3>2. Unsaid(d)' = Unsaid(d)
      BY <2>1, <3>1 DEF Unsaid
    <3> QED BY <1>0, <2>1, <3>1, <3>2, HeardKept
  <2>3. CASE ReadOffer(c) \/ ReadBodies(c) \/ ReadNounit(c)
    BY <1>0, <2>2, <2>3, ReadHeard
  <2>4. ASSUME d = c, UNCHANGED <<wire, gotUnit, received>>,
               handler[c] = "nounit" => handler'[c] = "nounit",
               Heard(c)'
        PROVE  Hears(d)'
    BY <1>0, <2>4 DEF Hears, NounitLast, Closing
  <2>5. CASE Connect(c) /\ d = c
    <3>1. /\ UNCHANGED <<wire, gotUnit, received>> /\ worker'[c] = "connecting"
          /\ handler[c] = "absent" /\ handler'[c] = "handshake" /\ ~gotUnit[c]
      BY <1>0, <2>5
      DEF Connect, ToConnect, Accept, Move, netVars, Roles, Role
    <3> QED BY <1>0, <2>1, <2>4, <2>5, <3>1 DEF Hears, Heard
  <2>6. CASE Refused(c) /\ d = c
    <3>1. /\ UNCHANGED <<wire, gotUnit, received, handler>> /\ worker'[c] = "none"
          /\ handler[c] = "absent" /\ ~gotUnit[c]
      BY <1>0, <2>6 DEF Refused, ToConnect, netVars, vars, handlerVars, Roles, Role
    <3> QED BY <1>0, <2>1, <2>4, <2>6, <3>1 DEF Hears, Heard
  <2>7. CASE Handshake(c) /\ d = c
    <3>1. /\ UNCHANGED <<wire, gotUnit, received>> /\ worker'[c] = "reading"
          /\ worker[c] = "connecting"
          /\ handler[c] = "handshake" /\ handler'[c] = "poll"
      BY <1>0, <2>7 DEF Handshake, StartUnits, Move, netVars
    <3> QED BY <1>0, <2>1, <2>4, <2>7, <3>1 DEF Hears, Heard
  <2>8. CASE HandshakeFails(c) /\ d = c
    <3>1. /\ UNCHANGED <<wire, gotUnit, received, handler>> /\ worker'[c] \in {"none", "ok"}
          /\ worker[c] = "connecting"
      BY <1>0, <2>8 DEF HandshakeFails, netVars, vars, handlerVars
    <3> QED BY <1>0, <2>1, <2>4, <2>8, <3>1 DEF Hears, Heard
  <2>9. CASE StreamFails(c) /\ d = c
    <3>1. /\ UNCHANGED <<wire, gotUnit, received, handler>> /\ link[c] = "down"
          /\ worker'[c] = IF gotUnit[c] THEN "failed" ELSE "ok"
      BY <1>0, <2>9 DEF StreamFails, netVars, vars, handlerVars
    <3> QED BY <1>0, <2>1, <2>4, <2>9, <3>1 DEF Hears, Heard
  <2> QED BY <1>3, <2>2, <2>3, <2>5, <2>6, <2>7, <2>8, <2>9 DEF ClientSide
<1>4. CASE EndRun \/ UNCHANGED syncVars
  <2>1. UNCHANGED <<wire, takenBy, gotUnit, link, worker, received, run, stage, holding, handler>>
    BY <1>4 DEF EndRun, syncVars, vars, handlerVars, netVars, streamVars, clientVars,
                workerVars, runVars
  <2>2. Unsaid(d)' = Unsaid(d)
    BY <2>1 DEF Unsaid
  <2> QED BY <1>0, <2>1, <2>2, HeardKept
<1>5. CASE Rerun
  <2>1. /\ UNCHANGED <<wire, takenBy, gotUnit, link, worker, stage, holding, handler>>
        /\ run' = run + 1 /\ outcome # "fetching"
    BY <1>5 DEF Rerun, vars, handlerVars, netVars, streamVars
  <2>2. Unsaid(d)' = Unsaid(d)
    BY <2>1 DEF Unsaid
  <2>3. worker[d] \notin {"reading", "body"}
    BY <1>0, <2>1 DEF Roles, Role, Working
  <2>4. d[1] = run' => worker[d] = "off"
    <3>1. d[1] \in Nat /\ run \in Nat
      BY <1>0, ConnsOfRun
    <3>2. d[1] = run' => d[1] > run
      BY <2>1, <3>1
    <3> QED BY <3>2 DEF Roles, Role
  <2> QED BY <1>0, <2>1, <2>2, <2>3, <2>4, HeardKept
<1> QED BY <1>1, <1>2, <1>3, <1>4, <1>5 DEF SyncNext

LEMMA HeardMissesNone == SyncInv /\ HeardInv => CleanRunMissesNoUnit
<1> SUFFICES ASSUME SyncInv, HeardInv, outcome = "clean", NEW c \in Conns(run), gotUnit[c]
             PROVE  takenBy[c] \subseteq received
  BY DEF CleanRunMissesNoUnit
<1>1. c \in Handler /\ c[1] = run
  BY ConnsOfRun DEF SyncInv, Typed, TypeInv, ClientTypes, RunTypes
<1>2. worker[c] \in {"ok", "none"}
  BY DEF SyncInv, Roles, CleanEnds
<1> QED BY <1>1, <1>2 DEF HeardInv, Hears, Heard

\* A run reported as done was told of every unit that the server took out of its
\* queue for a stream the run had a unit from: NOUNIT comes behind the last of
\* them, and without it the stream fails the run.
THEOREM NoUnitMissed == SyncSpec => []CleanRunMissesNoUnit
<1>1. SyncInit => HeardInv
  BY InitHeard
<1>2. SyncInv /\ HeardInv /\ [SyncNext]_syncVars => HeardInv'
  BY NextHeard DEF SyncInv
<1> QED BY <1>1, <1>2, SyncInvariant, HeardMissesNone, PTL DEF SyncSpec
------------------------------------------------------------------------------
(* The streams keep the promise of a mirror run. *)

\* The receiver's files as the promise sees them.
Copies == [f \in Files |-> CopyStatus(local[f])]

LEMMA PhaseIs ==
    /\ Mirror!Active <=> outcome = "fetching"
    /\ RunPhase = "running" <=>
           outcome = "fetching" /\ \A c \in Conns(run) : worker[c] # "failed"
    /\ outcome = "clean" => RunPhase = "done"
    /\ outcome \notin {"fetching", "clean"} => RunPhase = "stopped"
    /\ outcome = "fetching" /\ (\E c \in Conns(run) : worker[c] = "failed") => RunPhase = "broken"
  BY DEF RunPhase, Mirror!Active

LEMMA OwedIs == \A f : f \in Owed <=> \E c \in Conns(run) : worker[c] = "body" /\ f \in want[c]
  BY DEF Owed

\* A step that changes nothing of what the promise is about.
LEMMA StaysMirror ==
    ASSUME UNCHANGED <<outcome, run, seen, local>>,
           \A c \in Conns(run) :
               \/ worker'[c] = worker[c] /\ want'[c] = want[c]
               \/ worker[c] \notin {"body", "failed"} /\ worker'[c] \notin {"body", "failed"}
    PROVE  UNCHANGED Mirror!mvars
<1>1. Conns(run)' = Conns(run)
  BY DEF Conns
<1>2. RunPhase' = RunPhase
  BY <1>1 DEF RunPhase
<1>3. Owed' = Owed
  BY <1>1 DEF Owed
<1>4. Copies' = Copies
  BY DEF Copies
<1> QED BY <1>2, <1>3, <1>4 DEF Mirror!mvars, Copies

\* Only one worker of the run changes.
LEMMA OneStream ==
    ASSUME Typed, Roles, NEW c \in Handler, worker[c] \in Working,
           UNCHANGED <<outcome, run>>, \A d \in Handler \ {c} : worker'[d] = worker[d],
           \A d \in Handler \ {c} : want'[d] = want[d]
    PROVE  /\ c \in Conns(run) /\ outcome = "fetching" /\ worker[c] # "failed"
           /\ Conns(run)' = Conns(run) /\ Conns(run) \subseteq Handler
           /\ worker'[c] # "failed" => RunPhase' = RunPhase
           /\ worker'[c] = "failed" => RunPhase' = "broken"
           /\ \A f : f \in Owed' => f \in Owed \/ (worker'[c] = "body" /\ f \in want'[c])
           /\ worker'[c] = "body" => want'[c] \subseteq Owed'
           /\ worker[c] = "body" => want[c] \subseteq Owed
           /\ \A f \in Owed : f \in Owed' \/ (worker[c] = "body" /\ f \in want[c])
<1>1. run \in RunIds
  BY DEF Typed, TypeInv, ClientTypes, RunTypes
<1>2. /\ c \in Conns(run) /\ outcome = "fetching" /\ worker[c] # "failed"
      /\ Conns(run)' = Conns(run) /\ Conns(run) \subseteq Handler
  BY <1>1, ConnsOfRun DEF Roles, Role, Working, Conns
<1>3. worker'[c] # "failed" => RunPhase' = RunPhase
  BY <1>2 DEF RunPhase
<1>4. worker'[c] = "failed" => RunPhase' = "broken"
  BY <1>2 DEF RunPhase
<1>5. \A f : f \in Owed' <=> \E d \in Conns(run) : worker'[d] = "body" /\ f \in want'[d]
  BY <1>2 DEF Owed
<1> QED BY <1>2, <1>3, <1>4, <1>5, OwedIs

LEMMA OfferMirrors ==
    ASSUME Typed, Roles, NEW c \in Handler, ReadOffer(c)
    PROVE  Mirror!Next
<1> DEFINE files == Head(wire[c]).files
           wanted == IF fresh[c[1]] THEN files ELSE {f \in files : local[f] # "current"}
<1>1. /\ worker[c] = "reading" /\ seen' = seen \union files
      /\ want' = [want EXCEPT ![c] = wanted]
      /\ worker' = [worker EXCEPT ![c] = IF wanted = {} THEN "reading" ELSE "body"]
      /\ UNCHANGED <<local, run, outcome>>
  BY DEF ReadOffer, runVars, diskVars
<1>2. files \subseteq Files
  BY Receiving, UnitFiles DEF ReadOffer, Typed, TypeInv, NetTypes, Told
<1>3. wanted \subseteq files /\ {f \in files : Copies[f] # "good"} \subseteq wanted
  BY <1>2 DEF Copies, CopyStatus
<1> HIDE DEF files, wanted
<1>4. /\ want'[c] = wanted /\ worker'[c] = IF wanted = {} THEN "reading" ELSE "body"
      /\ \A d \in Handler \ {c} : worker'[d] = worker[d] /\ want'[d] = want[d]
  BY <1>1 DEF Typed, TypeInv, StreamTypes, ClientTypes, WorkerTypes
<1>5. Owed' = Owed \union wanted /\ RunPhase' = RunPhase /\ outcome = "fetching"
  BY <1>1, <1>4, OneStream DEF Working
<1>6. Copies' = Copies
  BY <1>1 DEF Copies
<1>7. Mirror!Offer(files, wanted)
  BY <1>1, <1>3, <1>5, <1>6, PhaseIs DEF Mirror!Offer, Copies
<1> QED BY <1>2, <1>3, <1>7 DEF Mirror!Next

LEMMA BodiesMirror ==
    ASSUME Typed, Roles, FramedInv, NEW c \in Handler, ReadBodies(c)
    PROVE  Mirror!Next
<1> DEFINE files == Head(wire[c]).files
<1>1. /\ local' = [f \in Files |-> IF f \in files THEN "current" ELSE local[f]]
      /\ worker' = [worker EXCEPT ![c] = "reading"] /\ worker[c] = "body"
      /\ UNCHANGED <<want, seen, run, outcome>>
  BY DEF ReadBodies, streamVars, runVars
<1>2. want[c] \ Lockable \subseteq files /\ files \subseteq want[c]
  <2>1. wire[c] # <<>> /\ wire[c][1] = Head(wire[c])
    BY Receiving DEF ReadBodies, Typed, TypeInv, NetTypes
  <2> QED BY <1>1, <2>1 DEF FramedInv, Framed, Awaited, Answers
<1> HIDE DEF files
<1>3. worker'[c] = "reading" /\ \A d \in Handler \ {c} : worker'[d] = worker[d]
  BY <1>1 DEF Typed, TypeInv, ClientTypes, WorkerTypes
<1>4. /\ Owed' \subseteq Owed /\ files \subseteq Owed
      /\ Owed \ Owed' \subseteq files \union Lockable
      /\ RunPhase' = RunPhase /\ outcome = "fetching"
  BY <1>1, <1>2, <1>3, OneStream DEF Working
<1>5. Copies' = [f \in Files |-> IF f \in files THEN "good" ELSE Copies[f]]
  BY <1>1 DEF Copies, CopyStatus
<1>6. Mirror!Receive(files, Owed')
  BY <1>1, <1>4, <1>5, PhaseIs DEF Mirror!Receive, Mirror!Write, Copies
<1> QED BY <1>4, <1>6 DEF Mirror!Next

LEMMA FailMirrors ==
    ASSUME Typed, Roles, NEW c \in Handler, StreamFails(c)
    PROVE  [Mirror!Next]_(Mirror!mvars)
<1>0. local = [f \in Files |-> local[f]]
  BY DEF Typed, TypeInv, ClientTypes, DiskTypes
<1>1. /\ worker' = [worker EXCEPT ![c] = IF gotUnit[c] THEN "failed" ELSE "ok"]
      /\ worker[c] \in {"reading", "body"} /\ (worker[c] = "body" => gotUnit[c])
      /\ UNCHANGED <<want, seen, run, outcome>>
  BY DEF StreamFails, streamVars, runVars, Roles, Role
<1>2. /\ worker'[c] = IF gotUnit[c] THEN "failed" ELSE "ok"
      /\ \A d \in Handler \ {c} : worker'[d] = worker[d]
  BY <1>1 DEF Typed, TypeInv, ClientTypes, WorkerTypes
<1>3. CASE ~gotUnit[c]
  <2>1. UNCHANGED local /\ worker[c] = "reading" /\ worker'[c] = "ok"
    BY <1>0, <1>1, <1>2, <1>3, FailWrites
  <2>2. Conns(run) \subseteq Handler
    BY <1>1, <1>2, OneStream DEF Working
  <2> QED BY <1>1, <1>2, <2>1, <2>2, StaysMirror
<1>4. CASE gotUnit[c]
  <2>1. /\ Owed' \subseteq Owed /\ (worker[c] = "body" => want[c] \subseteq Owed)
        /\ RunPhase' = "broken" /\ outcome = "fetching"
    BY <1>1, <1>2, <1>4, OneStream DEF Working
  <2>2. \E got \in SUBSET Owed : \E cut \in SUBSET Owed :
            Copies' = [f \in Files |-> IF f \in cut THEN "stale"
                                       ELSE IF f \in got THEN "good" ELSE Copies[f]]
    <3>1. CASE UNCHANGED local
      <4>1. Copies' = [f \in Files |-> IF f \in {} THEN "stale"
                                       ELSE IF f \in {} THEN "good" ELSE Copies[f]]
        BY <3>1 DEF Copies
      <4> WITNESS {} \in SUBSET Owed
      <4> WITNESS {} \in SUBSET Owed
      <4> QED BY <4>1
    <3>2. CASE local' # local
      <4>1. /\ worker[c] = "body"
            /\ \E whole \in SUBSET want[c] : \E torn \in SUBSET want[c] :
                   local' = [f \in Files |-> IF f \in torn THEN "partial"
                                             ELSE IF f \in whole THEN "current" ELSE local[f]]
        BY <1>0, <3>2, FailWrites
      <4>2. PICK whole \in SUBSET want[c], torn \in SUBSET want[c] :
                local' = [f \in Files |-> IF f \in torn THEN "partial"
                                          ELSE IF f \in whole THEN "current" ELSE local[f]]
        BY <4>1
      <4>3. Copies' = [f \in Files |-> IF f \in torn THEN "stale"
                                       ELSE IF f \in whole THEN "good" ELSE Copies[f]]
        BY <4>2 DEF Copies, CopyStatus
      <4>4. whole \in SUBSET Owed /\ torn \in SUBSET Owed
        BY <2>1, <4>1
      <4> QED BY <4>3, <4>4
    <3> QED BY <3>1, <3>2
  <2>3. PICK got \in SUBSET Owed, cut \in SUBSET Owed :
            Copies' = [f \in Files |-> IF f \in cut THEN "stale"
                                       ELSE IF f \in got THEN "good" ELSE Copies[f]]
    BY <2>2
  <2>4. Mirror!Fail(got, cut, Owed')
    BY <1>1, <2>1, <2>3, PhaseIs DEF Mirror!Fail, Mirror!Write, Copies
  <2> QED BY <2>1, <2>4 DEF Mirror!Next
<1> QED BY <1>3, <1>4

LEMMA EndMirrors ==
    ASSUME Typed, Roles, EndRun
    PROVE  Mirror!Next
<1>1. /\ UNCHANGED <<worker, want, seen, run>> /\ outcome = "fetching"
      /\ outcome' \in {"clean", "unclean", "nostream"}
      /\ outcome' = "clean" => /\ \A c \in Conns(run) : Ended(c)
                               /\ \A c \in Conns(run) : worker[c] # "failed"
      /\ local' = [f \in Files |-> IF outcome' = "clean" /\ f \in Unseen
                                   THEN "absent" ELSE local[f]]
  BY DEF EndRun, streamVars, workerVars
<1>2. Owed' = Owed /\ Conns(run)' = Conns(run)
  BY <1>1 DEF Owed, Conns
<1>3. CASE outcome' = "clean"
  <2>1. Owed = {} /\ RunPhase = "running"
    BY <1>1, <1>3, OwedIs, PhaseIs DEF Ended
  <2>2. RunPhase' = "done"
    BY <1>3 DEF RunPhase
  <2>3. Unseen \in SUBSET (Files \ seen)
    BY DEF Unseen
  <2>4. Copies' = [f \in Files |-> IF f \in Unseen THEN "absent" ELSE Copies[f]]
    BY <1>1, <1>3 DEF Copies, CopyStatus
  <2>5. Mirror!Finish(Unseen)
    BY <1>1, <1>2, <2>1, <2>2, <2>4 DEF Mirror!Finish, Mirror!Write, Copies
  <2> QED BY <2>3, <2>5 DEF Mirror!Next
<1>4. CASE outcome' # "clean"
  <2>1. RunPhase' = "stopped"
    BY <1>1, <1>4 DEF RunPhase
  <2>2. Copies' = [f \in Files |-> IF f \in {} THEN "stale"
                                   ELSE IF f \in {} THEN "good" ELSE Copies[f]]
    BY <1>1, <1>4 DEF Copies
  <2>3. Mirror!Fail({}, {}, Owed)
    BY <1>1, <1>2, <2>1, <2>2, PhaseIs DEF Mirror!Fail, Mirror!Write, Copies
  <2> QED BY <2>3 DEF Mirror!Next
<1> QED BY <1>3, <1>4

LEMMA RerunMirrors ==
    ASSUME Typed, Roles, Rerun
    PROVE  Mirror!Next
<1>1. /\ UNCHANGED <<worker, want, local>> /\ outcome # "fetching" /\ outcome' = "fetching"
      /\ seen' = {} /\ run' = run + 1 /\ run' \in RunIds /\ run \in Nat
  BY NextTypes, ConnsOfRun
  DEF SyncNext, Rerun, streamVars, diskVars, Typed, Serves, TypeInv, ClientTypes, RunTypes
<1>2. \A c \in Conns(run') : worker[c] = "off"
  <2> SUFFICES ASSUME NEW c \in Conns(run') PROVE worker[c] = "off"
    OBVIOUS
  <2>1. c \in Handler /\ c[1] = run + 1
    BY <1>1, ConnsOfRun
  <2>2. c[1] > run
    BY <1>1, <2>1
  <2> QED BY <2>1, <2>2 DEF Roles, Role
<1>3. \A c \in Conns(run)' : worker'[c] = "off"
  BY <1>1, <1>2 DEF Conns
<1>4. Owed' = {} /\ RunPhase' = "running"
  BY <1>1, <1>3 DEF Owed, RunPhase
<1>5. Copies' = Copies
  BY <1>1 DEF Copies
<1>6. Mirror!Begin
  BY <1>1, <1>4, <1>5, PhaseIs DEF Mirror!Begin, Copies
<1> QED BY <1>6 DEF Mirror!Next

LEMMA StepMirrors ==
    SyncInv /\ [SyncNext]_syncVars => [Mirror!Next]_(Mirror!mvars)
<1> SUFFICES ASSUME Typed, Roles, FramedInv, [SyncNext]_syncVars
             PROVE  [Mirror!Next]_(Mirror!mvars)
  BY DEF SyncInv
<1>1. CASE \/ ServerInternal \/ UNCHANGED syncVars
           \/ \E c \in Handler : ServerSide(c) \/ ReadError(c) \/ Drop(c)
  <2>1. UNCHANGED <<outcome, run, seen, local, worker>>
    <3>1. UNCHANGED clientVars
      BY <1>1, ServerApart DEF syncVars
    <3> QED BY <3>1 DEF clientVars, workerVars, runVars, diskVars
  <2>2. want' = want
    BY <1>1 DEF ServerInternal, syncVars, ServerSide, TakeUnit, OfferDir, OfferFiles, ReadMask,
                SendBodies, TellNounit, HandlerNotices, ReadError, Drop, streamVars
  <2> QED BY <2>1, <2>2, StaysMirror
<1>2. ASSUME NEW c \in Handler,
             Connect(c) \/ Refused(c) \/ Handshake(c) \/ HandshakeFails(c) \/ ReadNounit(c)
      PROVE  UNCHANGED Mirror!mvars
  <2>1. /\ UNCHANGED <<outcome, run, seen, local, want>>
        /\ worker[c] \notin {"body", "failed"} /\ worker'[c] \notin {"body", "failed"}
        /\ \A d \in Handler \ {c} : worker'[d] = worker[d]
    BY <1>2 DEF Connect, ToConnect, Refused, Handshake, HandshakeFails, ReadNounit, runVars,
                diskVars, streamVars, Typed, TypeInv, ClientTypes, WorkerTypes
  <2>2. Conns(run) \subseteq Handler
    BY ConnsOfRun DEF Typed, TypeInv, ClientTypes, RunTypes
  <2> QED BY <2>1, <2>2, StaysMirror
<1> QED
  BY <1>1, <1>2, OfferMirrors, BodiesMirror, FailMirrors, EndMirrors, RerunMirrors
  DEF SyncNext, ClientSide

LEMMA InitMirrors == SyncInit => Mirror!Init
<1> SUFFICES ASSUME SyncInit PROVE Mirror!Init
  OBVIOUS
<1>1. \A c \in Conns(run) : worker[c] = "off"
  BY SyncAssumption DEF SyncInit, Conns, RunIds
<1>2. RunPhase = "running" /\ Owed = {} /\ seen = {}
  BY <1>1 DEF SyncInit, RunPhase, Owed
<1>3. Copies \in [Files -> {"absent", "stale", "good"}]
  BY DEF Copies, CopyStatus
<1> QED BY <1>2, <1>3 DEF Mirror!Init, Copies

\* However many streams share a run, and whatever drops, they keep the promise of
\* one mirror run: the run that is done owes nothing, and only what it was not
\* offered is deleted, once and at its end.
THEOREM RefinesMirror == SyncSpec => ImplementsMirror
<1> QED
  BY InitMirrors, StepMirrors, SyncInvariant, PTL DEF SyncSpec, ImplementsMirror, Mirror!Spec
==============================================================================
