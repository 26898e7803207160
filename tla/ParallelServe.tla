---------------------------- MODULE ParallelServe ----------------------------
(***************************************************************************)
(* The parallel server (rust/src/server.rs, run_serve_parallel): one       *)
(* producer thread walks the shared folders and pushes work units into a   *)
(* bounded FIFO, one handler thread per accepted connection pops units and *)
(* sends them, and the accept loop decides when the server stops.          *)
(*                                                                         *)
(* Units are numbered in the order the walk pushes them.  What a unit      *)
(* holds, and the bytes that carry it, are abstracted: serving a unit      *)
(* either completes or fails with the connection.                          *)
(*                                                                         *)
(* The three places where a thread reads shared state and acts on it later *)
(* are separate steps: the producer's capacity check and its push, a       *)
(* handler's empty pop and its load of the done flag, and an accept and    *)
(* the loop's check of the handles.                                        *)
(***************************************************************************)
EXTENDS Integers, Sequences, FiniteSets

CONSTANTS
    NUnits,     \* number of units the walk produces
    QueueCap,   \* QUEUE_CAP, 256 in the code
    Handler,    \* connections that may reach the server
    Deaf,       \* those whose client may stay connected and stop reading
    GraceTicks, \* accept polls in the 5000 ms "all clients gone" grace
    IdleTicks   \* accept polls in idle_seconds

ASSUME ConstantsAssumption ==
    /\ NUnits \in Nat
    /\ QueueCap \in Nat \ {0}
    /\ Deaf \subseteq Handler
    /\ GraceTicks \in Nat
    /\ IdleTicks \in Nat

VARIABLES
    queue,        \* WorkQueue.q
    produced,     \* units pushed so far
    producer,     \* "check" | "push" | "store" | "ended"
    done,         \* the AtomicBool done
    handler,      \* handler thread of each connection
    holding,      \* the unit a handler is serving, 0 for none
    served,       \* units sent to the end
    lost,         \* units whose handler failed while serving them
    acceptor,     \* "accept" | "check" | "join" | "exited" | "failed"
    handles,      \* join handles the accept loop still keeps
    idle,         \* accept polls since the last accept
    connectedAny, \* connected_any
    stop          \* why the accept loop broke

producerVars == <<produced, producer, done>>
handlerVars == <<handler, holding, served, lost>>
acceptVars == <<acceptor, handles, idle, connectedAny, stop>>
vars == <<queue, producerVars, handlerVars, acceptVars>>

Units == 1..NUnits

HandlerStates ==
    {"absent", "handshake", "poll", "empty", "serving", "nounit", "closed"}

\* A handler thread whose function has returned (is_finished).
Finished(h) == handler[h] \in {"nounit", "closed"}

\* idle only meets >= comparisons, so counting past both limits changes nothing.
IdleMax == IF GraceTicks > IdleTicks THEN GraceTicks ELSE IdleTicks

------------------------------------------------------------------------------

Init ==
    /\ queue = <<>>
    /\ produced = 0
    /\ producer = IF NUnits = 0 THEN "store" ELSE "check"
    /\ done = FALSE
    /\ handler = [h \in Handler |-> "absent"]
    /\ holding = [h \in Handler |-> 0]
    /\ served = {}
    /\ lost = {}
    /\ acceptor = "accept"
    /\ handles = {}
    /\ idle = 0
    /\ connectedAny = FALSE
    /\ stop = "none"

------------------------------------------------------------------------------
(* The producer thread. *)

\* Variant: the capacity test off by one.
SeeSpaceAtCap ==
    /\ producer = "check"
    /\ Len(queue) <= QueueCap
    /\ producer' = "push"
    /\ UNCHANGED <<queue, produced, done, handlerVars, acceptVars>>

\* enqueue_blocking leaves its wait loop; while the queue is full it sleeps.
SeeSpace ==
    /\ producer = "check"
    /\ Len(queue) < QueueCap
    /\ producer' = "push"
    /\ UNCHANGED <<queue, produced, done, handlerVars, acceptVars>>

\* Variant: the walk never notices that it is over.
PushNeverEnds ==
    /\ producer = "push"
    /\ queue' = Append(queue, produced + 1)
    /\ produced' = produced + 1
    /\ producer' = "check"
    /\ UNCHANGED <<done, handlerVars, acceptVars>>

\* push_back, under a lock of its own.
Push ==
    /\ producer = "push"
    /\ queue' = Append(queue, produced + 1)
    /\ produced' = produced + 1
    /\ producer' = IF produced + 1 = NUnits THEN "store" ELSE "check"
    /\ UNCHANGED <<done, handlerVars, acceptVars>>

\* Variant: the producer ends without raising the flag.
EndWithoutFlag ==
    /\ producer = "store"
    /\ producer' = "ended"
    /\ UNCHANGED <<queue, produced, done, handlerVars, acceptVars>>

\* The walk has returned.
StoreDone ==
    /\ producer = "store"
    /\ done' = TRUE
    /\ producer' = "ended"
    /\ UNCHANGED <<queue, produced, handlerVars, acceptVars>>

ProducerStep == SeeSpace \/ Push \/ StoreDone

------------------------------------------------------------------------------
(* A handler thread. *)

Move(h, from, to) ==
    /\ handler[h] = from
    /\ handler' = [handler EXCEPT ![h] = to]

\* AUTH accepted, CFG pushed, QSYNC or QSYNC STREAM read.
StartUnits(h) ==
    /\ Move(h, "handshake", "poll")
    /\ UNCHANGED <<queue, producerVars, holding, served, lost, acceptVars>>

\* Address refused, bad AUTH, another command, or an I/O error before QSYNC.
Reject(h) ==
    /\ Move(h, "handshake", "closed")
    /\ UNCHANGED <<queue, producerVars, holding, served, lost, acceptVars>>

\* Variant: front() where pop_front() was meant.
PeekUnit(h) ==
    /\ queue # <<>>
    /\ Move(h, "poll", "serving")
    /\ holding' = [holding EXCEPT ![h] = Head(queue)]
    /\ UNCHANGED <<queue, producerVars, served, lost, acceptVars>>

\* try_pop returned a unit.
PopUnit(h) ==
    /\ queue # <<>>
    /\ Move(h, "poll", "serving")
    /\ holding' = [holding EXCEPT ![h] = Head(queue)]
    /\ queue' = Tail(queue)
    /\ UNCHANGED <<producerVars, served, lost, acceptVars>>

\* try_pop returned None; done is loaded later, by a step of its own.
PopNone(h) ==
    /\ queue = <<>>
    /\ Move(h, "poll", "empty")
    /\ UNCHANGED <<queue, producerVars, holding, served, lost, acceptVars>>

\* Variant: an empty queue is taken for the end of the walk.
NounitWhenEmpty(h) ==
    /\ Move(h, "empty", "nounit")
    /\ UNCHANGED <<queue, producerVars, holding, served, lost, acceptVars>>

\* done is set: send NOUNIT and leave the loop.
SendNounit(h) ==
    /\ done
    /\ Move(h, "empty", "nounit")
    /\ UNCHANGED <<queue, producerVars, holding, served, lost, acceptVars>>

\* done is not set: sleep, perhaps PING, and poll again.
PollAgain(h) ==
    /\ ~done
    /\ Move(h, "empty", "poll")
    /\ UNCHANGED <<queue, producerVars, holding, served, lost, acceptVars>>

\* Sending the PING or the NOUNIT failed.
SendFails(h) ==
    /\ Move(h, "empty", "closed")
    /\ UNCHANGED <<queue, producerVars, holding, served, lost, acceptVars>>

FinishUnit(h) ==
    /\ Move(h, "serving", "poll")
    /\ served' = served \union {holding[h]}
    /\ holding' = [holding EXCEPT ![h] = 0]
    /\ UNCHANGED <<queue, producerVars, lost, acceptVars>>

\* Variant: the failing handler puts its unit back, at the tail, and still
\* counts it lost.
AbandonPutsBack(h) ==
    /\ Move(h, "serving", "closed")
    /\ queue' = Append(queue, holding[h])
    /\ lost' = lost \union {holding[h]}
    /\ holding' = [holding EXCEPT ![h] = 0]
    /\ UNCHANGED <<producerVars, served, acceptVars>>

\* The client dropped or stalled, a write failed, or a bundled file could not
\* be read: the handler returns and nobody puts its unit back.
AbandonUnit(h) ==
    /\ Move(h, "serving", "closed")
    /\ lost' = lost \union {holding[h]}
    /\ holding' = [holding EXCEPT ![h] = 0]
    /\ UNCHANGED <<queue, producerVars, served, acceptVars>>

HandlerStep(h) ==
    \/ StartUnits(h) \/ Reject(h)
    \/ PopUnit(h) \/ PopNone(h)
    \/ SendNounit(h) \/ PollAgain(h) \/ SendFails(h)
    \/ FinishUnit(h) \/ AbandonUnit(h)

------------------------------------------------------------------------------
(* The accept loop. *)

Accept(h) ==
    /\ acceptor = "accept"
    /\ Move(h, "absent", "handshake")
    /\ handles' = handles \union {h}
    /\ connectedAny' = TRUE
    /\ idle' = 0
    /\ acceptor' = "check"
    /\ UNCHANGED <<queue, producerVars, holding, served, lost, stop>>

\* WouldBlock: sleep 150 ms.
NoConnection ==
    /\ acceptor = "accept"
    /\ idle' = IF idle < IdleMax THEN idle + 1 ELSE idle
    /\ acceptor' = "check"
    /\ UNCHANGED <<queue, producerVars, handlerVars, handles, connectedAny, stop>>

AcceptError ==
    /\ acceptor = "accept"
    /\ acceptor' = "failed"
    /\ UNCHANGED <<queue, producerVars, handlerVars, handles, idle, connectedAny, stop>>

\* Variant: done alone is taken for a clean finish.
VerdictOnDone(live) ==
    IF connectedAny /\ live = {} /\ done THEN "clean"
    ELSE IF connectedAny /\ live = {} /\ idle >= GraceTicks THEN "gone"
    ELSE IF ~connectedAny /\ idle >= IdleTicks THEN "idle"
    ELSE "none"

\* The verdict of the loop's tests once the finished handles are dropped.
Verdict(live) ==
    IF connectedAny /\ live = {} /\ done /\ queue = <<>> THEN "clean"
    ELSE IF connectedAny /\ live = {} /\ idle >= GraceTicks THEN "gone"
    ELSE IF ~connectedAny /\ idle >= IdleTicks THEN "idle"
    ELSE "none"

\* handles.retain, then the break conditions.  With no handle left nobody
\* pops, and once done is set nobody pushes, so loading done and reading the
\* length can be one step.
ReapAndCheck ==
    /\ acceptor = "check"
    /\ handles' = {h \in handles : ~Finished(h)}
    /\ stop' = Verdict(handles')
    /\ acceptor' = IF stop' = "none" THEN "accept" ELSE "join"
    /\ UNCHANGED <<queue, producerVars, handlerVars, idle, connectedAny>>

\* producer.join() and the remaining handles' join(): both wait for ever.
JoinThreads ==
    /\ acceptor = "join"
    /\ producer = "ended"
    /\ \A h \in handles : Finished(h)
    /\ acceptor' = "exited"
    /\ UNCHANGED <<queue, producerVars, handlerVars, handles, idle, connectedAny, stop>>

AcceptLoop ==
    \/ \E h \in Handler : Accept(h)
    \/ NoConnection \/ AcceptError \/ ReapAndCheck \/ JoinThreads

------------------------------------------------------------------------------

Next ==
    \/ ProducerStep
    \/ \E h \in Handler : HandlerStep(h)
    \/ AcceptLoop

\* The handler is writing to a client that may never read again.  Its socket
\* has a read timeout (stall_timeout) and no write timeout, so once the buffers
\* between them are full the write of a unit, a PING or the NOUNIT waits for
\* as long as the connection stays up.
MayBlock(h) == h \in Deaf /\ handler[h] \in {"serving", "empty"}

\* Every thread is scheduled.  A handler that waits for its client's next line
\* fails on the read timeout in the end; nothing ends a write but the client
\* reading or the connection breaking, so no step is promised there when the
\* client is one that may stop reading.
Fairness ==
    /\ WF_vars(ProducerStep)
    /\ \A h \in Handler : WF_vars(HandlerStep(h) /\ ~MayBlock(h))
    /\ WF_vars(AcceptLoop)

Spec == Init /\ [][Next]_vars

FairSpec == Spec /\ Fairness

------------------------------------------------------------------------------
(* Properties. *)

\* Units popped so far: the queue is FIFO and only the producer adds to it.
Popped == produced - Len(queue)

Serving == {h \in Handler : handler[h] = "serving"}

Held == {holding[h] : h \in Serving}

TypeOK ==
    /\ queue \in Seq(Units)
    /\ produced \in 0..NUnits
    /\ producer \in {"check", "push", "store", "ended"}
    /\ done \in BOOLEAN
    /\ handler \in [Handler -> HandlerStates]
    /\ holding \in [Handler -> 0..NUnits]
    /\ served \subseteq Units
    /\ lost \subseteq Units
    /\ acceptor \in {"accept", "check", "join", "exited", "failed"}
    /\ handles \subseteq Handler
    /\ idle \in 0..IdleMax
    /\ connectedAny \in BOOLEAN
    /\ stop \in {"none", "clean", "gone", "idle"}

\* The queue holds exactly the units pushed and not yet popped, in walk order.
QueueInOrder ==
    \A i \in 1..Len(queue) : queue[i] = Popped + i

\* Whatever the interleaving of the producer and the handlers (the queue's
\* lock covers one push or one pop, nothing more), every unit pushed is in
\* exactly one place: the queue, one handler, the served, or the lost.
UnitsConserved ==
    /\ QueueInOrder
    /\ served \union lost \union Held = 1..Popped
    /\ served \intersect lost = {}
    /\ \A h \in Serving : holding[h] \notin served \union lost
    /\ \A g, h \in Serving : holding[g] = holding[h] => g = h

\* enqueue_blocking tests the length and pushes under two separate locks; with
\* its single producer the queue still never exceeds QUEUE_CAP.
QueueWithinCap == Len(queue) <= QueueCap

\* A stream is told NOUNIT only when the walk has pushed its last unit, so a
\* slow walk never ends a stream early.
NounitMeansAllProduced ==
    \A h \in Handler : handler[h] = "nounit" => produced = NUnits

\* A server that stops with the "clean finish" verdict leaves no unit behind:
\* each one was sent to its end, or went down with the stream that had it.
CleanStopMeansDrained ==
    stop = "clean" => served \union lost = Units

\* Every accepted connection whose client keeps reading is let go: once the
\* walk has ended its handler finishes its units and returns, also when the
\* queue was full on the way and when another client has stopped reading with
\* a unit in its handler's hands.
EveryStreamFinishes ==
    \A h \in Handler \ Deaf : handler[h] # "absent" ~> Finished(h)

\* The server comes back from run_serve_parallel whatever its clients do.
ServerReturns == <>(acceptor \in {"exited", "failed"})

\* The queue, the flag and the threads implement a pool that hands out each
\* unit once.
Pool == INSTANCE WorkPool WITH
    Streams <- Handler,
    pool <- Units \ (1..Popped),
    taken <- {<<h, holding[h]>> : h \in Serving},
    finished <- served,
    wasted <- lost

ImplementsWorkPool == Pool!Spec
==============================================================================
