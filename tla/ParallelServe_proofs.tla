------------------------- MODULE ParallelServe_proofs -------------------------
(***************************************************************************)
(* Proofs about the parallel server, for every number of units, every      *)
(* capacity and every set of connections.  The inductive invariant has     *)
(* three parts.  TInv: the types, and what the producer's position says of *)
(* the queue's length.  SInv: a NOUNIT implies the done flag, a running    *)
(* handler still has its handle, a clean verdict is final.                 *)
(* UnitsConserved: every unit pushed is in exactly one place.              *)
(***************************************************************************)
EXTENDS ParallelServe, TLAPS

\* The producer's position fixes how much was pushed; between its capacity
\* check and its push the queue is below the cap.
ProducerInv ==
    /\ producer \in {"check", "push"} => produced < NUnits
    /\ producer \in {"store", "ended"} => produced = NUnits
    /\ done => producer = "ended"
    /\ producer = "push" => Len(queue) < QueueCap
    /\ Len(queue) <= QueueCap
    /\ Len(queue) <= produced

\* A serving handler has a unit.
HoldingInv == \A h \in Handler : handler[h] = "serving" => holding[h] \in Units

\* NOUNIT was sent under a raised flag, and the flag is never lowered.
NounitInv == \A h \in Handler : handler[h] = "nounit" => done

\* The accept loop keeps the handle of every thread that still runs.
HandlesInv ==
    \A h \in Handler : handler[h] = "absent" \/ Finished(h) \/ h \in handles

\* After the verdict "clean" nothing is left to change.
CleanInv ==
    stop = "clean" =>
        /\ acceptor \in {"join", "exited"}
        /\ done
        /\ queue = <<>>
        /\ \A h \in Handler : handler[h] = "absent" \/ Finished(h)

------------------------------------------------------------------------------

\* What the library's sequences give a push and a pop.
LEMMA PushPop ==
    ASSUME NEW S, NEW q \in Seq(S)
    PROVE  /\ Len(q) \in Nat
           /\ \A e \in S : /\ Append(q, e) \in Seq(S)
                           /\ Len(Append(q, e)) = Len(q) + 1
                           /\ \A i \in 1..Len(q) : Append(q, e)[i] = q[i]
                           /\ Append(q, e)[Len(q) + 1] = e
           /\ q # <<>> => /\ Len(q) >= 1
                          /\ Head(q) \in S
                          /\ Head(q) = q[1]
                          /\ Tail(q) \in Seq(S)
                          /\ Len(Tail(q)) = Len(q) - 1
                          /\ \A i \in 1..(Len(q) - 1) : Tail(q)[i] = q[i + 1]
  OBVIOUS

LEMMA IdleMaxNat == IdleMax \in Nat
  BY ConstantsAssumption DEF IdleMax

------------------------------------------------------------------------------
(* Types, and the producer's position. *)

TInv == TypeOK /\ ProducerInv /\ HoldingInv

LEMMA InitTInv == Init => TInv
<1> SUFFICES ASSUME Init PROVE TInv
  OBVIOUS
<1>1. queue = <<>> /\ queue \in Seq(Units) /\ Len(queue) = 0
  BY DEF Init
<1>2. TypeOK
  <2>1. /\ produced \in 0..NUnits
        /\ producer \in {"check", "push", "store", "ended"}
        /\ idle \in 0..IdleMax
    BY ConstantsAssumption, IdleMaxNat DEF Init
  <2>2. /\ handler \in [Handler -> HandlerStates]
        /\ holding \in [Handler -> 0..NUnits]
    BY ConstantsAssumption DEF Init, HandlerStates
  <2> QED BY <1>1, <2>1, <2>2 DEF Init, TypeOK
<1>3. ProducerInv /\ HoldingInv
  BY <1>1, ConstantsAssumption DEF Init, ProducerInv, HoldingInv
<1> QED BY <1>2, <1>3 DEF TInv

LEMMA ProducerTInv == TInv /\ ProducerStep => TInv'
<1> SUFFICES ASSUME TInv, ProducerStep PROVE TInv'
  OBVIOUS
<1> USE DEF TInv, TypeOK, ProducerInv, HoldingInv, acceptVars, handlerVars
<1>1. CASE SeeSpace
  BY <1>1 DEF SeeSpace
<1>2. CASE Push
  <2>1. /\ produced + 1 \in Units
        /\ produced' = produced + 1
        /\ queue' = Append(queue, produced + 1)
        /\ producer' = IF produced + 1 = NUnits THEN "store" ELSE "check"
    BY <1>2, ConstantsAssumption DEF Push, Units
  <2>2. queue' \in Seq(Units) /\ Len(queue') = Len(queue) + 1 /\ Len(queue) \in Nat
    BY <2>1, PushPop
  <2>3. TypeOK'
    <3>1. /\ produced' \in 0..NUnits
          /\ producer' \in {"check", "push", "store", "ended"}
      BY <2>1, ConstantsAssumption DEF Units
    <3> QED BY <1>2, <2>2, <3>1 DEF Push
  <2>4. ProducerInv'
    BY <1>2, <2>1, <2>2, ConstantsAssumption DEF Push
  <2>5. HoldingInv'
    BY <1>2 DEF Push
  <2> QED BY <2>3, <2>4, <2>5
<1>3. CASE StoreDone
  BY <1>3 DEF StoreDone
<1> QED BY <1>1, <1>2, <1>3 DEF ProducerStep

LEMMA HandlerTInv ==
    ASSUME NEW h \in Handler, TInv, HandlerStep(h)
    PROVE  TInv'
<1> USE DEF TInv, TypeOK, ProducerInv, HoldingInv, acceptVars, producerVars, Move, HandlerStates
<1>1. CASE StartUnits(h)
  BY <1>1 DEF StartUnits
<1>2. CASE Reject(h)
  BY <1>2 DEF Reject
<1>3. CASE PopUnit(h)
  <2>1. /\ queue' = Tail(queue) /\ queue' \in Seq(Units)
        /\ Len(queue') = Len(queue) - 1 /\ Len(queue) \in Nat /\ Len(queue) >= 1
        /\ Head(queue) \in Units
    BY <1>3, PushPop DEF PopUnit
  <2> QED BY <1>3, <2>1, ConstantsAssumption DEF PopUnit, Units
<1>4. CASE PopNone(h)
  BY <1>4 DEF PopNone
<1>5. CASE SendNounit(h)
  BY <1>5 DEF SendNounit
<1>6. CASE PollAgain(h)
  BY <1>6 DEF PollAgain
<1>7. CASE SendFails(h)
  BY <1>7 DEF SendFails
<1>8. CASE FinishUnit(h)
  <2>1. holding[h] \in Units /\ served' \subseteq Units
    BY <1>8 DEF FinishUnit
  <2>2. holding' \in [Handler -> 0..NUnits]
    BY <1>8, ConstantsAssumption DEF FinishUnit
  <2>3. \A g \in Handler : handler'[g] = "serving" => holding'[g] \in Units
    BY <1>8 DEF FinishUnit
  <2> QED BY <1>8, <2>1, <2>2, <2>3 DEF FinishUnit
<1>9. CASE AbandonUnit(h)
  <2>1. holding[h] \in Units /\ lost' \subseteq Units
    BY <1>9 DEF AbandonUnit
  <2>2. holding' \in [Handler -> 0..NUnits]
    BY <1>9, ConstantsAssumption DEF AbandonUnit
  <2>3. \A g \in Handler : handler'[g] = "serving" => holding'[g] \in Units
    BY <1>9 DEF AbandonUnit
  <2> QED BY <1>9, <2>1, <2>2, <2>3 DEF AbandonUnit
<1> QED
  BY <1>1, <1>2, <1>3, <1>4, <1>5, <1>6, <1>7, <1>8, <1>9 DEF HandlerStep

LEMMA AcceptTInv == TInv /\ AcceptLoop => TInv'
<1> SUFFICES ASSUME TInv, AcceptLoop PROVE TInv'
  OBVIOUS
<1> USE DEF TInv, TypeOK, ProducerInv, HoldingInv, producerVars, handlerVars
<1>1. ASSUME NEW h \in Handler, Accept(h) PROVE TInv'
  BY <1>1, IdleMaxNat DEF Accept, Move, HandlerStates
<1>2. CASE NoConnection
  BY <1>2, IdleMaxNat DEF NoConnection
<1>3. CASE AcceptError
  BY <1>3 DEF AcceptError
<1>4. CASE ReapAndCheck
  <2>1. stop' \in {"none", "clean", "gone", "idle"}
    BY <1>4 DEF ReapAndCheck, Verdict
  <2> QED BY <1>4, <2>1 DEF ReapAndCheck
<1>5. CASE JoinThreads
  BY <1>5 DEF JoinThreads
<1> QED BY <1>1, <1>2, <1>3, <1>4, <1>5 DEF AcceptLoop

LEMMA NextTInv == TInv /\ [Next]_vars => TInv'
<1> SUFFICES ASSUME TInv, [Next]_vars PROVE TInv'
  OBVIOUS
<1>1. CASE UNCHANGED vars
  BY <1>1 DEF vars, producerVars, handlerVars, acceptVars, TInv, TypeOK, ProducerInv, HoldingInv
<1> QED BY <1>1, ProducerTInv, HandlerTInv, AcceptTInv DEF Next

\* Every variable keeps its type, and the two locks of enqueue_blocking never
\* let the queue pass its capacity.
THEOREM TypeCorrect == Spec => []TypeOK
<1>1. TInv => TypeOK
  BY DEF TInv
<1> QED BY <1>1, InitTInv, NextTInv, PTL DEF Spec

\* The queue never holds more than QUEUE_CAP units, although the capacity test
\* and the push are two critical sections: only the producer pushes.
THEOREM QueueBounded == Spec => []QueueWithinCap
<1>1. TInv => QueueWithinCap
  BY DEF TInv, ProducerInv, QueueWithinCap
<1> QED BY <1>1, InitTInv, NextTInv, PTL DEF Spec

------------------------------------------------------------------------------
(* NOUNIT, the live handlers and the clean verdict. *)

SInv == NounitInv /\ HandlesInv /\ CleanInv

LEMMA InitSInv == Init => SInv
  BY DEF Init, SInv, NounitInv, HandlesInv, CleanInv, Finished

LEMMA NextSInv == TInv /\ SInv /\ [Next]_vars => SInv'
<1> SUFFICES ASSUME TInv, SInv, [Next]_vars PROVE SInv'
  OBVIOUS
<1> USE DEF SInv, NounitInv, HandlesInv, CleanInv, Finished
<1> handler \in [Handler -> HandlerStates]
  BY DEF TInv, TypeOK
<1>1. CASE ProducerStep
  <2>1. done => done' /\ queue' = queue
    BY <1>1 DEF ProducerStep, SeeSpace, Push, StoreDone, TInv, ProducerInv
  <2>2. UNCHANGED <<handlerVars, acceptVars>>
    BY <1>1 DEF ProducerStep, SeeSpace, Push, StoreDone
  <2> QED BY <2>1, <2>2 DEF handlerVars, acceptVars
<1>2. ASSUME NEW h \in Handler, HandlerStep(h) PROVE SInv'
  <2>1. /\ UNCHANGED <<producerVars, acceptVars>>
        /\ \A g \in Handler \ {h} : handler'[g] = handler[g]
        /\ handler'[h] = "nounit" => done
        /\ handler'[h] # "absent"
        /\ handler[h] \notin {"absent", "nounit", "closed"}
        /\ queue = <<>> => queue' = <<>>
    BY <1>2 DEF HandlerStep, StartUnits, Reject, PopUnit, PopNone, SendNounit,
                PollAgain, SendFails, FinishUnit, AbandonUnit, Move
  <2> QED BY <2>1 DEF producerVars, acceptVars
<1>3. ASSUME NEW h \in Handler, Accept(h) PROVE SInv'
  BY <1>3 DEF Accept, Move, producerVars
<1>4. CASE NoConnection
  BY <1>4 DEF NoConnection, producerVars, handlerVars
<1>5. CASE AcceptError
  BY <1>5 DEF AcceptError, producerVars, handlerVars
<1>6. CASE ReapAndCheck
  <2>1. /\ UNCHANGED <<queue, producerVars, handlerVars>>
        /\ handles' = {h \in handles : ~Finished(h)}
        /\ stop' = Verdict(handles')
        /\ acceptor' = IF stop' = "none" THEN "accept" ELSE "join"
    BY <1>6 DEF ReapAndCheck
  <2>2. stop' = "clean" => handles' = {} /\ done /\ queue = <<>>
    BY <2>1 DEF Verdict
  <2>3. \A h \in Handler : handler[h] = "absent" \/ Finished(h) \/ h \in handles'
    BY <2>1
  <2> QED BY <2>1, <2>2, <2>3 DEF producerVars, handlerVars
<1>7. CASE JoinThreads
  BY <1>7 DEF JoinThreads, producerVars, handlerVars
<1>8. CASE UNCHANGED vars
  BY <1>8 DEF vars, producerVars, handlerVars, acceptVars
<1> QED
  BY <1>1, <1>2, <1>3, <1>4, <1>5, <1>6, <1>7, <1>8 DEF Next, AcceptLoop

\* No stream is told NOUNIT while the walk still has units to push.
THEOREM NounitIsTimely == Spec => []NounitMeansAllProduced
<1>1. TInv /\ SInv => NounitMeansAllProduced
  BY DEF TInv, ProducerInv, SInv, NounitInv, NounitMeansAllProduced
<1> QED BY <1>1, InitTInv, NextTInv, InitSInv, NextSInv, PTL DEF Spec

------------------------------------------------------------------------------
(* Conservation of units. *)

LEMMA InitConserved == Init => UnitsConserved
<1> SUFFICES ASSUME Init PROVE UnitsConserved
  OBVIOUS
<1>0. queue = <<>> /\ Len(queue) = 0 /\ produced = 0
  BY DEF Init
<1>1. Len(queue) = 0 /\ Popped = 0
  BY <1>0, 0 - 0 = 0 DEF Popped
<1>2. Serving = {} /\ Held = {}
  BY DEF Init, Serving, Held
<1>3. 1..Popped = {}
  BY <1>1
<1> QED BY <1>1, <1>2, <1>3 DEF Init, UnitsConserved, QueueInOrder

\* A step that leaves the queue and every serving handler alone.
LEMMA FrameConserved ==
    ASSUME UnitsConserved, UNCHANGED <<queue, produced, served, lost>>,
           Serving' = Serving, \A h \in Serving : holding'[h] = holding[h]
    PROVE  UnitsConserved'
<1>1. Held' = Held /\ Popped' = Popped
  BY DEF Held, Popped
<1> QED BY <1>1 DEF UnitsConserved, QueueInOrder

LEMMA PushConserved == TInv /\ UnitsConserved /\ Push => UnitsConserved'
<1> SUFFICES ASSUME TInv, UnitsConserved, Push PROVE UnitsConserved'
  OBVIOUS
<1>1. /\ produced \in Nat /\ produced + 1 \in Units
      /\ queue \in Seq(Units) /\ Len(queue) \in Nat /\ Len(queue) <= produced
      /\ queue' = Append(queue, produced + 1)
      /\ produced' = produced + 1
      /\ UNCHANGED handlerVars
  BY ConstantsAssumption, PushPop DEF Push, TInv, TypeOK, ProducerInv, Units
<1>2. /\ Len(queue') = Len(queue) + 1
      /\ \A i \in 1..Len(queue) : queue'[i] = queue[i]
      /\ queue'[Len(queue) + 1] = produced + 1
  BY <1>1, PushPop
<1>3. Popped' = Popped /\ Popped \in Nat
  BY <1>1, <1>2 DEF Popped
<1>4. QueueInOrder'
  <2>1. \A i \in 1..Len(queue) : queue[i] = Popped + i
    BY DEF UnitsConserved, QueueInOrder
  <2>2. queue'[Len(queue) + 1] = Popped + (Len(queue) + 1)
    BY <1>1, <1>2 DEF Popped
  <2> QED BY <1>1, <1>2, <1>3, <2>1, <2>2 DEF QueueInOrder
<1>5. Serving' = Serving /\ Held' = Held
  BY <1>1 DEF handlerVars, Serving, Held
<1> QED BY <1>1, <1>3, <1>4, <1>5 DEF UnitsConserved, handlerVars

LEMMA PopConserved ==
    ASSUME NEW h \in Handler, TInv, UnitsConserved, PopUnit(h)
    PROVE  UnitsConserved'
<1>1. /\ produced \in Nat /\ queue \in Seq(Units) /\ queue # <<>>
      /\ Len(queue) \in Nat /\ Len(queue) <= produced
      /\ handler \in [Handler -> HandlerStates]
      /\ holding \in [Handler -> 0..NUnits]
  BY PushPop DEF PopUnit, TInv, TypeOK, ProducerInv
<1>2. /\ Len(queue) >= 1
      /\ Len(queue') = Len(queue) - 1
      /\ \A i \in 1..(Len(queue) - 1) : queue'[i] = queue[i + 1]
      /\ Head(queue) = queue[1]
  BY <1>1, PushPop DEF PopUnit
<1>3. Popped \in Nat /\ Popped' = Popped + 1
  BY <1>1, <1>2 DEF Popped, PopUnit, producerVars
<1>4. \A i \in 1..Len(queue) : queue[i] = Popped + i
  BY DEF UnitsConserved, QueueInOrder
<1>5. Head(queue) = Popped + 1
  BY <1>1, <1>2, <1>3, <1>4
<1>6. QueueInOrder'
  <2> SUFFICES ASSUME NEW i \in 1..Len(queue') PROVE queue'[i] = Popped' + i
    BY DEF QueueInOrder
  <2>1. i \in 1..(Len(queue) - 1) /\ i + 1 \in 1..Len(queue)
    BY <1>1, <1>2
  <2> QED BY <1>2, <1>3, <1>4, <2>1
<1>7. /\ Serving' = Serving \union {h} /\ h \notin Serving
      /\ holding'[h] = Popped + 1
      /\ \A g \in Serving : holding'[g] = holding[g]
      /\ UNCHANGED <<served, lost>>
  BY <1>1, <1>5 DEF PopUnit, Move, Serving
<1>8. Held' = Held \union {Popped + 1}
  BY <1>7 DEF Held
<1>9. served \union lost \union Held = 1..Popped
  BY DEF UnitsConserved
<1>10. 1..(Popped + 1) = (1..Popped) \union {Popped + 1} /\ Popped + 1 \notin 1..Popped
  BY <1>3
<1>11. Popped + 1 \notin served \union lost \union Held
  BY <1>9, <1>10
<1>12. served' \union lost' \union Held' = 1..Popped'
  BY <1>3, <1>7, <1>8, <1>9, <1>10
<1>13. \A g \in Serving : holding[g] \in Held
  BY DEF Held
<1>14. \A g \in Serving' : holding'[g] \notin served' \union lost'
  BY <1>7, <1>11 DEF UnitsConserved
<1>15. \A f, g \in Serving' : holding'[f] = holding'[g] => f = g
  BY <1>7, <1>11, <1>13 DEF UnitsConserved
<1> QED BY <1>6, <1>7, <1>12, <1>14, <1>15 DEF UnitsConserved

\* A handler lets its unit go: FinishUnit and AbandonUnit alike.
LEMMA ReleaseConserved ==
    ASSUME NEW h \in Handler, TInv, UnitsConserved,
           FinishUnit(h) \/ AbandonUnit(h)
    PROVE  UnitsConserved'
<1>1. /\ handler \in [Handler -> HandlerStates]
      /\ holding \in [Handler -> 0..NUnits]
  BY DEF TInv, TypeOK
<1>2. /\ h \in Serving /\ Serving' = Serving \ {h}
      /\ \A g \in Serving' : holding'[g] = holding[g]
      /\ UNCHANGED <<queue, produced>>
      /\ served' \union lost' = served \union lost \union {holding[h]}
      /\ \/ served' = served \union {holding[h]} /\ lost' = lost
         \/ lost' = lost \union {holding[h]} /\ served' = served
  BY <1>1 DEF FinishUnit, AbandonUnit, Move, Serving, producerVars
<1>3. Held = Held' \union {holding[h]}
  BY <1>2 DEF Held
<1>4. Popped' = Popped /\ QueueInOrder'
  BY <1>2 DEF Popped, UnitsConserved, QueueInOrder
<1>5. served' \union lost' \union Held' = 1..Popped'
  BY <1>2, <1>3, <1>4 DEF UnitsConserved
<1>6. holding[h] \notin served \union lost
  BY <1>2 DEF UnitsConserved
<1>7. served' \intersect lost' = {}
  BY <1>2, <1>6 DEF UnitsConserved
<1>8. \A g \in Serving' : holding'[g] \notin served' \union lost'
  BY <1>2 DEF UnitsConserved
<1>9. \A f, g \in Serving' : holding'[f] = holding'[g] => f = g
  BY <1>2 DEF UnitsConserved
<1> QED BY <1>4, <1>5, <1>7, <1>8, <1>9 DEF UnitsConserved

LEMMA NextConserved == TInv /\ UnitsConserved /\ [Next]_vars => UnitsConserved'
<1> SUFFICES ASSUME TInv, UnitsConserved, [Next]_vars PROVE UnitsConserved'
  OBVIOUS
<1>0. handler \in [Handler -> HandlerStates]
  BY DEF TInv, TypeOK
<1>1. CASE ProducerStep
  <2>1. CASE Push
    BY <2>1, PushConserved
  <2>2. CASE SeeSpace \/ StoreDone
    BY <2>2, FrameConserved DEF SeeSpace, StoreDone, handlerVars, Serving
  <2> QED BY <1>1, <2>1, <2>2 DEF ProducerStep
<1>2. ASSUME NEW h \in Handler, HandlerStep(h) PROVE UnitsConserved'
  <2>1. CASE PopUnit(h)
    BY <2>1, PopConserved
  <2>2. CASE FinishUnit(h) \/ AbandonUnit(h)
    BY <2>2, ReleaseConserved
  <2>3. CASE \/ StartUnits(h) \/ Reject(h) \/ PopNone(h)
             \/ SendNounit(h) \/ PollAgain(h) \/ SendFails(h)
    <3>1. /\ UNCHANGED <<queue, produced, holding, served, lost>>
          /\ Serving' = Serving
      BY <1>0, <2>3 DEF StartUnits, Reject, PopNone, SendNounit, PollAgain,
                        SendFails, Move, Serving, producerVars
    <3> QED BY <3>1, FrameConserved
  <2> QED BY <1>2, <2>1, <2>2, <2>3 DEF HandlerStep
<1>3. CASE AcceptLoop
  <2>1. /\ UNCHANGED <<queue, produced, holding, served, lost>>
        /\ Serving' = Serving
    BY <1>0, <1>3 DEF AcceptLoop, Accept, NoConnection, AcceptError, ReapAndCheck,
                      JoinThreads, Move, Serving, producerVars, handlerVars
  <2> QED BY <2>1, FrameConserved
<1>4. CASE UNCHANGED vars
  BY <1>4, FrameConserved DEF vars, producerVars, handlerVars, Serving
<1> QED BY <1>1, <1>2, <1>3, <1>4 DEF Next

\* Whatever the interleaving, each unit pushed is in the queue, with one
\* handler, served, or lost, and in no two of these places.
THEOREM Conservation == Spec => []UnitsConserved
<1> QED BY InitTInv, NextTInv, InitConserved, NextConserved, PTL DEF Spec

\* A clean stop leaves no unit behind.
THEOREM CleanStopDrains == Spec => []CleanStopMeansDrained
<1>1. TInv /\ SInv /\ UnitsConserved => CleanStopMeansDrained
  <2> SUFFICES ASSUME TInv, SInv, UnitsConserved, stop = "clean"
               PROVE  served \union lost = Units
    BY DEF CleanStopMeansDrained
  <2>1. produced = NUnits /\ Len(queue) = 0
    BY DEF TInv, ProducerInv, SInv, CleanInv
  <2>2. Popped = NUnits
    BY <2>1, ConstantsAssumption DEF Popped
  <2>3. Serving = {} /\ Held = {}
    BY DEF SInv, CleanInv, Finished, Serving, Held
  <2> QED BY <2>2, <2>3 DEF UnitsConserved, Units
<1> QED
  BY <1>1, InitTInv, NextTInv, InitSInv, NextSInv, InitConserved, NextConserved, PTL
  DEF Spec

------------------------------------------------------------------------------
(* The refinement of WorkPool. *)

LEMMA InitRefines == Init => Pool!Init
<1> SUFFICES ASSUME Init PROVE Pool!Init
  OBVIOUS
<1>0. queue = <<>> /\ Len(queue) = 0 /\ produced = 0
  BY DEF Init
<1>1. Popped = 0
  BY <1>0, 0 - 0 = 0 DEF Popped
<1>3. 1..Popped = {}
  BY <1>1
<1>2. Serving = {}
  BY DEF Init, Serving
<1> QED BY <1>2, <1>3 DEF Init, Pool!Init

\* The pairs WorkPool calls taken.
Pairs == {<<h, holding[h]>> : h \in Serving}

\* A step that leaves all the abstract variables see alone.
LEMMA FrameRefines ==
    ASSUME UNCHANGED <<served, lost>>, Popped' = Popped,
           Serving' = Serving, \A h \in Serving : holding'[h] = holding[h]
    PROVE  UNCHANGED Pool!pvars
<1>1. Pairs' = Pairs
  BY DEF Pairs
<1> QED BY <1>1 DEF Pool!pvars, Pairs

LEMMA PopRefines ==
    ASSUME NEW h \in Handler, TInv, UnitsConserved, PopUnit(h)
    PROVE  Pool!Take(h, Popped + 1) /\ Popped + 1 \in Units
<1>1. /\ produced \in 0..NUnits /\ queue \in Seq(Units) /\ queue # <<>>
      /\ Len(queue) \in Nat /\ Len(queue) <= produced
      /\ handler \in [Handler -> HandlerStates]
      /\ holding \in [Handler -> 0..NUnits]
  BY PushPop DEF PopUnit, TInv, TypeOK, ProducerInv
<1>2. /\ Len(queue) >= 1 /\ Len(queue') = Len(queue) - 1 /\ Head(queue) = queue[1]
  BY <1>1, PushPop DEF PopUnit
<1>3. Popped \in Nat /\ Popped' = Popped + 1 /\ Popped + 1 \in Units
  BY <1>1, <1>2, ConstantsAssumption DEF Popped, PopUnit, producerVars, Units
<1>4. Head(queue) = Popped + 1
  BY <1>1, <1>2, <1>3 DEF UnitsConserved, QueueInOrder
<1>5. /\ Serving' = Serving \union {h} /\ h \notin Serving
      /\ holding'[h] = Popped + 1
      /\ \A g \in Serving : holding'[g] = holding[g]
      /\ UNCHANGED <<served, lost>>
  BY <1>1, <1>4 DEF PopUnit, Move, Serving
<1>6. Pairs' = Pairs \union {<<h, Popped + 1>>}
  BY <1>5 DEF Pairs
<1>7. Units \ (1..Popped') = (Units \ (1..Popped)) \ {Popped + 1}
  BY <1>3
<1>8. Popped + 1 \in Units \ (1..Popped)
  BY <1>3
<1>9. \A p \in Pairs : p[1] # h
  BY <1>5 DEF Pairs
<1> QED BY <1>3, <1>5, <1>6, <1>7, <1>8, <1>9 DEF Pool!Take, Pairs

LEMMA ReleaseRefines ==
    ASSUME NEW h \in Handler, TInv, UnitsConserved
    PROVE  /\ FinishUnit(h) => Pool!Finish(h, holding[h]) /\ holding[h] \in Units
           /\ AbandonUnit(h) => Pool!Waste(h, holding[h]) /\ holding[h] \in Units
<1>1. /\ handler \in [Handler -> HandlerStates]
      /\ holding \in [Handler -> 0..NUnits]
  BY DEF TInv, TypeOK
<1>2. ASSUME FinishUnit(h) \/ AbandonUnit(h)
      PROVE  /\ Pairs' = Pairs \ {<<h, holding[h]>>}
             /\ <<h, holding[h]>> \in Pairs
             /\ holding[h] \in Units
             /\ Popped' = Popped
  <2>1. /\ h \in Serving /\ Serving' = Serving \ {h}
        /\ \A g \in Serving' : holding'[g] = holding[g]
        /\ UNCHANGED <<queue, produced>>
    BY <1>1, <1>2 DEF FinishUnit, AbandonUnit, Move, Serving, producerVars
  <2>2. holding[h] \in Units
    BY <2>1 DEF TInv, HoldingInv, Serving
  <2> QED BY <2>1, <2>2 DEF Pairs, Popped
<1>3. ASSUME FinishUnit(h) PROVE Pool!Finish(h, holding[h])
  BY <1>2, <1>3 DEF FinishUnit, Pool!Finish, Pairs
<1>4. ASSUME AbandonUnit(h) PROVE Pool!Waste(h, holding[h])
  BY <1>2, <1>4 DEF AbandonUnit, Pool!Waste, Pairs
<1> QED BY <1>2, <1>3, <1>4

LEMMA NextRefines ==
    TInv /\ UnitsConserved /\ [Next]_vars => [Pool!Next]_(Pool!pvars)
<1> SUFFICES ASSUME TInv, UnitsConserved, [Next]_vars
             PROVE  [Pool!Next]_(Pool!pvars)
  OBVIOUS
<1>0. handler \in [Handler -> HandlerStates]
  BY DEF TInv, TypeOK
<1>1. CASE ProducerStep
  <2>1. Popped' = Popped
    <3>1. CASE Push
      <4>1. /\ produced \in Nat /\ produced + 1 \in Units
            /\ queue \in Seq(Units) /\ Len(queue) \in Nat
        BY <3>1, ConstantsAssumption, PushPop
        DEF Push, TInv, TypeOK, ProducerInv, Units
      <4>2. Len(queue') = Len(queue) + 1
        BY <3>1, <4>1, PushPop DEF Push
      <4> QED BY <3>1, <4>1, <4>2 DEF Push, Popped
    <3>2. CASE SeeSpace \/ StoreDone
      BY <3>2 DEF SeeSpace, StoreDone, Popped
    <3> QED BY <1>1, <3>1, <3>2 DEF ProducerStep
  <2>2. UNCHANGED handlerVars
    BY <1>1 DEF ProducerStep, SeeSpace, Push, StoreDone
  <2> QED BY <2>1, <2>2, FrameRefines DEF handlerVars, Serving
<1>2. ASSUME NEW h \in Handler, HandlerStep(h) PROVE [Pool!Next]_(Pool!pvars)
  <2>1. CASE PopUnit(h)
    <3>1. Pool!Take(h, Popped + 1) /\ Popped + 1 \in Units
      BY <2>1, PopRefines
    <3>2. \E u \in Units : Pool!Take(h, u)
      BY <3>1, Zenon DEF Pool!Take
    <3> QED BY <3>2, Zenon DEF Pool!Next
  <2>2. CASE FinishUnit(h) \/ AbandonUnit(h)
    <3>1. /\ holding[h] \in Units
          /\ Pool!Finish(h, holding[h]) \/ Pool!Waste(h, holding[h])
      BY <2>2, ReleaseRefines
    <3>2. \E u \in Units : Pool!Finish(h, u) \/ Pool!Waste(h, u)
      BY <3>1, Zenon DEF Pool!Finish, Pool!Waste
    <3> QED BY <3>2, Zenon DEF Pool!Next
  <2>3. CASE \/ StartUnits(h) \/ Reject(h) \/ PopNone(h)
             \/ SendNounit(h) \/ PollAgain(h) \/ SendFails(h)
    <3>1. /\ UNCHANGED <<queue, produced, holding, served, lost>>
          /\ Serving' = Serving
      BY <1>0, <2>3 DEF StartUnits, Reject, PopNone, SendNounit, PollAgain,
                        SendFails, Move, Serving, producerVars
    <3> QED BY <3>1, FrameRefines DEF Popped
  <2> QED BY <1>2, <2>1, <2>2, <2>3 DEF HandlerStep
<1>3. CASE AcceptLoop
  <2>1. /\ UNCHANGED <<queue, produced, holding, served, lost>>
        /\ Serving' = Serving
    BY <1>0, <1>3 DEF AcceptLoop, Accept, NoConnection, AcceptError, ReapAndCheck,
                      JoinThreads, Move, Serving, producerVars, handlerVars
  <2> QED BY <2>1, FrameRefines DEF Popped
<1>4. CASE UNCHANGED vars
  BY <1>4, FrameRefines DEF vars, producerVars, handlerVars, Serving, Popped
<1> QED BY <1>1, <1>2, <1>3, <1>4 DEF Next

\* Producer, queue, flag and handlers together hand out each unit of the walk
\* to one stream, once: they implement the abstract pool.
THEOREM RefinesWorkPool == Spec => ImplementsWorkPool
<1> QED
  BY InitRefines, NextRefines, InitTInv, NextTInv, InitConserved, NextConserved, PTL
  DEF Spec, ImplementsWorkPool, Pool!Spec
==============================================================================
