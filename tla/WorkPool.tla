------------------------------ MODULE WorkPool ------------------------------
(***************************************************************************)
(* What a parallel server promises about the units of one transfer: a      *)
(* pool of units, each of which is handed to one stream, once, and then    *)
(* either served to the end or lost with its stream.  No queue, no         *)
(* producer, no flag: those are ParallelServe's way of keeping the         *)
(* promise.                                                                *)
(***************************************************************************)
CONSTANTS Units,    \* the work units of the transfer
          Streams   \* the connections that may take them

VARIABLES pool,     \* units no stream was given yet
          taken,    \* <<stream, unit>> pairs now being served
          finished, \* units served to the end
          wasted    \* units whose stream failed while it had them

pvars == <<pool, taken, finished, wasted>>

Init ==
    /\ pool = Units
    /\ taken = {}
    /\ finished = {}
    /\ wasted = {}

\* An idle stream is given a unit nobody had before.
Take(s, u) ==
    /\ u \in pool
    /\ \A p \in taken : p[1] # s
    /\ pool' = pool \ {u}
    /\ taken' = taken \union {<<s, u>>}
    /\ UNCHANGED <<finished, wasted>>

Finish(s, u) ==
    /\ <<s, u>> \in taken
    /\ taken' = taken \ {<<s, u>>}
    /\ finished' = finished \union {u}
    /\ UNCHANGED <<pool, wasted>>

\* The stream failed; nobody else is given the unit.
Waste(s, u) ==
    /\ <<s, u>> \in taken
    /\ taken' = taken \ {<<s, u>>}
    /\ wasted' = wasted \union {u}
    /\ UNCHANGED <<pool, finished>>

Next == \E s \in Streams, u \in Units : Take(s, u) \/ Finish(s, u) \/ Waste(s, u)

Spec == Init /\ [][Next]_pvars
=============================================================================
