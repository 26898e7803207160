------------------------------ MODULE MirrorRun ------------------------------
(***************************************************************************)
(* What a transfer promises about the receiver's files, over one stream or *)
(* many: a run records every file it is offered, asks for each whose copy  *)
(* is not good and owes it from then on; it writes only what it owes; it   *)
(* finishes only when nothing is owed and no stream of it failed, and then *)
(* deletes only what it was not offered.  A run that fails may leave what  *)
(* it owed stale, and deletes nothing.                                     *)
(*                                                                         *)
(* No server, no connection, no lines, no threads: those are the way       *)
(* ParallelSync and ClassicSession keep the promise.                       *)
(***************************************************************************)
CONSTANTS File,
          MaySkip   \* files that may be passed over when they are asked for

VARIABLES phase,  \* "running" | "broken" (a stream failed) | "done" | "stopped"
          seen,   \* files offered in the pass under way
          owed,   \* files asked for and not received
          copy    \* the receiver's copy of each file: "absent" | "stale" | "good"

mvars == <<phase, seen, owed, copy>>

Active == phase \in {"running", "broken"}

Write(files, status) == [f \in File |-> IF f \in files THEN status ELSE copy[f]]

Init ==
    /\ phase = "running"
    /\ seen = {} /\ owed = {}
    /\ copy \in [File -> {"absent", "stale", "good"}]

Begin ==
    /\ ~Active
    /\ phase' = "running"
    /\ seen' = {} /\ owed' = {}
    /\ UNCHANGED copy

\* Every file offered is recorded, asked for or not.
Offer(files, asked) ==
    /\ Active
    /\ {f \in files : copy[f] # "good"} \subseteq asked
    /\ seen' = seen \union files
    /\ owed' = owed \union asked
    /\ UNCHANGED <<phase, copy>>

\* Some of the files owed arrive; what is no longer owed arrived, or was skipped.
Receive(got, left) ==
    /\ Active
    /\ owed \ left \subseteq got \union MaySkip
    /\ copy' = Write(got, "good")
    /\ owed' = left
    /\ UNCHANGED <<phase, seen>>

\* A stream fails, or the whole run does, in the middle of what it owes.
Fail(got, cut, left) ==
    /\ Active
    /\ phase' \in {"broken", "stopped"}
    /\ copy' = [f \in File |-> IF f \in cut THEN "stale" ELSE Write(got, "good")[f]]
    /\ owed' = left
    /\ UNCHANGED seen

\* Another pass of the same run: only what it offers will count.
NextPass ==
    /\ phase = "running" /\ owed = {}
    /\ seen' = {}
    /\ UNCHANGED <<phase, owed, copy>>

Finish(pruned) ==
    /\ phase = "running" /\ owed = {}
    /\ phase' = "done"
    /\ copy' = Write(pruned, "absent")
    /\ UNCHANGED <<seen, owed>>

\* The mirror is made but the run is reported as incomplete.
LoseReport ==
    /\ phase = "done"
    /\ phase' = "stopped"
    /\ UNCHANGED <<seen, owed, copy>>

Next ==
    \/ Begin \/ NextPass \/ LoseReport
    \/ \E files \in SUBSET File : \E asked \in SUBSET files : Offer(files, asked)
    \/ \E got \in SUBSET owed : \E left \in SUBSET owed : Receive(got, left)
    \/ \E got \in SUBSET owed : \E cut \in SUBSET owed : \E left \in SUBSET owed :
           Fail(got, cut, left)
    \/ \E pruned \in SUBSET (File \ seen) : Finish(pruned)

Spec == Init /\ [][Next]_mvars

------------------------------------------------------------------------------
(* What follows from the promise. *)

\* A run that is done holds a good copy of every file it was offered in its last
\* pass, but for those that may be skipped.
DoneHasAll == phase = "done" => \A f \in seen \ MaySkip : copy[f] = "good"
=============================================================================
