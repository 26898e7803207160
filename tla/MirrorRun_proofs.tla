--------------------------- MODULE MirrorRun_proofs ---------------------------
(***************************************************************************)
(* What follows from the promise of a mirror run alone, for every set of   *)
(* files: so it holds of whatever keeps the promise.                       *)
(***************************************************************************)
EXTENDS MirrorRun, TLAPS

\* As long as no stream failed, each file offered is good, owed or may be skipped;
\* and a run is done when nothing is owed.
Accounted ==
    /\ seen \subseteq File /\ copy = [f \in File |-> copy[f]]
    /\ phase \in {"running", "done"} =>
           \A f \in seen \ MaySkip : copy[f] = "good" \/ f \in owed
    /\ phase = "done" => owed = {}

LEMMA AccountedInit == Init => Accounted
  BY DEF Init, Accounted

LEMMA AccountedStep == Accounted /\ [Next]_mvars => Accounted'
<1> SUFFICES ASSUME Accounted, [Next]_mvars PROVE Accounted'
  OBVIOUS
<1>1. CASE Begin \/ NextPass \/ LoseReport \/ UNCHANGED mvars
  BY <1>1 DEF Begin, NextPass, LoseReport, mvars, Accounted
<1>2. ASSUME NEW files \in SUBSET File, NEW asked \in SUBSET files, Offer(files, asked)
      PROVE  Accounted'
  BY <1>2 DEF Offer, Active, Accounted
<1>3. ASSUME NEW got \in SUBSET owed, NEW left \in SUBSET owed, Receive(got, left)
      PROVE  Accounted'
  BY <1>3 DEF Receive, Active, Write, Accounted
<1>4. ASSUME NEW got, NEW cut, NEW left, Fail(got, cut, left)
      PROVE  Accounted'
  BY <1>4 DEF Fail, Accounted
<1>5. ASSUME NEW pruned \in SUBSET (File \ seen), Finish(pruned)
      PROVE  Accounted'
  BY <1>5 DEF Finish, Write, Accounted
<1> QED BY <1>1, <1>2, <1>3, <1>4, <1>5 DEF Next

\* A run that is done has a good copy of every file it was offered in its last pass,
\* but for what may be skipped: the streams of ParallelSync and the passes of
\* ClassicSession get there in their own ways.
THEOREM PromiseHasAll == Spec => []DoneHasAll
<1>1. Accounted => DoneHasAll
  BY DEF Accounted, DoneHasAll
<1> QED BY <1>1, AccountedInit, AccountedStep, PTL DEF Spec
==============================================================================
