--------------------------- MODULE MCParallelSync ---------------------------
(* Two streams.  The receiver starts empty (a fresh, streamed fetch) or with  *)
(* an old file, a current one and one the source does not have.               *)
EXTENDS ParallelSync

CONSTANTS s1, s2, f1, f2, x

TwoStreams == {s1, s2}
OneRun == {1} \X TwoStreams
TwoRuns == {1, 2} \X TwoStreams

OneFileEach == << {f1}, {f2} >>
BundleAndDir == << {f1, f2}, {} >>

EmptyOrOld ==
    { [f \in {f1, f2, x} |-> "absent"],
      [f \in {f1, f2, x} |-> IF f = f2 THEN "current" ELSE "old"] }

OldCopies == { [f \in {f1, f2, x} |-> "old"] }
==============================================================================
