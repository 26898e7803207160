-------------------------- MODULE MCClassicSession --------------------------
(* A small and a large file at the source, and one the source may be without; *)
(* the server plain, one-time or with the cutover.                            *)
EXTENDS ClassicSession

CONSTANTS a, b, c

AllConfigs == { [cutover |-> FALSE, once |-> FALSE], [cutover |-> TRUE, once |-> TRUE] }
PlainOnce == { [cutover |-> FALSE, once |-> TRUE] }

Present == { [f \in File |-> IF f = c THEN 0 ELSE 1] }

\* A never-fetched, a current and a surplus file.
Copies == { [f \in File |-> IF f = a THEN "absent" ELSE IF f = b THEN "same" ELSE "other"] }
==============================================================================
