--------------------------- MODULE MCParallelServe ---------------------------
(* Two connections, a walk of four units and a queue of two: the queue fills,  *)
(* drains and refills, and both streams compete for the last unit.  The client *)
(* of h2 may stop reading for good.                                            *)
EXTENDS ParallelServe
==============================================================================
