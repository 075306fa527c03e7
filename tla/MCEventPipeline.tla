-------------------------- MODULE MCEventPipeline --------------------------
(* The kinds of failure of the runs.                                       *)
EXTENDS EventPipeline, TLC

MCFailures ==
  {"store", "timeout", "deadline", "outcome", "remove", "visibility", "crash"}
MCStopSlow == {"store", "timeout", "deadline", "stop"}
MCStop == {"stop"}
MCRedelivery == {"visibility"}

Symmetry == Permutations(Workers)
=============================================================================
