---------------------------- MODULE MCCliClient ----------------------------
(* The kinds of failure of the run.                                       *)
EXTENDS CliClient

MCClientFaults ==
  {"ca", "ping", "lookup", "expires", "store", "timeout", "deadline", "outcome",
   "publish", "stop", "crash"}
=============================================================================
