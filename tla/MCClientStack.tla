---------------------------- MODULE MCClientStack ----------------------------
(* Model values for ClientStack: two calls, two transport faults, one      *)
(* heartbeat tick over a run.                                              *)
EXTENDS ClientStack

MCMaxCalls == 2
MCMaxFaults == 2
MCMaxBeats == 1
=============================================================================
