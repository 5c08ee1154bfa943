----------------------------- MODULE MCChannel -----------------------------
(* Model values for Channel: three calls and two transport faults.          *)
EXTENDS Channel

MCMaxCalls == 3
MCMaxFaults == 2
=============================================================================
