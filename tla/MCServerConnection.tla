------------------------- MODULE MCServerConnection -------------------------
(* Model values for ServerConnection: three requests on one connection,    *)
(* enough for a response in flight, one queued behind it and one still     *)
(* being handled or cancelled.                                             *)
EXTENDS ServerConnection

MCMaxReqs == 3
=============================================================================
