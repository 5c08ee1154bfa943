------------------------------- MODULE MCServer -------------------------------
(* Model values for Server.                                                *)
EXTENDS Server
====
