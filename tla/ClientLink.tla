----------------------------- MODULE ClientLink -----------------------------
(***************************************************************************)
(* The connection a ChannelImpl assumes it owns (conn_), as Channel.tla   *)
(* models it: none, not connected, or connected with EV_WRITE armed or     *)
(* not.  A new connection is either connected at once or not yet; every    *)
(* transition to connected arms EV_WRITE, so requests queued while the     *)
(* channel had no connection are sent; only a connected socket has        *)
(* EV_WRITE armed; and a connection that is not up eventually comes up     *)
(* (the server is reachable).                                              *)
(***************************************************************************)

VARIABLES link, armed

lvars == <<link, armed>>

LinkInit == link = "none" /\ armed = FALSE

\* ChannelImpl::Open: new ClientConnection.
Create == link = "none" /\ link' \in {"down", "up"} /\ armed' = (link' = "up")

\* ChannelImpl::Close: delete conn_.
Destroy == link # "none" /\ link' = "none" /\ armed' = FALSE

\* The connection comes up: ClientConnection::Connected.
Up == link = "down" /\ link' = "up" /\ armed' = TRUE

\* EnableUpload / DisableUpload on a connected socket.
Toggle == link = "up" /\ UNCHANGED link /\ armed' = ~armed

\* RecvFail / SendFail: delete conn_ and create a new one.
Replace == link = "up" /\ link' \in {"down", "up"} /\ armed' = (link' = "up")

LinkNext == Create \/ Destroy \/ Up \/ Toggle \/ Replace

LinkSpec == LinkInit /\ [][LinkNext]_lvars /\ WF_lvars(Up)

=============================================================================
