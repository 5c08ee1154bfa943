----------------------------- MODULE ClientStack -----------------------------
(***************************************************************************)
(* The client side of qrpc put together: a ChannelImpl (Channel.tla) and  *)
(* the ClientConnection it owns (ClientConnection.tla).  Channel.tla sees  *)
(* its connection only as conn_ none / not connected / connected and      *)
(* whether EV_WRITE is armed; here those two are no longer variables but   *)
(* the real connection's state: conn_ is non-NULL, connected_, and the     *)
(* event_ registration.  Every step is a handler of one of the two:        *)
(*   - a channel handler that leaves the connection alone, or switches     *)
(*     upload through ClientConnection::EnableUpload / DisableUpload;      *)
(*   - Open, Close, RecvFail and SendFail, which create or delete the      *)
(*     connection inside the channel handler;                              *)
(*   - the connection's timers and its connect event, which the channel    *)
(*     does not hear about.                                                *)
(***************************************************************************)
EXTENDS Naturals, Sequences

CONSTANTS MaxCalls, MaxFaults, Heartbeat, ReentrantCancel, RetryOnFailure,
          MaxBeats

VARIABLES
    sequence, sendq, recvq, cur, msgs, peer, hasStatus, faults,  \* channel
    hasConn,                                     \* ChannelImpl::conn_ # NULL
    connected, connecting, timer, tev, ev, beats \* *conn_

ccvars == <<connected, connecting, timer, tev, ev, beats>>
vars == <<sequence, sendq, recvq, cur, msgs, peer, hasStatus, faults,
          hasConn, connected, connecting, timer, tev, ev, beats>>

\* What the channel's model calls conn and want.
ConnView == IF ~hasConn THEN "none" ELSE IF connected THEN "up" ELSE "down"

Ch == INSTANCE Channel WITH conn <- ConnView, want <- (ev = "rw")
CC == INSTANCE ClientConnection

\* The connection's fields as the constructor sets them before Connect()
\* (timer_ is renewed by CC!Created).
Closed == [connected |-> FALSE, connecting |-> FALSE, timer |-> "none",
           tev |-> tev, ev |-> "none", beats |-> beats]

\* A channel handler's result with the connection's part read from the
\* connection's new state.
Sync(R) == [R EXCEPT !.conn = ConnView', !.want = (ev' = "rw")]

\* The registrations a channel handler may leave behind through
\* EnableUpload / DisableUpload: both are no-ops unless connected_.
Uploads == IF connected THEN {"r", "rw"} ELSE {ev}

\* A channel handler that touches the connection only through the upload
\* switch; Channel.tla's want' fixes which registration it leaves.
ChannelOnly(A) ==
    /\ UNCHANGED <<hasConn, connected, connecting, timer, tev, beats>>
    /\ ev' \in Uploads
    /\ A

TypeOK == Ch!TypeOK /\ CC!TypeOK /\ hasConn \in BOOLEAN

-----------------------------------------------------------------------------
(* Actions                                                                 *)

Init ==
    /\ hasConn = FALSE
    /\ connected = FALSE /\ connecting = FALSE /\ timer = "none"
    /\ tev = CC!T!NewTimer /\ ev = "none" /\ beats = 0
    /\ Ch!Init

\* ChannelImpl::Open: new ClientConnection, whose constructor runs Connect.
Open(o) ==
    /\ ~hasConn
    /\ hasConn' = TRUE
    /\ CC!Commit(CC!Created(Closed, o))
    /\ Ch!Commit(Sync(Ch!Snap))

\* ChannelImpl::Close: CancelAllRpc(true), then ~ClientConnection.
Close ==
    /\ hasConn' = FALSE
    /\ CC!Commit(CC!Destroyed(CC!Snap))
    /\ Ch!Close

\* A connected socket fails, on EV_READ (Connection::OnRecv) or EV_WRITE
\* (Connection::OnSend after k whole frames): the channel's RecvFail /
\* SendFail deletes the connection and creates a new one.
RecvFail(o) ==
    /\ faults < MaxFaults
    /\ CC!Fail(o) /\ UNCHANGED hasConn
    /\ Ch!Commit(Sync(Ch!Fault(Ch!Snap)))

SendFail(k, o) ==
    /\ ev = "rw" /\ k <= Len(sendq) /\ faults < MaxFaults
    /\ CC!Fail(o) /\ UNCHANGED hasConn
    /\ Ch!Commit(Sync(Ch!OnSend(Ch!Snap, k, "error")))

\* EV_WRITE on the connected socket, ending without an error: the
\* connection's SendNext and SendDone hand each frame over to the channel.
Write(k, end) == ChannelOnly(Ch!Write(k, end))

\* The connection's timers and connect event: the channel sees the
\* connection come up (ClientConnection::Connected) or nothing.
ConnStep(A) == A /\ UNCHANGED hasConn /\ Ch!Commit(Sync(Ch!Snap))

\* HandleHeartbeatEvent: ChannelImpl::Keepalive, which may issue a status
\* call and EnableUpload, then NewHeartbeat.
HeartbeatFire ==
    /\ CC!Pending("heartbeat") /\ beats < MaxBeats /\ sequence < MaxCalls
    /\ beats' = beats + 1
    /\ LET S == CC!NewTimer(CC!Expired(CC!Snap), "heartbeat")
       IN timer' = S.timer /\ tev' = S.tev
    /\ UNCHANGED <<hasConn, connected, connecting>>
    /\ ev' \in Uploads
    /\ Ch!Commit(Ch!Keepalive(Ch!Snap))

Next ==
    \/ \E o \in CC!Outcomes :
          \/ Open(o) \/ RecvFail(o)
          \/ ConnStep(CC!IdleFire(o)) \/ ConnStep(CC!WatchFire(o))
          \/ \E k \in 0..MaxCalls : SendFail(k, o)
    \/ \E ok \in BOOLEAN : ConnStep(CC!ConnectingEvent(ok))
    \/ Close \/ HeartbeatFire
    \/ ChannelOnly(Ch!Cancel) \/ ChannelOnly(Ch!UserCall)
    \/ \E m \in Ch!Seqs : ChannelOnly(Ch!UserCancel(m))
                          \/ ChannelOnly(Ch!Timeout(m))
    \/ \E k \in 0..MaxCalls, end \in {"again", "nothing"} : Write(k, end)
    \/ \E s \in Ch!Seqs, reply \in Ch!Replies :
          ChannelOnly(Ch!Receive(s, reply))

Spec == Init /\ [][Next]_vars

\* Timers expire, a connection attempt that is made again and again
\* eventually succeeds (the server is reachable), a call's timeout
\* fires, and a connected socket eventually accepts a whole frame.
Fairness ==
    /\ WF_vars(\E o \in CC!Outcomes : ConnStep(CC!IdleFire(o)))
    /\ WF_vars(\E o \in CC!Outcomes : ConnStep(CC!WatchFire(o)))
    /\ SF_vars(ConnStep(CC!IdleFire("now")) \/ ConnStep(CC!IdleFire("inprogress")))
    /\ SF_vars(ConnStep(CC!ConnectingEvent(TRUE)))
    /\ \A m \in Ch!Seqs : WF_vars(ChannelOnly(Ch!Timeout(m)))
    /\ WF_vars(\E k \in 1..MaxCalls, end \in {"again", "nothing"} : Write(k, end))

FairSpec == Spec /\ Fairness

-----------------------------------------------------------------------------
(* Properties                                                              *)

\* The connection's timer and socket registration always match its state:
\* while conn_ exists, timer_ is armed for the idle retry, the connect
\* watchdog or the heartbeat exactly as connected_ / connecting_ say, and
\* event_ is registered exactly for an open socket; a deleted connection
\* has left no timer and no event behind (~ClientConnection's DelTimer and
\* event_del), even when deleted while connecting or waiting to retry.
ConnDiscipline ==
    IF hasConn THEN CC!TimerDiscipline /\ CC!EventMatchesSocket
    ELSE ~connected /\ ~connecting /\ timer = "none" /\ ev = "none"

\* timer_ is never misused, across reconnects, heartbeats and replaced
\* connections: no SchedOneshot on a running timer, no expiry into the
\* default callback, no Set of a pending event and no Timer freed while
\* pending; and while conn_ exists, has_timer_ tells exactly whether its
\* event is pending and for which handler.
TimerSafe ==
    /\ tev.fault = "none"
    /\ hasConn => CC!TimerEventMatches
    /\ ~hasConn => ~tev.pending

\* With the real connection in place, a connected socket with requests
\* queued has EV_WRITE registered: after Open, a reconnect, a replace by
\* RecvFail/SendFail that connects at once, or a write that drained the
\* queue followed by a new call.
StackWriteArmed == Ch!WriteArmed

\* ClientConnection, driven by ChannelImpl, is the connection Channel.tla
\* assumes: created down or up, every step up arms EV_WRITE, EV_WRITE is
\* only armed while connected, and a connection that is down comes up.
Link == INSTANCE ClientLink WITH link <- ConnView, armed <- (ev = "rw")

LinkRefined == Link!LinkSpec

\* Every call a user makes is eventually released, across reconnects.
StackCallsReleased == Ch!CallsEventuallyReleased

=============================================================================
