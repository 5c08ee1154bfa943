-------------------------- MODULE ClientConnection --------------------------
(***************************************************************************)
(* The connection state machine of qrpc's ClientConnection                 *)
(* (src/rpc/connection.cc): connect with retry on an idle timer, a connect *)
(* watchdog, the heartbeat, the socket's libevent registration and the     *)
(* upload switch the channel drives.  One timer_ serves the idle, watch    *)
(* and heartbeat purposes in turn (has_timer_); its libevent event is     *)
(* modelled by Timer.tla and fires only while pending.  A connection that fails *)
(* on a connected socket is deleted by its ChannelImpl and replaced by a   *)
(* new one (ChannelImpl::RecvFail / SendFail).                             *)
(*                                                                         *)
(* The module gives the connection's state and its own handlers; the      *)
(* channel creates, drives and deletes it, so it is checked as part of     *)
(* ClientStack, which composes it with Channel.                            *)
(***************************************************************************)
EXTENDS Naturals

CONSTANTS
    Heartbeat,  \* options.heartbeat_interval # 0
    MaxBeats    \* heartbeat ticks over a run

ASSUME Heartbeat \in BOOLEAN /\ MaxBeats \in Nat

T == INSTANCE Timer

\* How a Connect() attempt ends: an error before or at connect() (resolve,
\* socket, socket options, a refused connect), connect() returning 0, or
\* EINPROGRESS.
Outcomes == {"fail", "now", "inprogress"}

\* The purposes of timer_, and the socket's event_ registration: none,
\* EV_WRITE one-shot while connecting, EV_READ or EV_READ|EV_WRITE
\* persistent once connected.
Timers == {"none", "idle", "watch", "heartbeat"}
Events == {"none", "w", "r", "rw"}

VARIABLES
    connected,   \* connected_
    connecting,  \* connecting_
    timer,       \* the purpose timer_ is armed for ("none": has_timer_ false)
    tev,         \* timer_ itself: its libevent event and bound handler
    ev,          \* event_ as registered with libevent
    beats        \* heartbeat ticks so far (Keepalive calls into the channel)

vars == <<connected, connecting, timer, tev, ev, beats>>

TypeOK ==
    /\ connected \in BOOLEAN /\ connecting \in BOOLEAN
    /\ timer \in Timers /\ tev \in T!TimerRec(Timers) /\ ev \in Events
    /\ beats \in 0..MaxBeats

-----------------------------------------------------------------------------
(* The connection as a record.                                             *)

Snap == [connected |-> connected, connecting |-> connecting, timer |-> timer,
         tev |-> tev, ev |-> ev, beats |-> beats]

Commit(S) ==
    /\ connected' = S.connected /\ connecting' = S.connecting
    /\ timer' = S.timer /\ tev' = S.tev /\ ev' = S.ev /\ beats' = S.beats

\* NewIdle, NewWatcher, NewHeartbeat: has_timer_ = true, then Set timer_
\* to the handler (retry_interval, connect_timeout, heartbeat_interval)
\* and SchedOneshot.
NewTimer(S, h) == [S EXCEPT !.timer = h, !.tev = T!Arm(@, h)]
NewIdle(S) == NewTimer(S, "idle")

\* A DelTimer that clears has_timer_ without cancelling the event.
DelTimerKeepingEvent(S) ==
    IF S.timer = "none" THEN S ELSE [S EXCEPT !.timer = "none"]

\* DelTimer (DelIdle, DelWatcher, DelHeartbeat): SchedCancel if armed.
DelTimer(S) ==
    IF S.timer = "none" THEN S
    ELSE [S EXCEPT !.timer = "none", !.tev = T!SchedCancel(@)]

\* The heartbeat, started by Connected when heartbeat_interval is set.
Heartbeats(S) == IF Heartbeat THEN NewTimer(S, "heartbeat") ELSE S

\* A Connected that registers the socket for EV_READ only.
ConnectedReadOnly(S) ==
    Heartbeats([S EXCEPT !.connecting = FALSE, !.connected = TRUE, !.ev = "r"])

\* Connected: register EV_READ|EV_WRITE and start the heartbeat if enabled.
Connected(S) ==
    Heartbeats([S EXCEPT !.connecting = FALSE, !.connected = TRUE, !.ev = "rw"])

\* Connecting: register EV_WRITE for the connect result and arm the
\* connect watchdog (NewWatcher).
Connecting(S) ==
    NewTimer([S EXCEPT !.connecting = TRUE, !.ev = "w"], "watch")

\* Connect: every failure closes the socket and arms the idle timer.
Connect(S, outcome) ==
    CASE outcome = "fail"       -> NewIdle(S)
      [] outcome = "now"        -> Connected(S)
      [] outcome = "inprogress" -> Connecting(S)

\* A HandleConnectingEvent whose failure path forgets NewIdle.
ConnectingFailedNoRetry(S) == [S EXCEPT !.connecting = FALSE]

\* HandleConnectingEvent, failure path: close the socket and retry later.
ConnectingFailed(S) == NewIdle([S EXCEPT !.connecting = FALSE])

\* A HandleWatchEvent that closes the socket without event_del.
WatchExpiredKeepingEvent(S, outcome) ==
    Connect([S EXCEPT !.connecting = FALSE], outcome)

\* HandleWatchEvent: connect timed out; event_del, close, has_timer_ =
\* false, Connect again.
WatchExpired(S, outcome) ==
    Connect([S EXCEPT !.ev = "none", !.connecting = FALSE], outcome)

\* ~ClientConnection: DelTimer, then event_del and close if a socket is
\* open; timer_ goes with the object.
Destroyed(S) ==
    LET D == DelTimer(S)
    IN [D EXCEPT !.connected = FALSE, !.connecting = FALSE, !.ev = "none",
                 !.tev = T!Destroy(@)]

\* The ClientConnection constructor: a fresh timer_, then Connect.
Created(S, outcome) == Connect([S EXCEPT !.tev = T!Renew(@)], outcome)

\* ~ClientConnection followed by a new ClientConnection (ChannelImpl's
\* RecvFail/SendFail).
Replaced(S, outcome) == Created(Destroyed(S), outcome)

-----------------------------------------------------------------------------
(* Actions                                                                 *)

\* timer_'s event is pending with handler h bound: libevent will run it.
Pending(h) == tev.pending /\ tev.handle = h

\* The callback libevent runs for timer_, up to the handler's first line,
\* has_timer_ = false.
Expired(S) == [S EXCEPT !.timer = "none", !.tev = T!Expire(@)]

\* HandleIdleEvent: the retry timer fires.
IdleFire(outcome) ==
    /\ Pending("idle")
    /\ Commit(Connect(Expired(Snap), outcome))

\* HandleConnectingEvent: EV_WRITE fires on the connecting socket (the
\* one-shot event is no longer pending); DelWatcher, then SO_ERROR decides.
ConnectingEvent(ok) ==
    /\ connecting /\ ev = "w"
    /\ LET S == [DelTimer(Snap) EXCEPT !.ev = "none"]
       IN Commit(IF ok THEN Connected(S) ELSE ConnectingFailed(S))

\* HandleWatchEvent: connect_timeout elapses first.
WatchFire(outcome) ==
    /\ Pending("watch")
    /\ Commit(WatchExpired(Expired(Snap), outcome))

\* The connected socket fails; the channel replaces the connection.
Fail(outcome) ==
    /\ connected
    /\ Commit(Replaced(Snap, outcome))

-----------------------------------------------------------------------------
(* Properties                                                              *)

\* timer_ is always armed for exactly the state the connection is in: the
\* idle retry while neither connecting nor connected, the watchdog while
\* connecting, the heartbeat while connected (if enabled).  So every New*
\* finds has_timer_ false (their asserts), and a connection that is not up
\* always has a timer that will move it on.
TimerDiscipline ==
    /\ ~(connected /\ connecting)
    /\ (timer = "idle") <=> (~connected /\ ~connecting)
    /\ (timer = "watch") <=> connecting
    /\ (timer = "heartbeat") <=> (connected /\ Heartbeat)

\* has_timer_ is true exactly while timer_'s libevent event is pending,
\* and the pending event runs the handler the state names.
TimerEventMatches ==
    /\ tev.pending <=> timer # "none"
    /\ tev.pending => tev.handle = timer

\* event_ is registered exactly while a socket is open: EV_WRITE one-shot
\* while connecting, a persistent read event once connected, nothing for a
\* closed socket (no event on a closed or reused descriptor).
EventMatchesSocket ==
    /\ connecting <=> ev = "w"
    /\ connected <=> ev \in {"r", "rw"}

=============================================================================
