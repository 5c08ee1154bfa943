------------------------------ MODULE Channel ------------------------------
(***************************************************************************)
(* The client-side multiplexer of qrpc: ChannelImpl (src/rpc/channel_impl) *)
(* together with the ClientMessage it allocates per call                   *)
(* (src/rpc/message) and the callbacks it receives from its                *)
(* ClientConnection (src/rpc/connection): SendNext, SendDone, RecvDone,    *)
(* SendFail and RecvFail.                                                  *)
(*                                                                         *)
(* Every handler of the channel runs to completion on the channel's        *)
(* thread, and several of them loop over the queues.  They are therefore   *)
(* written as operators from a channel record to a channel record, in the  *)
(* order the code executes its statements, and each action applies one     *)
(* handler to the current state.                                           *)
(*                                                                         *)
(* A message is named by its sequence number.  The request and response    *)
(* bodies are abstracted to whether the response buffer was written; the   *)
(* controller is abstracted to its response code.                          *)
(***************************************************************************)
EXTENDS Naturals, Sequences, SequencesExt

CONSTANTS
    MaxCalls,        \* calls issued over a run (sequence numbers 1..MaxCalls)
    MaxFaults,       \* transport faults (RecvFail/SendFail) over a run
    Heartbeat,       \* options.heartbeat_interval # 0
    ReentrantCancel, \* a completion callback may call Channel::Cancel()
    RetryOnFailure   \* a user closure may re-issue its call when it failed

ASSUME /\ MaxCalls \in Nat \ {0}
       /\ MaxFaults \in Nat
       /\ Heartbeat \in BOOLEAN
       /\ ReentrantCancel \in BOOLEAN
       /\ RetryOnFailure \in BOOLEAN

Seqs == 1..MaxCalls
NULL == 0

\* Controller response codes: kOk, kErrCancel, kErrTimeout, a code sent by
\* the server (meta.code), kErrResponse.
Codes == {"ok", "cancel", "timeout", "remote", "malformed"}

\* What a response frame from the server carries: a response, an error
\* code in its meta, or data that does not parse as the response type.
Replies == {"ok", "remote", "malformed"}

\* The last step of a call to Connection::OnSend: the socket would block
\* in the middle of a frame, the send queue is drained, or send() failed.
SendEnds == {"again", "nothing", "error"}

Unused == [st |-> "unused", fin |-> FALSE, mon |-> FALSE, kind |-> "user",
           code |-> "ok", resp |-> FALSE, done |-> 0, seen |-> "none",
           retry |-> FALSE]

VARIABLES
    sequence,   \* ChannelImpl::sequence_
    sendq,      \* ChannelImpl::sendq_, sequence numbers in queue order
    recvq,      \* ChannelImpl::recvq_
    cur,        \* ChannelImpl::cur_send_ (NULL when no frame is in flight)
    msgs,       \* per sequence number: the ClientMessage and its controller
    conn,       \* conn_: "none" (NULL), "down" (not connected), "up"
    want,       \* EV_WRITE is in the connection's event mask
    peer,       \* requests the server got on this connection, not answered
    hasStatus,  \* ChannelImpl::has_status_
    faults      \* transport faults so far (bounded by MaxFaults)

vars == <<sequence, sendq, recvq, cur, msgs, conn, want, peer, hasStatus,
          faults>>

\* msgs[m].st: "unused" before CallMethod, "live" while allocated, "freed"
\* after delete.  fin is ClientMessage::finish_, mon is monitor_ (the
\* timeout timer is armed), kind tells the heartbeat's status call from a
\* user call, code is the controller's code_, resp whether the user's
\* response buffer was written, done how many times the user closure ran
\* and seen the code the closure observed when it first ran; retry says
\* that the user's closure issues the same call again when it failed.
MsgRec == [st : {"unused", "live", "freed"}, fin : BOOLEAN, mon : BOOLEAN,
           kind : {"user", "status"}, code : Codes, resp : BOOLEAN,
           done : 0..2, seen : Codes \cup {"none"}, retry : BOOLEAN]

TypeOK ==
    /\ sequence \in 0..MaxCalls
    /\ sendq \in Seq(Seqs) /\ recvq \in Seq(Seqs)
    /\ cur \in Seqs \cup {NULL}
    /\ msgs \in [Seqs -> MsgRec]
    /\ conn \in {"none", "down", "up"}
    /\ want \in BOOLEAN
    /\ peer \subseteq Seqs
    /\ hasStatus \in BOOLEAN
    /\ faults \in 0..MaxFaults

-----------------------------------------------------------------------------
(* The channel as a record, and writing a record back to the variables.    *)

Snap == [sequence |-> sequence, sendq |-> sendq, recvq |-> recvq, cur |-> cur,
         msgs |-> msgs, conn |-> conn, want |-> want, peer |-> peer,
         hasStatus |-> hasStatus, faults |-> faults]

Commit(S) ==
    /\ sequence' = S.sequence /\ sendq' = S.sendq /\ recvq' = S.recvq
    /\ cur' = S.cur /\ msgs' = S.msgs /\ conn' = S.conn /\ want' = S.want
    /\ peer' = S.peer /\ hasStatus' = S.hasStatus /\ faults' = S.faults

-----------------------------------------------------------------------------
(* ClientMessage                                                           *)

\* ClientMessage constructor (sequence, controller ownership) and
\* ChannelImpl::CallMethod: enable EV_WRITE if the send queue was empty
\* (a no-op while not connected), append, arm the timeout monitor.
CallMethod(S, kind, retry) ==
    LET m == S.sequence + 1
    IN [S EXCEPT !.sequence = m,
                 !.want = IF S.sendq = <<>> /\ S.conn = "up" THEN TRUE ELSE @,
                 !.sendq = Append(@, m),
                 !.msgs[m] = [Unused EXCEPT !.st = "live", !.mon = TRUE,
                                            !.kind = kind, !.retry = retry]]

\* delete msg: ~ClientMessage (which asserts finish_ set and monitor_ clear).
Free(S, m) == [S EXCEPT !.msgs[m].st = "freed"]

\* The user's closure, run for a call that failed (Failed(): code_ # kOk),
\* issues the same call again through its stub, with the same closure.
\* Sequence numbers beyond MaxCalls are outside the model: a retry that
\* would need one is not issued.
Reissue(S, m) ==
    IF S.msgs[m].retry /\ S.msgs[m].code # "ok" /\ S.sequence < MaxCalls
    THEN CallMethod(S, "user", TRUE)
    ELSE S

\* done_->Run(): the user closure observes the controller (and may issue
\* its call again); for the heartbeat's status call the closure is
\* ChannelImpl::OnKeepaliveDone, which clears has_status_.
RunDone(S, m) ==
    Reissue([S EXCEPT !.msgs[m].done = @ + 1,
                      !.msgs[m].seen = IF S.msgs[m].done = 0
                                       THEN S.msgs[m].code ELSE @,
                      !.hasStatus = IF S.msgs[m].kind = "status" THEN FALSE
                                    ELSE @], m)

\* A Finish without its "if (finish_) return" guard.
CompleteUnguarded(S, m) == [RunDone(S, m) EXCEPT !.msgs[m].fin = TRUE]

\* ClientMessage::Finish() when the closure does not call into the channel:
\* return if finish_ is set, run the closure, then set finish_.
Complete(S, m) ==
    IF S.msgs[m].fin THEN S
    ELSE [RunDone(S, m) EXCEPT !.msgs[m].fin = TRUE]

\* ClientMessage::DelMonitor: if monitor_ is set, clear it and cancel the
\* timeout timer.
DelMonitor(S, m) == [S EXCEPT !.msgs[m].mon = FALSE]

\* A CancelRpc that deletes the message without DelMonitor.
CancelRpcKeepingMonitor(S, m) ==
    Free(Complete([S EXCEPT !.msgs[m].code = "cancel"], m), m)

\* A CancelRpc that finishes the message without SetCancel.
CancelRpcKeepingCode(S, m) == Free(Complete(DelMonitor(S, m), m), m)

\* ChannelImpl::CancelRpc: SetCancel, DelMonitor, Finish, delete.
CancelRpc(S, m) ==
    Free(Complete(DelMonitor([S EXCEPT !.msgs[m].code = "cancel"], m), m), m)

\* CancelAllRpc's loop over sendq_ from position i: the std::list is
\* walked to its current end, so a call that a closure appends while the
\* loop runs is visited, and cancelled, too.
RECURSIVE CancelSendqFrom(_, _)
CancelSendqFrom(S, i) ==
    IF i > Len(S.sendq) THEN S
    ELSE CancelSendqFrom(CancelRpc(S, S.sendq[i]), i + 1)

\* ChannelImpl::CancelAllRpc(close): cancel the receive queue, then the
\* frame in flight (popped from the head of the send queue, freed only
\* when closing), then the rest of the send queue; a frame in flight that
\* is kept goes back into the emptied send queue.
CancelAllRpc(S, close) ==
    LET s1 == FoldLeft(CancelRpc, S, S.recvq)
        c  == s1.cur
        s2 == IF c = NULL THEN s1
              ELSE LET t == Complete(DelMonitor([s1 EXCEPT !.sendq = Tail(@),
                                                !.msgs[c].code = "cancel"], c), c)
                   IN IF close THEN [Free(t, c) EXCEPT !.cur = NULL] ELSE t
        s3 == CancelSendqFrom(s2, 1)
    IN [s3 EXCEPT !.recvq = <<>>,
                  !.sendq = IF s3.cur = NULL THEN <<>> ELSE <<s3.cur>>]

\* ClientMessage::Finish() whose closure, when reentrant is TRUE, calls
\* Channel::Cancel() before Finish sets finish_.
Finish(S, m, reentrant) ==
    IF S.msgs[m].fin THEN S
    ELSE LET ran == RunDone(S, m)
             back == IF reentrant THEN CancelAllRpc(ran, FALSE) ELSE ran
         IN [back EXCEPT !.msgs[m].fin = TRUE]

-----------------------------------------------------------------------------
(* ChannelImpl handlers                                                    *)


\* A Keepalive that only looks at the receive queue and has_status_.
KeepaliveIgnoringSendq(S) ==
    IF S.recvq # <<>> \/ S.hasStatus THEN S
    ELSE CallMethod([S EXCEPT !.hasStatus = TRUE], "status", FALSE)

\* ChannelImpl::Keepalive (from ClientConnection::HandleHeartbeatEvent):
\* skip while traffic is queued or a status call is outstanding, else
\* reset the channel's controller and issue the builtin Status call.
Keepalive(S) ==
    IF S.sendq # <<>> \/ S.recvq # <<>> \/ S.hasStatus THEN S
    ELSE CallMethod([S EXCEPT !.hasStatus = TRUE], "status", FALSE)

\* A Detach that frees a message found in the receive queue without
\* erasing it.
DetachKeepingRecvq(S, m, reentrant) ==
    IF Contains(S.recvq, m)
    THEN Free(Finish(S, m, reentrant), m)
    ELSE IF S.cur = m
    THEN Finish(S, m, reentrant)
    ELSE Free(Finish([S EXCEPT !.sendq = Remove(@, m)], m, reentrant), m)

\* The common body of ChannelImpl::StartCancel and ChannelImpl::OnRpcTimeout
\* once the code is set and the monitor is off: a message in the receive
\* queue is erased and freed; the frame in flight is finished but kept for
\* SendDone; a message in the send queue is erased and freed.
Detach(S, m, reentrant) ==
    IF Contains(S.recvq, m)
    THEN Free(Finish([S EXCEPT !.recvq = Remove(@, m)], m, reentrant), m)
    ELSE IF S.cur = m
    THEN Finish(S, m, reentrant)
    ELSE Free(Finish([S EXCEPT !.sendq = Remove(@, m)], m, reentrant), m)

\* ClientController::StartCancel -> ClientMessage::StartCancel (code
\* kErrCancel) -> ChannelImpl::StartCancel (DelMonitor, Detach).
StartCancel(S, m, reentrant) ==
    Detach(DelMonitor([S EXCEPT !.msgs[m].code = "cancel"], m), m, reentrant)

\* ClientMessage::HandleTimeout (code kErrTimeout, monitor_ = false) ->
\* ChannelImpl::OnRpcTimeout.
OnRpcTimeout(S, m, reentrant) ==
    Detach([S EXCEPT !.msgs[m].code = "timeout", !.msgs[m].mon = FALSE],
           m, reentrant)

\* ChannelImpl::RecvDone for a frame carrying sequence s: a sequence not in
\* the receive queue is a canceled call and is dropped; otherwise erase,
\* DelMonitor, ParseFromArray (error code, or the response buffer is
\* written and may fail to parse), Finish, delete.
RecvDone(S, s, reply, reentrant) ==
    LET S0 == [S EXCEPT !.peer = @ \ {s}]
    IN IF ~Contains(S0.recvq, s) THEN S0
       ELSE Free(Finish([DelMonitor([S0 EXCEPT !.recvq = Remove(@, s)], s)
                           EXCEPT !.msgs[s].code = IF reply = "ok" THEN @
                                                   ELSE reply,
                                  !.msgs[s].resp = (reply # "remote")],
                        s, reentrant), s)

\* A RecvFail that pushes the receive queue to the front of the send queue
\* walking it forwards, so that it lands reversed.
FaultForwardRetransmit(S) ==
    LET c == S.cur
        s1 == IF c # NULL /\ S.msgs[c].fin
              THEN Free([S EXCEPT !.sendq = Tail(@)], c) ELSE S
    IN [s1 EXCEPT !.cur = NULL, !.sendq = Reverse(s1.recvq) \o @,
                  !.recvq = <<>>, !.peer = {}, !.conn = "down",
                  !.want = FALSE, !.faults = @ + 1]

\* A RecvFail that deletes the frame in flight whether or not it finished.
FaultDroppingCur(S) ==
    LET c == S.cur
        s1 == IF c # NULL THEN Free([S EXCEPT !.sendq = Tail(@)], c) ELSE S
    IN [s1 EXCEPT !.cur = NULL, !.sendq = s1.recvq \o @, !.recvq = <<>>,
                  !.peer = {}, !.conn = "down", !.want = FALSE,
                  !.faults = @ + 1]

\* ChannelImpl::RecvFail and ChannelImpl::SendFail (identical): a finished
\* frame in flight is popped and freed, the connection is deleted and a new
\* one created (it starts connecting), the receive queue is put back in
\* front of the send queue in its original order.
Fault(S) ==
    LET c == S.cur
        s1 == IF c # NULL /\ S.msgs[c].fin
              THEN Free([S EXCEPT !.sendq = Tail(@)], c) ELSE S
    IN [s1 EXCEPT !.cur = NULL, !.sendq = s1.recvq \o @, !.recvq = <<>>,
                  !.peer = {}, !.conn = "down", !.want = FALSE,
                  !.faults = @ + 1]

\* A SendDone that forgets pop_front() for a finished message.
WriteFrameNoPop(S) ==
    LET c == IF S.cur = NULL THEN Head(S.sendq) ELSE S.cur
    IN [S EXCEPT !.sendq = IF S.msgs[c].fin THEN @ ELSE Tail(@),
                 !.recvq = IF S.msgs[c].fin THEN @ ELSE Append(@, c),
                 !.msgs[c].st = IF S.msgs[c].fin THEN "freed" ELSE @,
                 !.cur = NULL,
                 !.peer = @ \cup {c}]

\* A SendDone that pops a finished message but never deletes it.
WriteFrameLeaking(S) ==
    LET c == IF S.cur = NULL THEN Head(S.sendq) ELSE S.cur
    IN [S EXCEPT !.sendq = Tail(@),
                 !.recvq = IF S.msgs[c].fin THEN @ ELSE Append(@, c),
                 !.cur = NULL,
                 !.peer = @ \cup {c}]

\* One complete frame written by Connection::Send: SendNext picks the head
\* of the send queue unless a frame is already in flight, and on kSendOk
\* ChannelImpl::SendDone pops it, frees it if finished, else appends it to
\* the receive queue.  The server now holds the request.
WriteFrame(S) ==
    LET c == IF S.cur = NULL THEN Head(S.sendq) ELSE S.cur
    IN [S EXCEPT !.sendq = Tail(@),
                 !.recvq = IF S.msgs[c].fin THEN @ ELSE Append(@, c),
                 !.msgs[c].st = IF S.msgs[c].fin THEN "freed" ELSE @,
                 !.cur = NULL,
                 !.peer = @ \cup {c}]

RECURSIVE WriteFrames(_, _)
WriteFrames(S, k) == IF k = 0 THEN S ELSE WriteFrames(WriteFrame(S), k - 1)

\* Connection::OnSend on EV_WRITE: k frames complete, then the socket
\* would block inside the next frame (SendNext and Encode have run, so it
\* is in flight), or SendNext finds nothing and EV_WRITE is disabled, or
\* send() fails and the channel's SendFail runs.
OnSend(S, k, end) ==
    LET t == WriteFrames(S, k)
    IN CASE end = "again"   -> [t EXCEPT !.cur = Head(t.sendq)]
         [] end = "nothing" -> [t EXCEPT !.want = FALSE]
         [] end = "error"   -> Fault(t)

-----------------------------------------------------------------------------
(* Actions                                                                 *)

Init ==
    /\ sequence = 0
    /\ sendq = <<>> /\ recvq = <<>> /\ cur = NULL
    /\ msgs = [m \in Seqs |-> Unused]
    /\ conn = "none" /\ want = FALSE /\ peer = {}
    /\ hasStatus = FALSE /\ faults = 0

\* Whether the closure of call m calls Channel::Cancel() when it runs: a
\* user closure may when modelled so; the status call's closure is
\* ChannelImpl::OnKeepaliveDone, which does not.
Reentry(m) == IF ReentrantCancel /\ msgs[m].kind = "user" THEN BOOLEAN
              ELSE {FALSE}

\* ChannelImpl::Open: create the ClientConnection, which starts connecting.
Open ==
    /\ conn = "none"
    /\ Commit([Snap EXCEPT !.conn = "down"])

\* ChannelImpl::Close: CancelAllRpc(true) and delete the connection.
Close ==
    /\ conn # "none"
    /\ Commit([CancelAllRpc(Snap, TRUE) EXCEPT !.conn = "none",
                                               !.want = FALSE, !.peer = {}])

\* ChannelImpl::Cancel: CancelAllRpc(false).
Cancel ==
    /\ Commit(CancelAllRpc(Snap, FALSE))

\* The closures a user may pass: one that only observes the result, and,
\* when modelled so, one that issues the call again when it failed.
Retries == IF RetryOnFailure THEN BOOLEAN ELSE {FALSE}

\* A user call through a stub; the channel must have been opened.
UserCall ==
    /\ conn # "none"
    /\ sequence < MaxCalls
    /\ \E retry \in Retries : Commit(CallMethod(Snap, "user", retry))

\* The user cancels an outstanding call through its controller.
UserCancel(m) ==
    /\ msgs[m].st = "live" /\ ~msgs[m].fin /\ msgs[m].kind = "user"
    /\ \E r \in Reentry(m) : Commit(StartCancel(Snap, m, r))

\* The per-call timer (rpc_timeout) expires.
Timeout(m) ==
    /\ msgs[m].st = "live" /\ msgs[m].mon
    /\ \E r \in Reentry(m) : Commit(OnRpcTimeout(Snap, m, r))

\* ClientConnection::HandleHeartbeatEvent while connected, when it issues
\* a status call.
HeartbeatTick ==
    /\ Heartbeat /\ conn = "up"
    /\ sequence < MaxCalls
    /\ Keepalive(Snap) # Snap
    /\ Commit(Keepalive(Snap))

\* A Connected that registers the socket for EV_READ only.
ConnectedReadOnly ==
    /\ conn = "down"
    /\ Commit([Snap EXCEPT !.conn = "up"])

\* ClientConnection::Connected: the socket is connected and registered
\* for EV_READ|EV_WRITE.
Connected ==
    /\ conn = "down"
    /\ Commit([Snap EXCEPT !.conn = "up", !.want = TRUE])

\* EV_WRITE on the connected socket.
Write(k, end) ==
    /\ conn = "up" /\ want
    /\ k <= Len(sendq)
    /\ end = "again"   => Len(sendq) > k
    /\ end = "nothing" => Len(sendq) = k
    /\ end = "error"   => faults < MaxFaults
    /\ Commit(OnSend(Snap, k, end))

\* EV_READ: a response frame from the server for sequence s.
Receive(s, reply) ==
    /\ conn = "up" /\ s \in peer
    /\ \E r \in Reentry(s) : Commit(RecvDone(Snap, s, reply, r))

\* EV_READ: recv() returns 0 or an error; Connection::OnRecv fails and the
\* channel's RecvFail runs.
RecvFail ==
    /\ conn = "up" /\ faults < MaxFaults
    /\ Commit(Fault(Snap))

Next ==
    \/ Open \/ Close \/ Cancel \/ UserCall \/ HeartbeatTick \/ Connected
    \/ RecvFail
    \/ \E m \in Seqs : UserCancel(m) \/ Timeout(m)
    \/ \E k \in 0..MaxCalls, end \in SendEnds : Write(k, end)
    \/ \E s \in Seqs, reply \in Replies : Receive(s, reply)

\* A write makes progress: at least one whole frame leaves the socket.
SendProgress == \E k \in 1..MaxCalls, end \in SendEnds : Write(k, end)

\* Timers expire, a connection attempt eventually succeeds, and a
\* connected socket eventually accepts a whole frame.
Fairness ==
    /\ \A m \in Seqs : WF_vars(Timeout(m))
    /\ WF_vars(Connected)
    /\ WF_vars(SendProgress)

Spec == Init /\ [][Next]_vars
FairSpec == Spec /\ Fairness

-----------------------------------------------------------------------------
(* Properties                                                              *)

Live == {m \in Seqs : msgs[m].st = "live"}
Queued(q) == {q[i] : i \in DOMAIN q}

\* Every allocated ClientMessage is in exactly one of sendq_ and recvq_ and
\* a deleted one in neither (StartCancel and OnRpcTimeout LOG(FATAL) when a
\* message is in no queue, and a deleted one left queued is used after
\* free); only unfinished messages wait in recvq_; cur_send_ is the head of
\* sendq_ and only exists on a connected socket (SendNext's assert).
QueueDiscipline ==
    /\ Queued(sendq) \cup Queued(recvq) = Live
    /\ Queued(sendq) \cap Queued(recvq) = {}
    /\ \A i \in DOMAIN recvq : ~msgs[recvq[i]].fin
    /\ cur # NULL => /\ conn = "up" /\ sendq # <<>> /\ Head(sendq) = cur

\* Requests wait and are retransmitted in call order: RecvFail/SendFail
\* put recvq_ back in front of sendq_ with a reverse walk, so the two
\* queues together stay strictly ordered by sequence number (no call
\* overtakes an earlier one, and none is queued twice).
SendOrder == IsSorted(recvq \o sendq, <)

\* A connected socket with queued requests has EV_WRITE armed, so a call
\* issued while connecting, retransmitted after a failure, or kept in
\* flight by Cancel is eventually written (no lost wake-up between
\* CallMethod's EnableUpload, Connected and OnSend's DisableUpload).
WriteArmed == (conn = "up" /\ sendq # <<>>) => want

\* The heartbeat's Status call owns ChannelImpl::controller_, request_ and
\* response_: Keepalive never issues a second one while one is allocated,
\* and has_status_ is set exactly while one has not completed.
StatusCallExclusive ==
    LET status == {m \in Live : msgs[m].kind = "status"}
    IN /\ \A a, b \in status : a = b
       /\ hasStatus <=> \E m \in status : ~msgs[m].fin

\* The closure of every call runs exactly once: a deleted message ran it
\* once, an allocated one once if finished and not yet otherwise
\* (ClientMessage::Finish sets finish_ only after done_->Run()).
CompletedOnce ==
    \A m \in Seqs :
        /\ msgs[m].st = "freed" => msgs[m].done = 1
        /\ msgs[m].st = "live" => msgs[m].done = IF msgs[m].fin THEN 1 ELSE 0

\* No ClientMessage is deleted with its rpc_timeout timer still pending:
\* every path that deletes one (CancelRpc, CancelAllRpc on close, SendDone
\* of a finished frame, RecvDone, a fault) has run DelMonitor, or the
\* timer has fired, first.  Otherwise ~ClientMessage's assert(monitor_ ==
\* false) fails, and without assertions libevent later runs HandleTimeout
\* on the freed message.
MonitorStoppedBeforeFree ==
    \A m \in Seqs : msgs[m].st = "freed" => ~msgs[m].mon

\* Once a call's closure has run, the controller it saw is left alone: the
\* channel writes no code into the controller of a finished call (the user
\* may reuse or free it as soon as done_ runs).
ControllerStableAfterDone ==
    \A m \in Seqs : msgs[m].kind = "user" /\ msgs[m].done > 0
                        => msgs[m].code = msgs[m].seen

\* Every allocated ClientMessage is eventually deleted: finished in-flight
\* frames are freed by SendDone, waiting calls time out or are answered.
CallsEventuallyReleased ==
    \A m \in Seqs : msgs[m].st = "live" ~> msgs[m].st = "freed"

\* The state of call m as the abstract RpcCall sees it: not yet issued,
\* allocated and waiting, allocated with its closure run (a frame still in
\* flight), or deleted; the outcome is the code its closure saw.
CallPhase(m) ==
    CASE msgs[m].st = "unused" -> "idle"
      [] msgs[m].st = "freed"  -> "released"
      [] msgs[m].fin           -> "completed"
      [] OTHER                 -> "pending"

Call(m) == INSTANCE RpcCall
               WITH phase    <- CallPhase(m),
                    outcome  <- IF msgs[m].done > 0 THEN msgs[m].seen
                                ELSE "none",
                    answered <- msgs[m].resp

\* Every call, user or heartbeat, behaves as RpcCall promises: it is
\* deleted only after its closure ran; its closure sees either the
\* server's answer, parsed into the buffer in the same RecvDone, or
\* kErrCancel/kErrTimeout with the buffer untouched, and that outcome never
\* changes; and under the fairness above every call completes and is
\* deleted.  Retransmission after RecvFail/SendFail, a frame in flight
\* kept by Cancel and the heartbeat's status calls must all fit this.
\* (Call(m)!CallSpec for every m, with the steps of all calls in one box.)
CallRefined ==
    /\ \A m \in Seqs : Call(m)!CallInit
    /\ [][\A m \in Seqs : Call(m)!CallStep]_vars
    /\ \A m \in Seqs : Call(m)!CallFair


=============================================================================
