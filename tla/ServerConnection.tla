-------------------------- MODULE ServerConnection --------------------------
(***************************************************************************)
(* One server-side connection of qrpc (ServerConnection in                *)
(* src/rpc/connection.cc) on its worker thread, with the ServerMessage and *)
(* ServerController of each request it receives (src/rpc/message.cc and    *)
(* src/rpc/controller_server.h), and the part of the Worker that owns and  *)
(* deletes it (HandleLink, Unlink, ExitWorker in src/rpc/worker.cc).       *)
(*                                                                         *)
(* The peer is a client that sends request frames in sequence order and,   *)
(* when PeerCancels, any number of cancel frames for them.  The service   *)
(* handler of a request completes at any later point on the worker thread  *)
(* (ServerMessage::OnRpcDone insists on that thread), and may register a   *)
(* NotifyOnCancel callback while it runs.                                  *)
(***************************************************************************)
EXTENDS Naturals, Sequences, FiniteSets, SequencesExt

CONSTANTS
    MaxReqs,      \* request frames the peer sends (sequences 1..MaxReqs)
    PeerCancels,  \* the peer sends cancel frames (meta.cancel)
    WorkerStops   \* the worker thread is stopped (Thread exit, ExitWorker)

ASSUME /\ MaxReqs \in Nat \ {0}
       /\ PeerCancels \in BOOLEAN
       /\ WorkerStops \in BOOLEAN

Reqs == 1..MaxReqs
NULL == 0

SendEnds == {"again", "nothing", "error"}

\* A ServerMessage: "none" before its frame arrives, "handling" while in
\* recvq_ (the service runs it), "queued" in sendq_ (response ready),
\* "freed" once deleted.  cancel is ServerController::cancel_, cb the
\* NotifyOnCancel closure_ ("set" while registered, "ran" once run) and
\* runs how many times that callback has run.
MsgRec == [st : {"none", "handling", "queued", "freed"}, cancel : BOOLEAN,
           cb : {"none", "set", "ran"}, runs : 0..2]

\* ServerController::ServerController: cancel_ false, closure_ NULL (its
\* destructor asserts closure_ is NULL again).
NewController == [cancel |-> FALSE, cb |-> "none"]

\* ServerMessage::ServerMessage, which constructs its controller_.
Fresh == [st |-> "none", cancel |-> NewController.cancel,
          cb |-> NewController.cb, runs |-> 0]

VARIABLES
    connected,  \* connected_
    timer,      \* has_timer_ (the keepalive timer is armed)
    linked,     \* the connection is in the worker's clients_ (not deleted)
    recvq,      \* recvq_, sequence numbers
    sendq,      \* sendq_
    cur,        \* cur_send_ (NULL when no response frame is in flight)
    want,       \* EV_WRITE is in the event mask
    msgs,       \* per sequence number: ServerMessage and ServerController
    nreq,       \* request frames received so far
    rejected,   \* a request frame was rejected by RecvDone
    exiting,    \* the worker thread left its loop and runs ExitWorker
    fault       \* "none", or how the worker thread crashed

vars == <<connected, timer, linked, recvq, sendq, cur, want, msgs, nreq,
          rejected, exiting, fault>>

TypeOK ==
    /\ connected \in BOOLEAN /\ timer \in BOOLEAN /\ linked \in BOOLEAN
    /\ recvq \in Seq(Reqs) /\ sendq \in Seq(Reqs)
    /\ Len(recvq) + Len(sendq) <= MaxReqs
    /\ cur \in Reqs \cup {NULL}
    /\ want \in BOOLEAN
    /\ msgs \in [Reqs -> MsgRec]
    /\ nreq \in 0..MaxReqs
    /\ rejected \in BOOLEAN /\ exiting \in BOOLEAN
    /\ fault \in {"none", "null_deref", "assert"}

-----------------------------------------------------------------------------
(* The connection as a record, and writing a record back.                  *)

Snap == [connected |-> connected, timer |-> timer, linked |-> linked,
         recvq |-> recvq, sendq |-> sendq, cur |-> cur, want |-> want,
         msgs |-> msgs, nreq |-> nreq, rejected |-> rejected,
         exiting |-> exiting, fault |-> fault]

Commit(S) ==
    /\ connected' = S.connected /\ timer' = S.timer /\ linked' = S.linked
    /\ recvq' = S.recvq /\ sendq' = S.sendq /\ cur' = S.cur
    /\ want' = S.want /\ msgs' = S.msgs /\ nreq' = S.nreq
    /\ rejected' = S.rejected /\ exiting' = S.exiting /\ fault' = S.fault

-----------------------------------------------------------------------------
(* ServerController and ServerMessage                                      *)

\* Run the registered NotifyOnCancel closure and clear closure_.
RunCallback(S, m) ==
    IF S.msgs[m].cb = "set"
    THEN [S EXCEPT !.msgs[m].cb = "ran", !.msgs[m].runs = @ + 1]
    ELSE S

\* ServerController::FinishRequest: nothing once cancelled, else run the
\* NotifyOnCancel closure (protobuf runs it after completion too).
FinishRequest(S, m) ==
    IF S.msgs[m].cancel THEN S ELSE RunCallback(S, m)

\* ServerMessage::FinishMethod followed by delete.
FinishAndFree(S, m) == [FinishRequest(S, m) EXCEPT !.msgs[m].st = "freed"]

\* ServerController::CancelRequest (via ServerMessage::CancelMethod):
\* assert(cancel_ == false), set cancel_ and run the closure.  The set of
\* outcomes: a second cancel of a request aborts a build with assertions,
\* and is without effect in one built with NDEBUG (closure_ is NULL).
CancelRequest(S, m) ==
    IF S.msgs[m].cancel THEN {[S EXCEPT !.fault = "assert"], S}
    ELSE {RunCallback([S EXCEPT !.msgs[m].cancel = TRUE], m)}

-----------------------------------------------------------------------------
(* ServerConnection                                                        *)

\* A CloseConnection that keeps cur_send_.
CloseConnectionKeepingCur(S) ==
    IF ~S.connected THEN S
    ELSE LET t == FoldLeft(FinishAndFree, S, S.sendq)
         IN [t EXCEPT !.timer = FALSE, !.connected = FALSE, !.want = FALSE,
                      !.sendq = <<>>]

\* A CloseConnection that deletes queued responses without FinishMethod.
CloseConnectionSilently(S) ==
    IF ~S.connected THEN S
    ELSE [S EXCEPT !.msgs = [m \in Reqs |-> IF Contains(S.sendq, m)
                                            THEN [@[m] EXCEPT !.st = "freed"]
                                            ELSE @[m]],
                   !.timer = FALSE, !.connected = FALSE, !.want = FALSE,
                   !.sendq = <<>>, !.cur = NULL]

\* CloseConnection: once only; delete the keepalive timer and the socket
\* event, finish and delete every queued response, drop cur_send_.  The
\* requests still in recvq_ are left to their handlers.
CloseConnection(S) ==
    IF ~S.connected THEN S
    ELSE LET t == FoldLeft(FinishAndFree, S, S.sendq)
         IN [t EXCEPT !.timer = FALSE, !.connected = FALSE, !.want = FALSE,
                      !.sendq = <<>>, !.cur = NULL]

\* A ReleaseConnection that unlinks whatever recvq_ holds.
ReleaseConnectionAlways(S) == [S EXCEPT !.linked = FALSE]

\* ReleaseConnection: while handlers still hold requests the connection
\* stays as a tombstone; otherwise Worker::Unlink erases and deletes it.
ReleaseConnection(S) ==
    IF S.recvq # <<>> THEN S ELSE [S EXCEPT !.linked = FALSE]

\* ServerConnection::Close, also run by HandleTimerKeepalive, SendFail and
\* RecvFail.
Close(S) == ReleaseConnection(CloseConnection(S))

\* An OnRpcResponse that queues the response without enabling EV_WRITE.
OnRpcResponseNoWake(S, m) ==
    LET t == [S EXCEPT !.recvq = Remove(@, m)]
    IN IF ~t.connected
       THEN ReleaseConnection(FinishAndFree(t, m))
       ELSE [t EXCEPT !.sendq = Append(@, m), !.msgs[m].st = "queued"]

\* An OnRpcResponse that never releases a closed connection.
OnRpcResponseNoRelease(S, m) ==
    LET t == [S EXCEPT !.recvq = Remove(@, m)]
    IN IF ~t.connected
       THEN FinishAndFree(t, m)
       ELSE [t EXCEPT !.want = IF t.sendq = <<>> THEN TRUE ELSE @,
                      !.sendq = Append(@, m),
                      !.msgs[m].st = "queued"]

\* An OnRpcResponse that forgets to erase the request from recvq_.
OnRpcResponseKeepingRecvq(S, m) ==
    IF ~S.connected
    THEN ReleaseConnection(FinishAndFree(S, m))
    ELSE [S EXCEPT !.want = IF S.sendq = <<>> THEN TRUE ELSE @,
                   !.sendq = Append(@, m),
                   !.msgs[m].st = "queued"]

\* OnRpcResponse (from ServerMessage::OnRpcDone via Send): erase from
\* recvq_; on a closed connection finish, delete and try to release;
\* otherwise enable EV_WRITE if sendq_ was empty and queue the response.
OnRpcResponse(S, m) ==
    LET t == [S EXCEPT !.recvq = Remove(@, m)]
    IN IF ~t.connected
       THEN ReleaseConnection(FinishAndFree(t, m))
       ELSE [t EXCEPT !.want = IF t.sendq = <<>> THEN TRUE ELSE @,
                      !.sendq = Append(@, m),
                      !.msgs[m].st = "queued"]

\* OnRpcFinish (from SendDone): erase from sendq_, finish, delete, re-arm
\* the keepalive timer; SendDone then clears cur_send_.
OnRpcFinish(S, m) ==
    [FinishAndFree([S EXCEPT !.sendq = Remove(@, m)], m)
        EXCEPT !.timer = TRUE, !.cur = NULL]

\* One whole response frame written: SendNext takes the head of sendq_
\* unless a frame is in flight, then SendDone.
WriteFrame(S) ==
    OnRpcFinish(S, IF S.cur = NULL THEN Head(S.sendq) ELSE S.cur)

RECURSIVE WriteFrames(_, _)
WriteFrames(S, k) == IF k = 0 THEN S ELSE WriteFrames(WriteFrame(S), k - 1)

\* Connection::OnSend: k frames complete, then the socket blocks inside
\* the next one (SendNext made it cur_send_), or SendNext finds sendq_
\* empty and EV_WRITE is disabled, or send() fails and SendFail closes.
OnSend(S, k, end) ==
    LET t == WriteFrames(S, k)
    IN CASE end = "again"   -> [t EXCEPT !.cur = Head(t.sendq)]
         [] end = "nothing" -> [t EXCEPT !.want = FALSE]
         [] end = "error"   -> Close(t)

\* OnRpcCancel: compare with cur_send_ (dereferenced without a NULL check),
\* then look in sendq_, then in recvq_; a cancel for anything else is a
\* delayed cancel and is ignored.  The set of outcomes.
OnRpcCancel(S, m) ==
    IF S.cur = NULL THEN {[S EXCEPT !.fault = "null_deref"]}
    ELSE IF S.cur = m THEN {S}
    ELSE IF Contains(S.sendq, m) \/ Contains(S.recvq, m)
    THEN CancelRequest(S, m)
    ELSE {S}

\* Whether a request frame parses: ServerMessage::ParseFromArray looks the
\* service up in the ServerImpl's registry (ServerImpl::Find), the method
\* in its descriptor, creates request and response from their prototypes
\* and parses the body; an unknown service or method, or a body that does
\* not parse, is false.  The peer decides which, so either may happen.
RequestParses == BOOLEAN

\* ServerConnection::RecvDone for a request frame: a request that parses
\* (known service and method, valid body) is queued in recvq_ and handed
\* to the service, and the keepalive timer is re-armed; one that does not
\* is deleted and RecvDone returns false, which Connection::OnRecv ignores.
RecvDone(S, ok) ==
    LET m == S.nreq + 1
        t == [S EXCEPT !.nreq = m]
    IN IF ok THEN [t EXCEPT !.recvq = Append(@, m), !.msgs[m].st = "handling",
                            !.timer = TRUE]
       ELSE [t EXCEPT !.rejected = TRUE]

-----------------------------------------------------------------------------
(* Actions                                                                 *)

\* Worker::HandleLink: a new connection, registered for EV_READ, with its
\* keepalive timer armed.
Init ==
    /\ connected = TRUE /\ timer = TRUE /\ linked = TRUE
    /\ recvq = <<>> /\ sendq = <<>> /\ cur = NULL /\ want = FALSE
    /\ msgs = [m \in Reqs |-> Fresh]
    /\ nreq = 0 /\ rejected = FALSE /\ exiting = FALSE /\ fault = "none"

\* The worker's event loop dispatches events for this connection.
Serving == linked /\ ~exiting /\ fault = "none"

\* EV_READ: a request frame.
RecvRequest(ok) ==
    /\ Serving /\ connected /\ nreq < MaxReqs
    /\ Commit(RecvDone(Snap, ok))

\* EV_READ: a cancel frame for a request sent earlier.
RecvCancel(m) ==
    /\ Serving /\ connected /\ PeerCancels
    /\ m <= nreq
    /\ \E R \in OnRpcCancel(Snap, m) : Commit(R)

\* EV_READ: recv() returns 0 or fails; RecvFail.
RecvFail ==
    /\ Serving /\ connected
    /\ Commit(Close(Snap))

\* EV_WRITE.
Write(k, end) ==
    /\ Serving /\ connected /\ want
    /\ k <= Len(sendq)
    /\ end = "again"   => Len(sendq) > k
    /\ end = "nothing" => Len(sendq) = k
    /\ Commit(OnSend(Snap, k, end))

\* HandleTimerKeepalive: the connection was idle for keep_alive_time.
KeepaliveExpire ==
    /\ Serving /\ timer
    /\ Commit(Close([Snap EXCEPT !.timer = FALSE]))

\* The handler of request m calls ServerController::NotifyOnCancel: the
\* callback runs at once if already cancelled, else it is registered.
NotifyOnCancel(m) ==
    /\ Serving /\ msgs[m].st = "handling" /\ msgs[m].cb = "none"
    /\ Commit(IF msgs[m].cancel THEN [Snap EXCEPT !.msgs[m].cb = "ran",
                                                  !.msgs[m].runs = @ + 1]
              ELSE [Snap EXCEPT !.msgs[m].cb = "set"])

\* The handler of request m runs done: ServerMessage::OnRpcDone.
HandlerDone(m) ==
    /\ Serving /\ msgs[m].st = "handling"
    /\ Commit(OnRpcResponse(Snap, m))

\* The worker thread is told to quit; its loop ends and ExitWorker runs.
StopWorker ==
    /\ WorkerStops /\ ~exiting /\ fault = "none"
    /\ exiting' = TRUE
    /\ UNCHANGED <<connected, timer, linked, recvq, sendq, cur, want, msgs,
                   nreq, rejected, fault>>

\* One turn of ExitWorker's "while (!clients_.empty()) Close()" loop.
ExitStep ==
    /\ exiting /\ linked
    /\ Commit(Close(Snap))

Next ==
    \/ \E ok \in RequestParses : RecvRequest(ok)
    \/ \E m \in Reqs : RecvCancel(m) \/ NotifyOnCancel(m) \/ HandlerDone(m)
    \/ RecvFail \/ KeepaliveExpire \/ StopWorker \/ ExitStep
    \/ \E k \in 0..MaxReqs, end \in SendEnds : Write(k, end)

\* At least one whole response frame leaves the socket.
SendProgress == \E k \in 1..MaxReqs, end \in SendEnds : Write(k, end)

\* Handlers eventually run done, timers fire, a writable socket drains,
\* and the ExitWorker loop keeps turning.
Fairness ==
    /\ \A m \in Reqs : WF_vars(HandlerDone(m))
    /\ WF_vars(KeepaliveExpire)
    /\ WF_vars(SendProgress)
    /\ WF_vars(ExitStep)

Spec == Init /\ [][Next]_vars
FairSpec == Spec /\ Fairness

-----------------------------------------------------------------------------
(* Properties                                                              *)

Queued(q) == {q[i] : i \in DOMAIN q}

\* recvq_ holds exactly the requests whose handler has not run done and
\* sendq_ exactly the responses not yet written, each once (OnRpcResponse
\* and OnRpcFinish LOG(FATAL) on a missing entry); cur_send_ is the head
\* of sendq_; a closed connection has no responses, no frame in flight,
\* no keepalive timer and no socket events.
ServerQueueDiscipline ==
    /\ Queued(recvq) = {m \in Reqs : msgs[m].st = "handling"}
    /\ Queued(sendq) = {m \in Reqs : msgs[m].st = "queued"}
    /\ Len(recvq) = Cardinality(Queued(recvq))
    /\ Len(sendq) = Cardinality(Queued(sendq))
    /\ cur # NULL => sendq # <<>> /\ Head(sendq) = cur
    /\ ~connected => sendq = <<>> /\ cur = NULL /\ ~timer /\ ~want

\* The connection is deleted (Worker::Unlink) only when no handler still
\* holds one of its requests, whose done-closure calls conn_->Send(): a
\* closed connection lingers as a tombstone until its requests return.
NoDanglingConnection ==
    ~linked => \A m \in Reqs : msgs[m].st # "handling"

\* A response queued on a connected socket has EV_WRITE armed, so it is
\* eventually written (OnRpcResponse enables it when sendq_ was empty).
ServerWriteArmed == (connected /\ sendq # <<>>) => want

\* A NotifyOnCancel callback runs at most once, and has run by the time
\* its request is deleted, whether it was cancelled, answered, or dropped
\* by a close (FinishRequest / CancelRequest clear closure_).
CancelCallbackOnce ==
    \A m \in Reqs :
        /\ msgs[m].runs <= 1
        /\ (msgs[m].st = "freed" /\ msgs[m].cb # "none") => msgs[m].runs = 1

\* A cancel frame from the peer, also a repeated one, is handled without
\* crashing the worker (spec: the server locates the request and cancels
\* it, idempotently).
CancelFrameSafe == fault = "none"

\* Every connection is eventually deleted: the keepalive timer closes an
\* idle one, and a tombstone goes once its handlers have run done.  A
\* worker that is shutting down or has crashed is excused here: those two
\* paths are ExitWorkerTerminates's and CancelFrameSafe's concern.
ConnectionReleased == <>(~linked \/ exiting \/ fault # "none")

\* Once the worker thread runs ExitWorker, its loop over clients_ ends.
ExitWorkerTerminates == exiting ~> ~linked

=============================================================================
