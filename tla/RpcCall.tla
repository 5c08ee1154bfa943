------------------------------ MODULE RpcCall ------------------------------
(***************************************************************************)
(* What a ChannelImpl promises the caller of one RPC, as Channel.tla       *)
(* models it, with the queues, the connection and the timer left out.      *)
(*                                                                         *)
(* A call is issued by CallMethod and is then pending.  It completes       *)
(* once: the user's closure runs and sees an outcome.  The outcome is      *)
(* either what the server answered or kErrCancel/kErrTimeout.  A response  *)
(* buffer is filled only by an answer that carries one, and only while     *)
(* the call is pending.  The ClientMessage is deleted in the same step as  *)
(* the completion, or later when a frame in flight finishes; it is never   *)
(* deleted before its closure has run.  Every pending call eventually      *)
(* completes and every completed call is eventually deleted.  A call      *)
(* issued by a closure during Cancel or Close may be cancelled at once.   *)
(***************************************************************************)

VARIABLES phase, outcome, answered

cvars == <<phase, outcome, answered>>

\* What the server may answer: a response, an error code in the reply's
\* meta, or data that does not parse.  Only "remote" carries no response.
Answers == {"ok", "remote", "malformed"}

\* The codes a call ends with when nobody answered it.
Aborts == {"cancel", "timeout"}

\* Before CallMethod: no ClientMessage, no outcome, an untouched buffer.
CallInit == phase = "idle" /\ outcome = "none" /\ answered = FALSE

\* ChannelImpl::CallMethod allocates the ClientMessage.
Issue ==
    /\ phase = "idle" /\ phase' = "pending"
    /\ UNCHANGED <<outcome, answered>>

\* ChannelImpl::RecvDone: the answer is parsed into the controller and
\* the response, the closure runs and the message is deleted.
Reply(a) ==
    /\ phase = "pending" /\ phase' = "released"
    /\ outcome' = a /\ answered' = (a # "remote")

\* StartCancel, OnRpcTimeout, Cancel or Close: the code is set and the
\* closure runs; the message is deleted now, or later by SendDone when
\* its frame is in flight.
Abort(a) ==
    /\ phase = "pending" /\ phase' \in {"completed", "released"}
    /\ outcome' = a /\ UNCHANGED answered

\* A call that a closure issues while ChannelImpl::CancelAllRpc walks the
\* send queue is appended to that queue and cancelled by the same walk:
\* it is issued, completed with kErrCancel and deleted in one step.
IssueCancelled ==
    /\ phase = "idle" /\ phase' = "released"
    /\ outcome' = "cancel" /\ UNCHANGED answered

\* SendDone (or a fault, or Close) deletes a completed message.
Release ==
    /\ phase = "completed" /\ phase' = "released"
    /\ UNCHANGED <<outcome, answered>>

CallNext ==
    \/ Issue \/ IssueCancelled \/ Release
    \/ \E a \in Answers : Reply(a)
    \/ \E a \in Aborts : Abort(a)

\* A step of the call, or a step that leaves it alone.
CallStep == [CallNext]_cvars

\* A pending call is eventually completed (its rpc_timeout fires if
\* nothing else ends it) and a completed one eventually deleted.
CallFair ==
    /\ WF_cvars(\E a \in Aborts : Abort(a))
    /\ WF_cvars(Release)

CallSpec == CallInit /\ [][CallNext]_cvars /\ CallFair

=============================================================================
