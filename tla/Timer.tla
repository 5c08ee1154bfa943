-------------------------------- MODULE Timer --------------------------------
(***************************************************************************)
(* qrpc's millisecond Timer (src/util/timer.cc) as the libevent event ev_  *)
(* it wraps: the callback event_get_callback(&ev_) returns, whether ev_ is *)
(* pending in the event base's timer heap, and the handler Set bound.  A   *)
(* Timer is a record and its methods are operators on it, for the modules  *)
(* whose objects own one (ClientConnection's timer_).                      *)
(*                                                                         *)
(* Only one-shot scheduling is modelled: SchedPersist and persist_callback *)
(* are not called anywhere in the library.  The delay tv_ is left out:     *)
(* libevent fires a pending timer some time later, whatever its length.    *)
(*                                                                         *)
(* A misuse the code turns into LOG(FATAL), or into undefined behaviour in *)
(* libevent, is kept in the record as fault:                               *)
(*   "running"  SchedOneshot on an event whose callback is not the default *)
(*              ("timer is in running state");                             *)
(*   "negative" libevent runs default_callback ("timer is in negative      *)
(*              state");                                                   *)
(*   "reinit"   Set on a pending event: evtimer_set re-initialises an ev_  *)
(*              that is still in the timer heap;                           *)
(*   "freed"    the Timer is destroyed (with its owner) while ev_ is still *)
(*              pending: libevent keeps a pointer to freed memory.         *)
(* A fault is the process's, so it outlives the Timer it happened to.     *)
(***************************************************************************)

\* event_get_callback(&ev_): default_callback or oneshot_callback.
Callbacks == {"default", "oneshot"}
Faults == {"none", "running", "negative", "reinit", "freed"}

TimerRec(Handles) ==
    [cb : Callbacks, pending : BOOLEAN, handle : Handles, fault : Faults]

\* A Timer as Timer() leaves it, before any Set: ev_ is not initialised
\* and not pending; no handler is bound ("none" must be in Handles).
NewTimer == [cb |-> "default", pending |-> FALSE, handle |-> "none",
             fault |-> "none"]

Fail(t, f) == IF t.fault = "none" THEN [t EXCEPT !.fault = f] ELSE t

\* Set: bind handle_ and evtimer_set(&ev_, default_callback).
Set(t, h) ==
    LET s == [t EXCEPT !.cb = "default", !.handle = h]
    IN IF t.pending THEN Fail(s, "reinit") ELSE s

\* SchedOneshot: only from the default callback; evtimer_add.
SchedOneshot(t) ==
    IF t.cb # "default" THEN Fail(t, "running")
    ELSE [t EXCEPT !.cb = "oneshot", !.pending = TRUE]

\* SchedCancel: evtimer_del, then back to the default callback.
SchedCancel(t) == [t EXCEPT !.cb = "default", !.pending = FALSE]

\* What libevent does before the handler when a pending one-shot ev_
\* expires: the event leaves the heap and its callback runs.
\* oneshot_callback restores the default callback, then calls handle_();
\* default_callback aborts.
Expire(t) ==
    LET s == [t EXCEPT !.pending = FALSE]
    IN IF t.cb = "default" THEN Fail(s, "negative")
       ELSE [s EXCEPT !.cb = "default"]

\* The ClientConnection / ServerConnection idiom New*: Set, then
\* SchedOneshot.
Arm(t, h) == SchedOneshot(Set(t, h))

\* ~Timer, run by the owner's destructor: nothing is deleted from libevent.
Destroy(t) == IF t.pending THEN Fail(t, "freed") ELSE t

\* The Timer of a newly constructed owner, after the old one's faults.
Renew(t) == [NewTimer EXCEPT !.fault = t.fault]

=============================================================================
