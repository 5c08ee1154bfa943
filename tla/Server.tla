------------------------------- MODULE Server -------------------------------
(***************************************************************************)
(* qrpc's server side above the connections: ServerImpl (server_impl.cc)  *)
(* with its worker pool, service registry and listener, the Worker         *)
(* threads (worker.cc, util/thread.cc) and their EvQueue task queues       *)
(* (util/event_queue.cc), and the Link / Listen commands (command.cc)      *)
(* that cross between threads.                                             *)
(*                                                                         *)
(* Threads: the user's thread (Main), which calls Add, Register,         *)
(* Unregister, Start, Stop and the destructor and, with a user event base, *)
(* also runs the listener; and one thread per worker, which runs its event *)
(* loop: the EvQueue's eventfd callback (OnEvent), the break event, and,   *)
(* without a user base, the listener's HandleAccept on the last worker.    *)
(* A ServerConnection is reduced to the socket it owns; its own machine is *)
(* ServerConnection.tla.                                                   *)
(***************************************************************************)
EXTENDS Integers, Sequences, FiniteSets

CONSTANTS
    NumWorkers,  \* options_.num_worker_thread
    Width,       \* bits of the int nxt_worker_ (scaled down)
    MaxThreads,  \* worker threads created over a run (each Start makes NumWorkers)
    MaxAccepts,  \* connections clients make over a run
    MaxOps       \* calls the user makes on the server over a run

\* Server::New: options_ok refuses (kErrParam) unless every buffer size,
\* keep_alive_time and num_worker_thread are positive; a NULL event base
\* only logs a warning, and the ServerImpl then has no base of its own
\* (has_base_ is false), so either is a server the program can have.
\* The init_cb and exit_cb of the default options only log.
ServerNew == NumWorkers \in Nat \ {0}

ASSUME /\ ServerNew
       /\ Width \in Nat \ {0} /\ MaxThreads >= NumWorkers
       /\ MaxAccepts \in Nat /\ MaxOps \in Nat

Endpoints == {"ep"}
Svcs == {"builtin", "echo"}
Workers == 1..MaxThreads
\* Thread 0 is the user's thread, the one that created the server (tid_).
Main == 0
Threads == {Main} \cup Workers
Socks == 1..MaxAccepts
Tasks == [kind : {"link"}, sock : Socks] \cup [kind : {"listen"}, on : BOOLEAN]

VARIABLES
    hasBase,    \* has_base_: Server::New was given the user's event base
    state,      \* state_: "Init", "Run", "Exit"
    endpoints,  \* endpoints_
    services,   \* services_ / ownership_: "none", "owned", "borrowed"
    freed,      \* how often each service object has been deleted
    owned,      \* how many service objects the server was given to own
    workers,    \* workers_: worker ids in creation order
    thr,        \* each worker thread: "none", "idle" in event_base_loop,
                \* "drain" in OnEvent's loop, "exit" once the loop broke, "done",
                \* "spin" in ExitWorker's loop on a connection it cannot remove
    queue,      \* EvQueue::queue_
    efd,        \* the EvQueue's eventfd is readable
    brk,        \* the Thread's break eventfd is readable
    quit,       \* EvQueue::quit_
    clients,    \* Worker::clients_, by the open socket each connection owns
    held,       \* connections whose recvq_ holds a request a handler runs
    wr,         \* per thread: the worker whose eventfd Push still has to write
    main,       \* the user's thread: "user", "startWait", "stopWait",
                \* "delworker", "gone" (deleted), "crashed"
    op,         \* "stop" (Stop) or "delete" (~ServerImpl) in progress
    ji,         \* DelWorker's loop index
    work,       \* the Listen command's Completion has been signalled
    listening,  \* listens_ is non-empty
    lbase,      \* the thread whose event base the listeners are on (base_)
    backlog,    \* connections waiting in the listen backlog
    conns,      \* connections clients have made
    accepted,   \* sockets accepted so far, numbered 1..accepted
    nxt,        \* nxt_worker_
    closed,     \* accepted sockets that have been closed
    ops         \* user calls so far

vars == <<hasBase, state, endpoints, services, freed, owned, workers, thr, queue, efd,
          brk, quit, clients, held, wr, main, op, ji, work, listening, lbase,
          backlog, conns, accepted, nxt, closed, ops>>

TypeOK ==
    /\ hasBase \in BOOLEAN
    /\ state \in {"Init", "Run", "Exit"} /\ endpoints \subseteq Endpoints
    /\ services \in [Svcs -> {"none", "owned", "borrowed"}]
    /\ freed \in [Svcs -> Nat] /\ owned \in [Svcs -> Nat]
    /\ workers \in Seq(Workers)
    /\ thr \in [Workers -> {"none", "idle", "drain", "exit", "done", "spin"}]
    /\ queue \in [Workers -> Seq(Tasks)]
    /\ efd \in [Workers -> BOOLEAN] /\ brk \in [Workers -> BOOLEAN]
    /\ quit \in [Workers -> BOOLEAN] /\ clients \in [Workers -> SUBSET Socks]
    /\ held \subseteq Socks
    /\ wr \in [Threads -> Workers \cup {0}]
    /\ main \in {"user", "startWait", "stopWait", "delworker", "gone", "crashed"}
    /\ op \in {"stop", "delete"} /\ ji \in Nat /\ work \in BOOLEAN
    /\ listening \in BOOLEAN /\ lbase \in Threads
    /\ backlog \in 0..MaxAccepts /\ conns \in 0..MaxAccepts
    /\ accepted \in 0..MaxAccepts /\ closed \subseteq Socks
    /\ nxt \in -(2^(Width-1))..(2^(Width-1) - 1) /\ ops \in 0..MaxOps

-----------------------------------------------------------------------------
(* Dispatch's round robin over an int of Width bits                        *)

\* Two's-complement wrap of an int of Width bits.
IntOf(x) == LET h == 2^(Width-1) IN ((x + h) % (2 * h)) - h

\* C's %, which keeps the sign of the dividend.
CRem(a, b) == IF a >= 0 THEN a % b ELSE -((-a) % b)

\* A Dispatch without the sign fix-up.
WorkerIndexNoAbs(c) == CRem(c, NumWorkers)

\* "int nxt = (++nxt_worker_); if (nxt < 0) nxt = -nxt;
\*  int idx = nxt % options_.num_worker_thread;"
WorkerIndex(c) == CRem(IntOf(IF c < 0 THEN -c ELSE c), NumWorkers)

-----------------------------------------------------------------------------
(* EvQueue, Link and Listen                                                *)

\* A Push that writes the eventfd when the queue was not empty.
PushWakeWhenNonEmpty(t, w, task) ==
    IF quit[w] THEN UNCHANGED <<queue, wr>>
    ELSE /\ queue' = [queue EXCEPT ![w] = Append(@, task)]
         /\ wr' = [wr EXCEPT ![t] = IF queue[w] # <<>> THEN w ELSE 0]

\* EvQueue::Push from thread t: a queue that has quit refuses the task
\* (Worker::Link and Worker::Listen ignore the result); otherwise the task
\* is appended under the mutex and, if the queue was empty, thread t
\* writes the eventfd in its next step.
Push(t, w, task) ==
    IF quit[w] THEN UNCHANGED <<queue, wr>>
    ELSE /\ queue' = [queue EXCEPT ![w] = Append(@, task)]
         /\ wr' = [wr EXCEPT ![t] = IF queue[w] = <<>> THEN w ELSE 0]

\* Thread t is back in its event loop with no write pending: the user's
\* thread between calls, a worker waiting in event_base_loop.
Free(t) ==
    /\ wr[t] = 0
    /\ IF t = Main THEN main = "user" ELSE thr[t] = "idle"

\* The write(fd_) that ends Push: "while (empty) write(...)".
Wake(t) ==
    /\ wr[t] # 0
    /\ efd' = [efd EXCEPT ![wr[t]] = TRUE]
    /\ wr' = [wr EXCEPT ![t] = 0]
    /\ UNCHANGED <<state, endpoints, services, freed, owned, workers, thr,
                   queue, brk, quit, clients, held, main, op, ji, work, listening,
                   lbase, backlog, conns, accepted, nxt, closed, ops>>

\* EvQueue::OnEvent is called: it reads (and so resets) the eventfd.
OnEvent(w) ==
    /\ Free(w) /\ efd[w]
    /\ efd' = [efd EXCEPT ![w] = FALSE]
    /\ thr' = [thr EXCEPT ![w] = "drain"]
    /\ UNCHANGED <<state, endpoints, services, freed, owned, workers, queue,
                   brk, quit, clients, held, wr, main, op, ji, work, listening,
                   lbase, backlog, conns, accepted, nxt, closed, ops>>

\* Worker::HandleLink: a ServerConnection for socket s joins clients_.
HandleLink(w, s) ==
    /\ clients' = [clients EXCEPT ![w] = @ \cup {s}]
    /\ UNCHANGED <<work, listening, lbase, backlog>>

\* Listener::Start for a resolved address: BuildSocket (socket, the socket
\* options, bind, listen on a backlog of 1024), BuildEvent (a persistent
\* EV_READ on base_) and UnresolveAddress.  Each can fail (the listener is
\* then deleted), so whether it listens is a choice.
ListenerStarted == BOOLEAN

\* ServerImpl::StartServer: a listener per resolved endpoint on base_,
\* the base of thread t; it fails when none could listen.
StartServer(t) == listening' \in ListenerStarted /\ lbase' = t

\* Completion::Signal on the Listen command's Completion(1): signals_
\* reaches waits_ and the waiting user's thread is woken.
Signal == work' = TRUE

\* Completion::Wait returns once signals_ = waits_.  The Completion is a
\* local of NewServer / DelServer, so the next command waits on a new one.
Waited == work /\ work' = FALSE

\* Listener::~Listener: event_del and close(fd_); connections still in
\* the listen backlog are reset, never accepted.
DeleteListener == listening' = FALSE /\ backlog' = 0

\* ServerImpl::StopServer: delete every listener.
StopServer == DeleteListener

\* Worker::HandleListen: start or stop the listeners, then Signal the
\* Completion the user's thread waits on.
HandleListen(w, on) ==
    /\ Signal
    /\ UNCHANGED clients
    /\ IF on THEN StartServer(w) /\ UNCHANGED backlog
             ELSE StopServer /\ UNCHANGED lbase

\* One turn of OnEvent's "while (!quit_)" loop: stop once quit_ is set or
\* the queue is empty, otherwise pop the front task and run it:
\* Link::operator() -> Worker::HandleLink (a new ServerConnection in
\* clients_), or Listen::operator() -> Worker::HandleListen, which starts
\* (StartServer: listeners on base_, which is this worker's) or stops
\* (StopServer) the listeners and signals the waiting thread.
Drain(w) ==
    /\ thr[w] = "drain"
    /\ IF quit[w] \/ queue[w] = <<>>
       THEN /\ thr' = [thr EXCEPT ![w] = "idle"]
            /\ UNCHANGED <<queue, clients, held, work, listening, lbase, backlog>>
       ELSE LET task == Head(queue[w]) IN
            /\ queue' = [queue EXCEPT ![w] = Tail(@)]
            /\ UNCHANGED thr
            /\ IF task.kind = "link" THEN HandleLink(w, task.sock)
                                     ELSE HandleListen(w, task.on)
    /\ UNCHANGED <<state, endpoints, services, freed, owned, workers, efd, brk,
                   quit, held, wr, main, op, ji, conns, accepted, nxt, closed, ops>>

\* Thread::Break: the break eventfd is readable; event_base_loopbreak.
Break(w) ==
    /\ Free(w) /\ brk[w]
    /\ brk' = [brk EXCEPT ![w] = FALSE]
    /\ thr' = [thr EXCEPT ![w] = "exit"]
    /\ UNCHANGED <<state, endpoints, services, freed, owned, workers, queue,
                   efd, quit, clients, held, wr, main, op, ji, work, listening,
                   lbase, backlog, conns, accepted, nxt, closed, ops>>

\* A Clear whose Link::Quit deletes the task without close(sfd_).
ClearedLinksLeaking(w) == {}

\* EvQueue::Clear runs Quit on every task left in the queue: Link::Quit
\* closes its socket, Listen::Quit does nothing.
ClearedLinks(w) ==
    {queue[w][i].sock : i \in {j \in DOMAIN queue[w] : queue[w][j].kind = "link"}}

\* Worker::ExitWorker: "while (!clients_.empty()) clients_.begin()->Close()".
\* Close closes the socket, and ReleaseConnection unlinks the connection
\* from clients_ unless its recvq_ is non-empty.  clients_ is a map keyed
\* by pointer, so the order is arbitrary: the loop closes the connections
\* before the first held one, then closes that one and finds it at begin()
\* forever.  The set of sockets the loop closes, for each possible order.
ExitWorker(w) ==
    IF clients[w] \cap held = {}
    THEN {clients[w]}
    ELSE {B \cup {b} : b \in clients[w] \cap held,
                       B \in SUBSET (clients[w] \ held)}

\* Thread::ExitEnviroment after the loop: EvQueue::Clear calls Quit on
\* every task left (Link::Quit closes its socket; Listen::Quit does
\* nothing), then Worker::ExitWorker, then the queue is deleted and the
\* thread ends, unless ExitWorker spins on a held connection: its socket
\* is closed, the connections after it keep theirs, and the thread never
\* ends.
Exit(w) ==
    /\ thr[w] = "exit"
    /\ \E X \in ExitWorker(w) :
           /\ closed' = closed \cup ClearedLinks(w) \cup X
           /\ clients' = [clients EXCEPT ![w] = @ \ X]
           /\ thr' = [thr EXCEPT ![w] = IF X \cap held = {} THEN "done"
                                                            ELSE "spin"]
    /\ queue' = [queue EXCEPT ![w] = <<>>]
    /\ UNCHANGED <<state, endpoints, services, freed, owned, workers, efd, brk,
                   quit, held, wr, main, op, ji, work, listening, lbase, backlog,
                   conns, accepted, nxt, ops>>

\* ServerConnection::OnRpcRequest on worker w: a request read from the
\* socket of connection s is pushed to recvq_ and given to its handler.
OnRpcRequest(w, s) ==
    /\ thr[w] = "idle" /\ s \in clients[w] \ held
    /\ held' = held \cup {s}
    /\ UNCHANGED <<state, endpoints, services, freed, owned, workers, thr,
                   queue, efd, brk, quit, clients, wr, main, op, ji, work,
                   listening, lbase, backlog, conns, accepted, nxt, closed, ops>>

\* ServerConnection::OnRpcResponse: the handler's done closure, run on the
\* connection's worker, takes the request off recvq_ (to sendq_).
OnRpcResponse(w, s) ==
    /\ thr[w] = "idle" /\ s \in clients[w] \cap held
    /\ held' = held \ {s}
    /\ UNCHANGED <<state, endpoints, services, freed, owned, workers, thr,
                   queue, efd, brk, quit, clients, wr, main, op, ji, work,
                   listening, lbase, backlog, conns, accepted, nxt, closed, ops>>

-----------------------------------------------------------------------------
(* The listener                                                            *)

\* A client connects to a listening endpoint.
Connect ==
    /\ listening /\ conns < MaxAccepts
    /\ conns' = conns + 1 /\ backlog' = backlog + 1
    /\ UNCHANGED <<state, endpoints, services, freed, owned, workers, thr,
                   queue, efd, brk, quit, clients, held, wr, main, op, ji, work,
                   listening, lbase, accepted, nxt, closed, ops>>

\* A failed set_rcvbuf / set_sndbuf / set_nonblocking / set_tcpnodelay
\* path that returns without close(sfd).
SockOptFailedNoClose(s) == UNCHANGED <<closed, nxt, queue, wr, main>>

\* set_rcvbuf, set_sndbuf, set_nonblocking or set_tcpnodelay fails on the
\* accepted socket s: close(sfd) and return, nothing is dispatched.
SockOptFailed(s) ==
    /\ closed' = closed \cup {s}
    /\ UNCHANGED <<nxt, queue, wr, main>>

\* A Link task: the accepted socket sfd_ for a worker (its addresses are
\* left out).
LinkTask(s) == [kind |-> "link", sock |-> s]

\* A Listen command: listen_ says whether to start or stop the listeners;
\* work_ is the Completion the caller waits on (the variable work).
ListenTask(on) == [kind |-> "listen", on |-> on]

\* Worker::Link from thread t: push a Link task for socket s onto worker
\* w's EvQueue.
Link(t, w, s) == Push(t, w, LinkTask(s))

\* Worker::Listen from thread t: push a Listen(on) command onto worker w's
\* EvQueue.
Listen(t, w, on) == Push(t, w, ListenTask(on))

\* ServerImpl::Dispatch of socket s from thread t: ++nxt_worker_, pick
\* workers_[idx] and Worker::Link.  An index outside workers_ is
\* undefined behaviour: the process crashes.
Dispatch(t, s) ==
    LET c == IntOf(nxt + 1)
        i == WorkerIndex(c)
    IN /\ nxt' = c
       /\ IF i < 0 \/ i >= Len(workers)
          THEN main' = "crashed" /\ UNCHANGED <<queue, wr>>
          ELSE Link(t, workers[i + 1], s) /\ UNCHANGED main

\* A HandleAccept that dispatches the listening socket (fd) rather than
\* the accepted one (sfd), here socket 0.
AcceptListenFd(t) ==
    /\ listening /\ lbase = t /\ backlog > 0 /\ Free(t)
    /\ backlog' = backlog - 1
    /\ accepted' = accepted + 1
    /\ \E ok \in BOOLEAN :
         IF ~ok THEN SockOptFailed(accepted + 1)
         ELSE Dispatch(t, 0) /\ UNCHANGED closed
    /\ UNCHANGED <<state, endpoints, services, freed, owned, workers, thr, efd,
                   brk, quit, clients, held, op, ji, work, listening, lbase, conns,
                   ops>>

\* Listener::HandleAccept on the listener's thread t: accept one socket;
\* if a socket option fails, close it; otherwise Dispatch it.
Accept(t) ==
    /\ listening /\ lbase = t /\ backlog > 0 /\ Free(t)
    /\ backlog' = backlog - 1
    /\ accepted' = accepted + 1
    /\ \E ok \in BOOLEAN :
         IF ~ok THEN SockOptFailed(accepted + 1)
         ELSE Dispatch(t, accepted + 1) /\ UNCHANGED closed
    /\ UNCHANGED <<state, endpoints, services, freed, owned, workers, thr, efd,
                   brk, quit, clients, held, op, ji, work, listening, lbase, conns,
                   ops>>

-----------------------------------------------------------------------------
(* The user's calls on ServerImpl                                          *)

\* A call from the user's thread, between event callbacks.
UserCall == Free(Main) /\ ops < MaxOps /\ ops' = ops + 1

\* A call that returns an error code and changes nothing.
Refuse ==
    UNCHANGED <<state, endpoints, services, freed, owned, workers, thr, queue,
                efd, brk, quit, clients, held, wr, main, op, ji, work, listening,
                lbase, backlog, conns, accepted, nxt, closed>>

\* Every variable but the registry's.
KeepAllButRegistry ==
    UNCHANGED <<state, workers, thr, queue, efd, brk, quit, clients, held, wr, main,
                op, ji, work, listening, lbase, backlog, conns, accepted, nxt,
                closed>>

\* ServerImpl::Add: only in Init, and an endpoint already added is refused.
Add(e) ==
    /\ UserCall
    /\ IF state = "Init" /\ e \notin endpoints
       THEN /\ endpoints' = endpoints \cup {e}
            /\ UNCHANGED <<services, freed, owned>> /\ KeepAllButRegistry
       ELSE Refuse

\* ServerImpl::Register: only in Init; a service whose full name is
\* registered already is refused (services_.insert fails).
Register(s, own) ==
    /\ UserCall
    /\ IF state = "Init" /\ services[s] = "none"
       THEN /\ services' = [services EXCEPT ![s] = own]
            /\ owned' = [owned EXCEPT ![s] = @ + (IF own = "owned" THEN 1
                                                                ELSE 0)]
            /\ UNCHANGED <<endpoints, freed>> /\ KeepAllButRegistry
       ELSE Refuse

\* An Unregister that deletes an owned service but leaves it in services_.
UnregisterKeepingEntry(s) ==
    /\ UserCall
    /\ IF state # "Run" /\ services[s] # "none"
       THEN /\ freed' = [freed EXCEPT ![s] = @ + (IF services[s] = "owned"
                                                   THEN 1 ELSE 0)]
            /\ UNCHANGED <<services, endpoints, owned>> /\ KeepAllButRegistry
       ELSE Refuse

\* ServerImpl::Unregister: refused while running; erases the service from
\* services_ and ownership_ and deletes it if the server owns it.
Unregister(s) ==
    /\ UserCall
    /\ IF state # "Run" /\ services[s] # "none"
       THEN /\ services' = [services EXCEPT ![s] = "none"]
            /\ freed' = [freed EXCEPT ![s] = @ + (IF services[s] = "owned"
                                                   THEN 1 ELSE 0)]
            /\ UNCHANGED <<endpoints, owned>> /\ KeepAllButRegistry
       ELSE Refuse

\* EvQueue::EvQueue on the new threads W: a new eventfd, not readable,
\* with a persistent EV_READ on the thread's base; quit_ is false.  Its
\* queue_ is empty: a worker id is never reused, so the queue is still
\* the empty one Init gave it.
NewEvQueue(W) ==
    /\ efd' = [w \in Workers |-> IF w \in W THEN FALSE ELSE efd[w]]
    /\ quit' = [w \in Workers |-> IF w \in W THEN FALSE ELSE quit[w]]

\* Thread::InitEnviroment on each new thread: its event base, the break
\* eventfd (not readable) with a persistent EV_READ, a new EvQueue, then
\* the init callback.
InitEnviroment(W) ==
    /\ brk' = [w \in Workers |-> IF w \in W THEN FALSE ELSE brk[w]]
    /\ NewEvQueue(W)

\* Worker::Worker starts its Thread with InitWorker as the init callback
\* (a thread-local Compressor, then options.init_cb); clients_ is empty.
InitWorker(W) ==
    /\ clients' = [w \in Workers |-> IF w \in W THEN {} ELSE clients[w]]
    /\ InitEnviroment(W)

\* ServerImpl::NewWorker: NumWorkers threads are appended to workers_ after
\* the n ever started; each Thread constructor returns once its thread has
\* run InitWorker and is in its loop.
NewWorker(n) ==
    /\ workers' = workers \o [i \in 1..NumWorkers |-> n + i]
    /\ InitWorker(n + 1..n + NumWorkers)
    /\ thr' = [w \in Workers |-> IF n < w /\ w <= n + NumWorkers THEN "idle"
                                                               ELSE thr[w]]

\* ServerImpl::Start: refused unless in Init with an endpoint.  NewWorker
\* starts NumWorkers threads (each Thread constructor returns once its
\* thread is in its loop) and, without a user base, base_ becomes the last
\* one's.  NewServer then runs StartServer at once on the user's base, or
\* sends a Listen command to workers_.back() and waits for it.
Start ==
    /\ UserCall
    /\ IF state # "Init" \/ endpoints = {} THEN Refuse
       ELSE
       LET n == Cardinality({w \in Workers : thr[w] # "none"})
           last == n + NumWorkers
       IN /\ last <= MaxThreads
          /\ NewWorker(n)
          /\ IF hasBase
             THEN /\ StartServer(Main)
                  /\ state' = IF listening' THEN "Run" ELSE "Init"
                  /\ UNCHANGED <<queue, wr, main>>
             ELSE /\ Listen(Main, last, TRUE)
                  /\ main' = "startWait"
                  /\ UNCHANGED <<state, listening, lbase>>
          /\ UNCHANGED <<endpoints, services, freed, owned, held, op, ji,
                         work, backlog, conns, accepted, nxt, closed>>

\* NewServer's work.Wait() returns: Start returns cmd.res_ and, on
\* success, sets kRun.
StartDone ==
    /\ main = "startWait" /\ wr[Main] = 0 /\ Waited
    /\ main' = "user"
    /\ state' = IF listening THEN "Run" ELSE "Init"
    /\ UNCHANGED <<endpoints, services, freed, owned, workers, thr, queue, efd,
                   brk, quit, clients, held, wr, op, ji, listening, lbase, backlog,
                   conns, accepted, nxt, closed, ops>>

\* DelServer, which Stop and the destructor start with: StopServer at once
\* on the user's base; otherwise a Listen(false) command to
\* workers_.back() and a wait.  Without workers (never started, or
\* stopped already) base_ is NULL or workers_.back() reads outside an
\* empty vector: undefined behaviour, here a crash.
DelServer ==
    IF hasBase
    THEN /\ StopServer
         /\ main' = "delworker" /\ ji' = 1
         /\ UNCHANGED <<queue, wr>>
    ELSE IF workers = <<>>
    THEN main' = "crashed" /\ UNCHANGED <<listening, backlog, ji, queue, wr>>
    ELSE /\ Listen(Main, workers[Len(workers)], FALSE)
         /\ main' = "stopWait"
         /\ UNCHANGED <<listening, backlog, ji>>

\* ServerImpl::Stop (its state check is commented out), and delete server
\* (~ServerImpl): DelServer, DelWorker, DelService.
Stop ==
    /\ UserCall /\ op' = "stop" /\ DelServer
    /\ UNCHANGED <<state, endpoints, services, freed, owned, workers, thr, efd,
                   brk, quit, clients, held, work, lbase, conns, accepted, nxt,
                   closed>>

Delete ==
    /\ UserCall /\ op' = "delete" /\ DelServer
    /\ UNCHANGED <<state, endpoints, services, freed, owned, workers, thr, efd,
                   brk, quit, clients, held, work, lbase, conns, accepted, nxt,
                   closed>>

\* DelServer's work.Wait() returns.
StopDone ==
    /\ main = "stopWait" /\ wr[Main] = 0 /\ Waited
    /\ main' = "delworker" /\ ji' = 1
    /\ UNCHANGED <<state, endpoints, services, freed, owned, workers, thr,
                   queue, efd, brk, quit, clients, held, wr, op, listening, lbase,
                   backlog, conns, accepted, nxt, closed, ops>>

\* A ~Thread that sets quit_ without writing the break eventfd.
KillWorkerNoBreak ==
    /\ main = "delworker" /\ ji <= Len(workers) /\ ~quit[workers[ji]]
    /\ quit' = [quit EXCEPT ![workers[ji]] = TRUE]
    /\ UNCHANGED <<state, endpoints, services, freed, owned, workers, thr,
                   queue, efd, brk, clients, held, wr, main, op, ji, work, listening,
                   lbase, backlog, conns, accepted, nxt, closed, ops>>

\* DelWorker deletes workers_[ji]: ~Thread sets the queue's quit_ and
\* writes the break eventfd ...
KillWorker ==
    /\ main = "delworker" /\ ji <= Len(workers) /\ ~quit[workers[ji]]
    /\ quit' = [quit EXCEPT ![workers[ji]] = TRUE]
    /\ brk' = [brk EXCEPT ![workers[ji]] = TRUE]
    /\ UNCHANGED <<state, endpoints, services, freed, owned, workers, thr,
                   queue, efd, clients, held, wr, main, op, ji, work, listening,
                   lbase, backlog, conns, accepted, nxt, closed, ops>>

\* ... and pthread_join returns once the thread has ended.
Joined ==
    /\ main = "delworker" /\ ji <= Len(workers)
    /\ quit[workers[ji]] /\ thr[workers[ji]] = "done"
    /\ ji' = ji + 1
    /\ UNCHANGED <<state, endpoints, services, freed, owned, workers, thr,
                   queue, efd, brk, quit, clients, held, wr, main, op, work,
                   listening, lbase, backlog, conns, accepted, nxt, closed,
                   ops>>

\* The end of DelWorker (workers_.clear()) and DelService, which deletes
\* the services the server owns and clears the registry; Stop then sets
\* kExit, the destructor ends.
DelWorkerDone ==
    /\ main = "delworker" /\ ji > Len(workers)
    /\ workers' = <<>>
    /\ freed' = [s \in Svcs |-> freed[s] + (IF services[s] = "owned"
                                            THEN 1 ELSE 0)]
    /\ services' = [s \in Svcs |-> "none"]
    /\ IF op = "stop" THEN state' = "Exit" /\ main' = "user"
                      ELSE main' = "gone" /\ UNCHANGED state
    /\ UNCHANGED <<endpoints, owned, thr, queue, efd, brk, quit, clients, held, wr,
                   op, ji, work, listening, lbase, backlog, conns, accepted,
                   nxt, closed, ops>>

-----------------------------------------------------------------------------
(* The specification                                                       *)

\* ServerImpl's constructor registers the builtin status service, which
\* it does not own.
Init ==
    /\ hasBase \in BOOLEAN
    /\ state = "Init" /\ endpoints = {}
    /\ services = [s \in Svcs |-> IF s = "builtin" THEN "borrowed" ELSE "none"]
    /\ freed = [s \in Svcs |-> 0] /\ owned = [s \in Svcs |-> 0]
    /\ workers = <<>> /\ thr = [w \in Workers |-> "none"]
    /\ queue = [w \in Workers |-> <<>>]
    /\ efd = [w \in Workers |-> FALSE] /\ brk = [w \in Workers |-> FALSE]
    /\ quit = [w \in Workers |-> FALSE] /\ clients = [w \in Workers |-> {}]
    /\ held = {} /\ wr = [t \in Threads |-> 0]
    /\ main = "user" /\ op = "stop" /\ ji = 1 /\ work = FALSE
    /\ listening = FALSE /\ lbase = Main
    /\ backlog = 0 /\ conns = 0 /\ accepted = 0
    /\ nxt = -1 /\ closed = {} /\ ops = 0

\* A crashed process takes no further step.  has_base_ is set by the
\* constructor and never changes, so no step changes it.
Alive == main # "crashed" /\ UNCHANGED hasBase

ThreadStep(t) == Alive /\ (Wake(t) \/ Accept(t))

WorkerStep(w) ==
    Alive /\ (OnEvent(w) \/ Drain(w) \/ Break(w) \/ Exit(w)
              \/ \E s \in Socks : OnRpcRequest(w, s) \/ OnRpcResponse(w, s))

MainStep ==
    Alive /\ (StartDone \/ StopDone \/ KillWorker \/ Joined \/ DelWorkerDone)

Next ==
    \/ \E t \in Threads : ThreadStep(t)
    \/ \E w \in Workers : WorkerStep(w)
    \/ MainStep
    \/ Alive /\ Connect
    \/ Alive /\ \E e \in Endpoints : Add(e)
    \/ Alive /\ \E s \in Svcs : \/ Unregister(s)
                                \/ \E own \in {"owned", "borrowed"} :
                                       Register(s, own)
    \/ Alive /\ (Start \/ Stop \/ Delete)

Spec == Init /\ [][Next]_vars

\* Every thread runs: a pending eventfd write completes, libevent calls
\* the callback of a ready event (eventfd, break event, listen socket),
\* OnEvent's loop and ExitEnviroment run to their end, and the user's
\* thread returns from a wait or a join that can return.  The user's own
\* calls and clients' connects are not assumed.
Fairness ==
    /\ \A t \in Threads : WF_vars(Alive /\ Wake(t)) /\ WF_vars(Alive /\ Accept(t))
    /\ \A w \in Workers : /\ WF_vars(Alive /\ OnEvent(w))
                          /\ WF_vars(Alive /\ Drain(w))
                          /\ WF_vars(Alive /\ Break(w))
                          /\ WF_vars(Alive /\ Exit(w))
    /\ WF_vars(MainStep)

FairSpec == Spec /\ Fairness

-----------------------------------------------------------------------------
(* Properties                                                              *)

\* The places that hold accepted socket s: a Link task in a worker's
\* queue, or the ServerConnection in a worker's clients_.
Holders(s) ==
    {<<w, i>> \in Workers \X (1..(MaxAccepts + 2)) :
        i \in DOMAIN queue[w] /\ queue[w][i] = [kind |-> "link", sock |-> s]}
    \cup {<<w, 0>> : w \in {v \in Workers : s \in clients[v]}}

\* Every accepted socket is held by exactly one Link task or connection
\* until it is closed, and by none after; once the server is deleted,
\* every accepted socket has been closed.  A Link pushed to a queue that
\* has quit, a Link::Quit that does not close, a worker torn down before
\* the listener, or an ExitWorker that misses a connection all leak one.
NoSocketLeak ==
    /\ \A s \in 1..accepted :
           IF s \in closed THEN Holders(s) = {} ELSE Cardinality(Holders(s)) = 1
    /\ main = "gone" => closed = 1..accepted

\* Dispatch hands the k-th dispatched socket (counting from 0) to
\* workers_[k mod num_worker_thread]: from the counter's current value on,
\* for every further Dispatch, also once ++nxt_worker_ has wrapped past
\* INT_MAX (checked against the reference over the next 2^Width values).
\* It holds for one or two workers only: past the wrap, -nxt_worker_
\* counts down, so with more workers the order reverses or (with a count
\* that is not a power of two) the index of INT_MIN is negative.
\* MCServerRoundRobin.cfg checks it for three workers.
RoundRobin ==
    \A j \in 0..2^Width :
        WorkerIndex(IntOf(nxt + 1 + j)) = (nxt + 1 + j) % NumWorkers

\* The user's thread never waits forever: the Listen command of Start or
\* of Stop / the destructor is run and signals, and every worker thread
\* DelWorker joins leaves its loop and ends, unless a worker spins in
\* ExitWorker on a connection whose request a handler holds (the hang
\* MCServerConnectionExit.cfg reports).  A lost eventfd wakeup, or a
\* break event never written, hangs it here.
MainReturns ==
    main \in {"startWait", "stopWait", "delworker"}
        ~> \/ main \in {"user", "gone", "crashed"}
           \/ \E w \in Workers : thr[w] = "spin"

\* Every accepted socket eventually gets its ServerConnection or is
\* closed: a Link task is not left in a queue whose thread sleeps.
LinksServed ==
    \A s \in Socks :
        s <= accepted ~> (s \in closed \/ \E w \in Workers : s \in clients[w])

\* Every service object the server was given to own is deleted exactly
\* once: not while it is still registered (a worker's Find could return
\* it), not twice (by Unregister and again by DelService, or by the
\* DelService of Stop and again by the destructor's), and no registered
\* one is left undeleted once unregistered or torn down; a service the
\* server does not own, the builtin Status service among them, is never
\* deleted.
ServicesFreedOnce ==
    \A s \in Svcs :
        freed[s] + (IF services[s] = "owned" THEN 1 ELSE 0) = owned[s]

\* Stop and the destructor never crash: "any operation invalid in the
\* current state returns an error rather than panicking" (spec.md), also
\* for Stop before Start, Stop twice, and delete after Stop.
ShutdownSafe == main # "crashed"

====
