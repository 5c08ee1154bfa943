# TLA+ models of qrpc

qrpc is a protobuf RPC library built on libevent. This directory holds TLA+ modules
that model its state machines, the TLC configurations that check them, and
`PROJECT.json`. That file lists the components, the runs, the mutants, the map
from every definition to the source lines it translates, the findings and the hazards.

## The system

| Part | Source | State | Operations |
|---|---|---|---|
| Client channel | `rpc/channel_impl.*`, `rpc/message.*` (ClientMessage), `rpc/controller_client.cc` | `sequence_`, `sendq_`, `recvq_`, `cur_send_`, `conn_`, `has_status_`; per message `finish_`, `monitor_`, its timer and controller | Open, Close, Cancel, CallMethod, Keepalive/OnKeepaliveDone, StartCancel, OnRpcTimeout, RecvDone, RecvFail, SendFail, SendNext, SendDone |
| Client connection | `rpc/connection.cc` (ClientConnection) | `connected_`, `connecting_`, one timer (idle retry, connect watcher or heartbeat), socket | Connect, Connecting, HandleConnectingEvent, HandleWatchEvent, HandleIdleEvent, Connected, HandleHeartbeatEvent, Enable/DisableUpload |
| Framer | `rpc/connection.cc` (Connection) | read/write state (`kRead/kParse/kWait/kClose`), buffers, frame header, `wmsg_` | Encode, Decode, Recv, Send, OnRecv, OnSend, ExpandWbuf |
| Server connection | `rpc/connection.cc` (ServerConnection), `rpc/controller_server.*`, ServerMessage | `recvq_`, `sendq_`, `cur_send_`, close flag, keepalive timer | OnRpcRequest, OnRpcResponse, OnRpcCancel, OnRpcFinish, Close/CloseConnection/ReleaseConnection, keepalive |
| Workers | `rpc/worker.cc`, `rpc/command.cc`, `util/event_queue.cc`, `util/thread.cc` | per worker: event base, `clients_`, EvQueue (mutex, queue, eventfd, `quit_`) | Link/HandleLink, Listen/HandleListen, Unlink, InitWorker/ExitWorker, Push/OnEvent/Clear |
| Server | `rpc/server_impl.cc`, `rpc/listener.cc` | state Init/Run/Exit, services, workers, listeners, `nxt_worker_` | Add, Start, Stop, Register, Unregister, Dispatch, HandleAccept |
| Timer | `util/timer.cc` | timeval, event | Set, SchedOneshot, SchedCancel |
| Compressor | `rpc/compressor.cc`, the per-thread table in `rpc/channel_impl.cc` | codec type, scratch buffer (`buffer_`, `len_`) shared by a thread's connections | Compress, Uncompress, ExpandBufferCache |

How they interact:
- Each channel and its connection live on one libevent loop in the user's thread. All of their callbacks are serialised.
- A channel sends frames through its ClientConnection and receives the callbacks SendNext, SendDone, RecvDone, SendFail and RecvFail from it.
- On the server, the listener accepts a socket and `Dispatch` hands it round-robin to a worker. The hand-off is a `Link` command over the worker's EvQueue.
- The worker's ServerConnection decodes requests and calls the service. The service's done-closure must run on that worker thread (`ServerMessage::OnRpcDone` FATALs otherwise). It queues the response, and `OnRpcFinish` deletes the request once the response is written.

Hard behaviours in the code:
- Reentrancy of user closures into the channel.
- A frame can be cancelled or time out while it is being written.
- After a connection failure, unanswered calls are retransmitted. The server may therefore execute a call twice.
- Late and duplicate responses.
- Cross-thread queues with eventfd wakeups.
- Shutdown of workers while handlers run.
- Integer edges: the round-robin counter, the frame header lengths, the scratch buffer's `size_t` doubling, and the timer's millisecond conversion.
- A closure may issue a new call from inside a handler that is walking the queues.

## Modules

### `Channel` (core: client channel, messages, connection callbacks)

- **State.** One variable per ChannelImpl field:
  - `sequence`, `sendq`, `recvq`, `cur`, `conn`, `hasStatus`;
  - `want`, which is EV_WRITE in the connection's mask;
  - `msgs`, which gives each sequence number its ClientMessage and controller: allocation state, `finish_`, `monitor_`, the controller code, whether the response buffer was written, how often the closure ran, and the code it saw;
  - `peer`, the requests the server holds on the current connection;
  - `faults`, a bounded count of transport failures.
- **Handlers.** Each ChannelImpl handler is an operator from a channel record to a channel record. Its statements are written in the code's order, and its loops are written as `FoldLeft`, except `CancelAllRpc`'s walk of `sendq_`, which is `CancelSendqFrom`: a recursion over positions that re-reads the queue's length at each step, as the `std::list` iterator does. This keeps the order inside `CancelAllRpc` exact, and also what a closure that re-enters the channel observes.
- **Actions.** Each action applies one handler to the current state:
  - `Open`, `Close`, `Cancel`;
  - `UserCall` (CallMethod), only while the channel has a connection. `CallMethod` calls `conn_->EnableUpload()` without a check (`channel_impl.cc:253-254`), so a call on a channel that was never opened, or whose Open failed, dereferences NULL. The model leaves that call out, and the hazard list records it;
  - `UserCancel` (ClientController::StartCancel);
  - `Timeout` (the per-call timer);
  - `HeartbeatTick` (Keepalive);
  - `Connected`;
  - `Write(k, end)`: one EV_WRITE callback that writes k whole frames and then blocks, drains the queue, or fails;
  - `Receive(s, reply)`: one response frame;
  - `RecvFail`.
- **Reentrancy.** `ReentrantCancel` lets a user closure call `Channel::Cancel()` from inside `Finish`, before `finish_` is set. `RetryOnFailure` lets a user pass a closure that issues the same call again (a `CallMethod` from inside `done_->Run()`) when the call failed; `UserCall` chooses per call which closure it passes (`Retries`), and `Reissue` is that closure. A re-issue that would need a sequence number beyond `MaxCalls` is not made.
- **Abstractions:**
  - Message bodies are abstracted to "ok", "error code from the server" or "unparseable".
  - The connect/retry machine is abstracted to `down → up`.
  - A read callback is split into one action per frame. Each frame's handling is atomic in the code, so this allows a superset of the code's interleavings.

### `RpcCall` (what the channel promises the caller of one RPC)

`RpcCall` is the abstract life of one call, with the queues, the connection and the timer left out:
- **State.** `phase` is idle, pending, completed (closure run, message kept for a frame in flight) or released (deleted). `outcome` is what the closure saw. `answered` says whether the response buffer was filled.
- **Actions:**
  - `Issue`: CallMethod.
  - `Reply(a)`: RecvDone parses the server's answer and completes and deletes the call in one step. Only "remote" (an error code in the meta) fills no buffer.
  - `Abort(a)`: StartCancel, OnRpcTimeout, Cancel or Close end a pending call with kErrCancel or kErrTimeout. The message is deleted at once, or kept while its frame is in flight.
  - `Release`: SendDone, a fault or Close deletes a completed message.
  - `IssueCancelled`: a call that a closure issues while `CancelAllRpc` walks the send queue is appended to that queue and cancelled by the same walk, all inside one `Cancel` or `Close`.
- **Fairness.** Weak fairness on `Abort` (the rpc_timeout fires) and on `Release`.

`Channel` implements it for every call, user or heartbeat. The mapping is per call (`Call(m) == INSTANCE RpcCall WITH ...`):
- `phase` comes from `st` and `finish_`;
- `outcome` is the code the closure saw;
- `answered` is `resp`.

The property is `CallRefined`. It conjoins the per-call initial conditions, one box over the steps of all calls, and the per-call fairness. TLC does not accept a `\A` over formulas with actions, so `\A m : Call(m)!CallSpec` is written out this way.

### `ServerConnection` (a server connection, its requests, and the worker that owns it)

State:
- `connected`, `timer` and `linked`, where `linked` means the connection is still in `Worker::clients_`;
- `recvq`, `sendq`, `cur` and `want`;
- `msgs`: for each request, the ServerMessage state (none, handling, queued, freed) and the ServerController's `cancel_`, its `closure_` and how often that closure has run;
- `nreq`, `rejected` and `exiting`;
- `fault`, which records a crash of the worker thread.

A request's record starts as `Fresh`, the ServerMessage constructor, whose ServerController starts as `NewController` (not cancelled, no closure).

The peer sends requests in sequence order. A request either parses or is rejected. If `PeerCancels` is set, the peer also sends cancel frames, any number per request. `ServerController::CancelRequest` asserts that `cancel_` is still false, so a repeated cancel of a queued request has two outcomes, one per build: an assertion failure (`fault = "assert"`) or, under NDEBUG, no effect.

Actions and the code behind them:

| Action | Code |
|---|---|
| `RecvRequest` | RecvDone and OnRpcRequest |
| `RecvCancel` | OnRpcCancel |
| `HandlerDone(m)` | ServerMessage::OnRpcDone, then OnRpcResponse |
| `NotifyOnCancel(m)` | the handler registers a cancel callback |
| `Write(k, end)` | OnSend, with SendNext, SendDone and OnRpcFinish, or SendFail |
| `RecvFail` | RecvFail |
| `KeepaliveExpire` | HandleTimerKeepalive |
| `StopWorker` | Thread::~Thread, Break and the end of the event loop |
| `ExitStep` | one turn of the `ExitWorker` loop |

A handler runs on the worker thread, so `HandlerDone` is blocked once the worker has stopped.

### `ClientConnection`, `ClientStack` and `ClientLink` (the client's connection, composed with its channel)

`ClientConnection` holds the connection's state and its own handlers (`connection.cc` 950-1291):
- `connected`, `connecting`: `connected_` and `connecting_`;
- `timer`: what the single `timer_` is armed for: nothing, the idle retry, the connect watchdog or the heartbeat;
- `ev`: the socket's libevent registration: none, one-shot EV_WRITE while connecting, EV_READ or EV_READ|EV_WRITE once connected;
- `beats`: heartbeat ticks so far, bounded by `MaxBeats`.

`Connect(S, o)` is `ClientConnection::Connect` with its three outcomes: an error at any step (idle timer), `connect()` returning 0 (`Connected`), or EINPROGRESS (`Connecting`). `IdleFire`, `WatchFire` and `ConnectingEvent` are `HandleIdleEvent`, `HandleWatchEvent` and `HandleConnectingEvent`; `Fail` is the failure of a connected socket, after which the channel deletes the connection and creates a new one (`Replaced`).

The connection only exists inside a channel, so it is checked in `ClientStack`, which composes it with `Channel`:
- `Channel` is instantiated with `conn` and `want` replaced by the real connection: `conn_` being non-NULL (`hasConn`), `connected_`, and `ev = "rw"`;
- every step is one handler: a channel handler that leaves the connection alone or switches upload (`ChannelOnly`, where `EnableUpload`/`DisableUpload` are no-ops unless connected); `Open`, `Close`, `RecvFail` and `SendFail`, which create or delete the connection inside the channel handler; or a connection handler the channel does not hear about (`ConnStep`, `HeartbeatFire`, which calls `ChannelImpl::Keepalive`);
- an immediate connect inside the constructor (at `Open` or after a fault) is one step, as in the code.

`ClientLink` is the abstract connection `Channel` assumes: none, down or up, with EV_WRITE armed or not. It is created down or up, every step to up arms EV_WRITE, only an up link is armed, and a down link eventually comes up. `ClientStack` is shown to implement it with `link <- ConnView` and `armed <- (ev = "rw")`.

### `Framer` (both halves of a connection's byte stream: Encode, Send, OnSend; Recv, Decode, OnRecv)

`Framer` models `Connection::OnRecv`, `Recv` and `Decode` (`connection.cc` 232-427) over the byte stream of a peer that sends the frames `Frames`. With `QrpcPeer` the peer is itself a qrpc `Connection` whose `Encode`, `ExpandWbuf`, `Send` and `OnSend` (`connection.cc` 127-230, 429-523) produce the stream; without it, the whole stream is on the wire from the start (a hostile peer). Each frame is a header of `HdrSize` bytes, carrying the payload length, followed by the payload. The header also carries the comp byte and the data field (meta + data, the message's size before compression); for a hostile peer they are `Comps` and `Datas`.
- **State:**
  - `arrived`: the bytes that have reached the socket;
  - `peerClosed`: the peer's FIN;
  - `pos`: the bytes already read by `recv()`;
  - `off`, `rbytes`, `rsize`: `rcur_ - rbuf_`, `rbytes_`, `rsize_`;
  - `hdr`: `rmsg_hdr_.payload_`, where 0 means the header is not yet parsed;
  - `consumed`: the bytes `Decode` has taken;
  - `delivered`: the frames handed to `RecvDone`;
  - `rcomp`: `rmsg_hdr_.compression_`, and `rdata`: `meta_ + data_` as an int;
  - `scratch`: the receiving thread's `Compressor` scratch buffer, as `len_` and the bytes `realloc` gave `buffer_` (`wscratch` is the sender's);
  - `spinning`: the receiving thread loops forever in `ExpandBufferCache`;
  - `overrun`: `RecvDone` was handed fewer bytes than the header's `meta_ + data_`;
  - `closed`;
  - `aborted`: the receiving process died in a LOG(FATAL) of `Decode`.
- **Initial state:** `ConnectionInit` is the `Connection` constructor (no message being written, nothing read). `OptionsOk` is `options_ok` of `Channel::New` and `Server::New`: both buffer minimums are at least one byte.
- **Handler operators:**
  - `ReadMuch` is `Recv`'s `read_much` loop. It grows a full buffer by doubling, at most `MaxAllocs` = 4 times per call, and `recv()` returns `Min(available, room)`. A return of 0 becomes kRecvError and -1/EAGAIN becomes kRecvAgain.
  - `Recv` first moves the unparsed bytes to the buffer's front.
  - `Decode` parses the header only when `hdr = 0` (`ParseHeader`), rejects nothing (as the code does), and hands a whole frame to `RecvDone`. A frame whose comp byte is not kNoCompression goes through `Uncompress`. Any outcome but kCompOk, including a comp byte that names no codec, is LOG(FATAL), so `aborted` is set.
  - `Unpack` is `Decode`'s payload step: a plain payload is read in place; a compressed one goes into the scratch buffer, which `ExpandBufferCache` first grows to the `size_t` of `meta_ + data_`.
  - `ExpandBufferCache` keeps the buffer when the request fits, and otherwise starts `len_` at `CacheMin` (4096 in the code) when it is 0, doubles it in `SizeWidth`-bit arithmetic (`DoubleTo`) and reallocs `buffer_` to `len_`. A `len_` that wraps to 0 never grows again, so the loop does not end.
  - `Parse` repeats `Decode` while it makes progress.
  - `OnRecv` is the kRead/kParse/kWait/kClose state machine.
- **Sender state:** `out` (the bytes written so far), `wsent` (messages taken by `SendNext`), `wmsg` (the message being written, 0 for NULL), `wcur`, `wbytes`, `wsize` (`wcur_ - wbuf_`, `wbytes_`, `wsize_`), and `wcomp`. For each frame encoded, `wcomp` holds the comp byte written into its header and the codec its body was written with.
- **Sender operators:**
  - `Encode` takes the message's `CompressionType` (`Comps`), or kNoCompression when the payload is below `kCompressionThreshold` (`WireComp`).
    - Uncompressed, it grows `wbuf_` with `ExpandWbuf` (doubling until the frame fits).
    - Compressed, it runs the `goto compress` loop (`CompressInto`). `Compress` into the room after the header answers kCompBufferTooSmall while the codec's worst case does not fit, and `ExpandWbuf(wsize_ * 2)` retries.
    - Either way it sets `wcur_` and `wbytes_`.
  - **Compressor.** `ZlibCompress`, `Lz4Compress` and `SnappyCompress` use the libraries' own bounds (compressBound, LZ4_compressBound, MaxCompressedLength). `Compress` and `Uncompress` dispatch on the type. The codecs' data is abstracted: a codec's output is as long as its input, and a decompressor succeeds exactly on what the same codec produced from the header's meta + data bytes.
  - `Write` is one `send()`: EAGAIN or 0 is kSendAgain; a count short of the frame is kSendAgain; the last byte is kSendOk.
  - `Send` continues `wmsg_` or encodes the next message, and returns kSendNothing when there is none. When `PeerCloses` is set, `send()` may also fail with an error other than EINTR or EAGAIN (kSendError).
  - `OnSend` repeats `Send` after each kSendOk, with `SendDone` and `wmsg_ = NULL`, and returns false on kSendError.
- **Actions:**
  - `SendEvent`: one EV_WRITE callback on the sender, the whole `OnSend`. When it fails, `SendFail` closes the socket (`ServerConnection::Close`, or the channel deleting its `ClientConnection`), so the stream ends there (`peerClosed`, as for `PeerClose`);
  - `Arrive(n)`: up to `MaxChunk` bytes reach the socket;
  - `PeerClose`;
  - `ReadEvent`: one EV_READ callback, the whole `OnRecv`;
  - `OtherUse(n)`: another connection of the receiving thread encodes or decodes a compressed message of `n` bytes between this connection's callbacks, growing the shared scratch buffer. The channels of a thread share one `Compressor` (`new_compressor_if_not`), and so do the `ServerConnection`s of a worker (`Worker::compressor_`).
- **Integer width.** The length field is read as a signed int of `Width` bits (`ToInt`), the scaled form of `int payload_ = ntohl(...)`.

### `Server` (ServerImpl, its workers, their EvQueues, the listener)

`Server` models `ServerImpl` (`server_impl.cc`), the `Worker` threads (`worker.cc`, `util/thread.cc`), their `EvQueue` task queues (`util/event_queue.cc`), the `Link`/`Listen` commands (`command.cc`) and `Listener::HandleAccept` (`listener.cc`). A ServerConnection is reduced to the socket it owns; its own state machine is `ServerConnection`.
- **Threads:**
  - the user's thread (`Main`), which calls `Add`, `Register`, `Unregister`, `Start`, `Stop` and the destructor, and with a user event base (`hasBase`) also runs the listener;
  - one thread per worker. Each runs its event loop: the eventfd callback `OnEvent`, the break event, and, without a user base, the listener on the last worker.
- **State:**
  - `state`, `endpoints`, `services`: `ServerImpl`'s fields;
  - `freed`: how often each service object was deleted;
  - `owned`: how many times each service object was handed to `Register` with `kServerOwnsService`, the ownership `ownership_` records;
  - `workers`, `nxt`: `workers_` and `nxt_worker_`;
  - `thr`, `queue`, `efd`, `brk`, `quit`: per worker, the thread's place in its loop, `queue_`, the eventfd and break fd, `quit_`;
  - `clients`: `Worker::clients_`, as the open sockets its connections own;
  - `held`: the connections whose `recvq_` holds a request that a handler is still running;
  - `wr`: a Push whose eventfd write is still pending;
  - `main`, `op`, `ji`: where the user's thread waits (Start's or Stop's Completion, DelWorker's join loop);
  - `work`, `listening`, `lbase`, `backlog`, `conns`, `accepted`, `closed`: the Listen command, the listeners, and the sockets of clients.
- **Actions:** one per call of the user's thread; `Push` then `Wake` (the `write` to the eventfd); `OnEvent` and `Drain` (one task at a time, as `OnEvent`'s loop runs them, through `HandleLink`/`HandleListen`); `OnRpcRequest` and `OnRpcResponse` (a connection's request goes into `recvq_` and to its handler, and the done closure takes it off again, on the connection's worker); `Break` and `Exit` (the thread's break event and `ExitEnviroment`, which clears the queue and runs `Worker::ExitWorker`). `ExitWorker` closes connections in `clients_` order, which is pointer order and so arbitrary. `Close` closes the socket, but `ReleaseConnection` keeps a connection with a non-empty `recvq_` in `clients_` (`connection.cc:643-653`). So once the loop reaches a held connection it finds it at `begin()` forever. The thread then stays in `"spin"`: that socket and the ones before it are closed, and the ones after it stay open. No step ends it, because the handler's done closure can only run in the event loop, which has stopped; `Accept` (a whole `HandleAccept`, including the `SetSockOpt` failure that closes the socket); and the steps of the user's thread that return from a wait or join.
- **Named pieces of the user's calls:**
  - `ServerNew` is `Server::New`'s check of the options: `num_worker_thread` is positive (an ASSUME on `NumWorkers`), and a NULL base is allowed. `hasBase`, `has_base_`, is chosen in `Init` from both values and no step changes it, so one run covers both kinds of server;
  - `NewWorker(n)` appends the new threads to `workers_`. Each is set up by `InitWorker` (`Worker::Worker`, `InitWorker`: no clients), `InitEnviroment` (`Thread::InitEnviroment`: the break eventfd is not readable) and `NewEvQueue` (`EvQueue::EvQueue`: its eventfd is not readable and `quit_` is false);
  - `LinkTask(s)` and `ListenTask(on)` are the `Link` and `Listen` command objects of `command.h`;
  - `DeleteListener` is `Listener::~Listener`: the listening socket is closed, so the connections in its backlog are never accepted;
  - `ListenerStarted` is `Listener::Start` (BuildSocket, BuildEvent, UnresolveAddress), abstracted to success or failure;
  - `Signal` and `Waited` are the Listen command's `Completion::Signal` and the return of `Completion::Wait`.
- **Dispatch's counter.** `nxt_worker_` is an int of `Width` bits. `WorkerIndex` is `abs(++nxt_worker_) % num_worker_thread` with C's remainder.
- **Crash.** `DelServer` without a user base sends its Listen command to `workers_.back()`. When `workers_` is empty this is undefined behaviour, modelled as `main = "crashed"`, after which the process takes no step.

### `Timer` (the libevent one-shot wrapper, composed into ClientConnection)

`Timer` models `util/timer.cc` as a record: the callback `event_get_callback(&ev_)` returns (default or one-shot), whether `ev_` is pending, and the handler `Set` bound. Its methods are operators: `Set`, `SchedOneshot`, `SchedCancel`, `Expire` (what libevent and `oneshot_callback` do before the handler), `Destroy` and `Arm` (the `New*` idiom).
- Each misuse is recorded in `fault`:
  - the two `LOG(FATAL)`s (a running timer rescheduled, or the default callback run);
  - `Set` on a pending event, which `evtimer_set` re-initialises while it is still in libevent's heap;
  - a Timer freed while pending.
- `ClientConnection` owns one Timer, `tev`, for `timer_`:
  - `NewIdle`, `NewWatcher` and `NewHeartbeat` are `NewTimer`, and `DelTimer` cancels;
  - a timer handler runs only while its event is pending (`Pending`);
  - the constructor and destructor renew and destroy the Timer.
- `SchedPersist` is unused in the library and is not modelled. `Set`'s millisecond-to-`timeval` conversion is left out: libevent normalises a `tv_usec` of 1,000,000.
- One mutant is equivalent in qrpc's use and is not listed: a `oneshot_callback` that does not restore the default callback. Every `New*` calls `Set` before `SchedOneshot`, and `Set` restores it.

### Plan items that were carried out

- **Abstract RPC specification.** `RpcCall`, which Channel implements (`CallRefined`).
- **Timers of ClientMessage and ServerConnection.** Neither needs the `Timer` record. `NewMonitor` arms a message's timer once, and `UpdTimerKeepalive` cancels before it re-arms, so the Timer faults "running" and "reinit" cannot arise there. What is left is a timer still pending when its owner is deleted. For messages, `mon` is `monitor_` and `MonitorStoppedBeforeFree` checks it. For connections, `timer` is `has_timer_` and `ServerQueueDiscipline` checks that a closed connection has none.
- **Completion and thread startup.** Each `Thread` constructor waits on a `Completion` until its thread has run `InitEnviroment`. So, seen from the user's thread, `NewWorker` is atomic, and `Server` models it that way. The Listen command's `Completion` is modelled by `work`, `Signal` and `Waited`.

## Runs

| Run | Config | Expect | What it shows |
|---|---|---|---|
| channel | `MCChannel.cfg` | pass | With closures that only observe the result or re-issue a failed call, every interleaving of calls, cancels, timeouts, responses, heartbeats, failures and Close keeps the safety properties below. Under the fairness below, `CallRefined` holds: Channel implements `RpcCall`, fairness included. |
| channel_reentrant_cancel | `MCChannelReentrant.cfg` | violation | `CompletedOnce` fails (described below). |
| channel_stale_controller | `MCChannelStale.cfg` | violation | `ControllerStableAfterDone` fails (described below). |

The safety properties the channel run checks:
- `QueueDiscipline`: each message is in exactly one queue, and only unfinished messages wait for a reply.
- `SendOrder`: retransmission keeps call order.
- `WriteArmed`: no lost EV_WRITE.
- `StatusCallExclusive`: one heartbeat call at a time, and `has_status_` is exact.
- `CompletedOnce`.
- `MonitorStoppedBeforeFree`: no ClientMessage is deleted while its rpc_timeout timer is pending. This is `~ClientMessage`'s `assert(monitor_ == false)`; without assertions, libevent would run `HandleTimeout` on freed memory. The model's `Timeout` step needs a live message, so only this property notices a deleting path that skips `DelMonitor`. The mutant is a `CancelRpc` without `DelMonitor`.

The temporal property is `CallRefined`. Every call is deleted only after its closure ran. The closure sees either the server's answer, parsed in the same `RecvDone`, or kErrCancel/kErrTimeout with the buffer untouched, and that outcome never changes. Under the fairness, every call completes and is deleted. This covers calls retransmitted after faults, a frame in flight kept by `Cancel`, and heartbeat status calls. It also covers a request the server rejects (`connection.cc:397`): the server never answers it, and only the rpc_timeout ends the call. `CallRefined` also states what two earlier properties checked:
- `NoLateResponseWrite`: the response buffer is written only while the call is pending, so a response after a timeout or cancel, or a second one after a retransmission, is dropped. A `Detach` that frees a message found in `recvq_` without erasing it breaks this.
- `SuccessHasResponse`: a call whose closure saw success got a response. A controller starts at `kOk` and `ParseFromArray` does not reset it, so every cancel, timeout and error path must set a failing code before `Finish` runs the closure. Otherwise the closure sees success with no response, which is a step `RpcCall` does not allow.

The listed mutant of `CallRefined` is a `CancelRpc` without `SetCancel`. Other mutants break `CallRefined` too:
- the `Detach` above;
- a RecvFail that deletes the frame in flight whether or not it finished, so a pending call is freed without its closure running;
- a SendDone that leaks finished messages, which breaks the fairness part.

Two observations without a run:
- **A closure that re-issues its call.** `CancelAllRpc` walks the live `sendq_` while it runs closures (`channel_impl.cc:312-314`). A closure that re-issues its call on failure appends the new call to that list; the same loop cancels it and runs the closure again, which issues another. So `Close` or `Cancel` never returns with such a closure. The channel run has such closures: it reaches the cascade (each step of it is `RpcCall`'s `IssueCancelled`) and shows that no re-issued call is orphaned or left half-finished, but the cascade stops at `MaxCalls` because no later sequence number is modelled. The non-termination itself is inside one handler and is not a property of the model's steps; it is listed as a hazard without a property.
- **No cancel frame.** `spec.md` says a client-side cancel sends the peer a cancel frame on a best-effort basis. `ClientMessage::StartCancel` and `ChannelImpl::StartCancel` send none. In the repository only the server reads the cancel flag (`connection.cc:923`). The server therefore runs a cancelled request to its end, and its reply is dropped by the client's `RecvDone`. The models follow the code: `Channel` sends no cancel frame, and `ServerConnection` gets cancel frames from a peer that may send them (`PeerCancels`).

The two violation runs:
- **channel_reentrant_cancel.** A closure calls `Channel::Cancel()` while its call is the frame in flight. The closure then runs twice, because `ClientMessage::Finish` sets `finish_` only after `done_->Run()`. Five steps reach it: open, connect, call, partial write, cancel.
- **channel_stale_controller.** After a call times out while its frame is in flight, `Close` (or `Cancel`) calls `SetCancel()` on that finished message (`channel_impl.cc:302`). This overwrites the code of a controller that was already handed back to the user.

ClientStack runs:

| Run | Config | Expect | What it shows |
|---|---|---|---|
| client_stack | `MCClientStack.cfg` | pass | `ConnDiscipline`, `TimerSafe` and `StackWriteArmed` hold over every interleaving of two calls with faults, reconnects, close and reopen. Under the fairness below, so do `LinkRefined` and `StackCallsReleased`. |

What they mean:
- `ConnDiscipline`: while the connection exists, its timer is armed for exactly the state it is in (so no `New*` assert can fire), and its socket registration matches (EV_WRITE one-shot while connecting, a read event while connected). A deleted connection leaves no timer or event behind.
- `TimerSafe`: `timer_`'s libevent event is never misused. No `SchedOneshot` on a running timer, no expiry into `default_callback`, no `Set` of a pending event, and no Timer freed while pending. While the connection exists, `has_timer_` is true exactly when the event is pending, for the handler it names.
- `StackWriteArmed`: `Channel`'s `WriteArmed`, now over the real registration. A connected socket with queued requests has EV_WRITE registered, including after a replacement that connects at once.
- `LinkRefined`: `ClientLink`'s specification, fairness included.
- `StackCallsReleased`: every ClientMessage is eventually deleted (`Channel`'s `CallsEventuallyReleased`), across real reconnects.

**ClientStack bounds:**
- Three calls and two faults, as for `Channel`.
- One heartbeat tick over a run. The tick does not change the connection's own state; more ticks only add status calls, which `Channel`'s runs already cover.
- Two calls, not three. With three calls and fairness, the run takes over three minutes. The safety properties also hold with three calls: 45,383 states, with no outcome that two calls miss.

**ClientStack fairness:**
- Weak fairness on the idle and watchdog timers: a libevent one-shot timer that is armed fires.
- Strong fairness on the connect attempts that do not fail at once, and on a successful connect event. This means the server is reachable: an attempt made again and again eventually succeeds. Without this, a server that is down forever keeps the link down, which is not a bug.
- Each call's timeout, and a connected socket that eventually drains, as for `Channel`.

The ClientStack mutants: HandleWatchEvent without `event_del`, a `DelTimer` that clears `has_timer_` without `SchedCancel`, Connected registering EV_READ only, HandleConnectingEvent's failure path without `NewIdle`, and the `Channel` mutants for a Finish without its guard and a SendDone that leaks.

ServerConnection runs:

| Run | Config | Expect | What it shows |
|---|---|---|---|
| server | `MCServerConnection.cfg` | pass | With three requests, cancel frames and worker shutdown, every order of events keeps `ServerQueueDiscipline`, `NoDanglingConnection`, `ServerWriteArmed` and `CancelCallbackOnce` (described below). Under fairness, `ConnectionReleased` holds: every connection is eventually deleted unless its worker shuts down or crashes, which the exit and cancel runs examine. |
| server_exit_hang | `MCServerConnectionExit.cfg` | violation | `ExitWorker` spins forever when a request is still being handled at shutdown. |
| server_cancel_crash | `MCServerConnectionCancel.cfg` | violation | A cancel frame while nothing is being written dereferences a NULL `cur_send_` (`connection.cc:796`). A repeated cancel frame for a queued request also fails `CancelRequest`'s assertion in a build with assertions; both are outcomes this property rules out. |

What the server run's safety properties mean:
- `ServerQueueDiscipline`: the queues match the request states.
- `NoDanglingConnection`: the connection is never deleted while a handler holds one of its requests.
- `ServerWriteArmed`: EV_WRITE is armed whenever a response is queued.
- `CancelCallbackOnce`: each NotifyOnCancel callback runs exactly once.

An observation without a run: `OnRecv` ignores `RecvDone`'s false result (`connection.cc:397`), so a request for an unknown service leaves the connection open, while `spec.md` says it closes. The model keeps the code's behaviour (variable `rejected`). What that costs is checked on both sides:
- the open connection is still deleted by keepalive (`ConnectionReleased`);
- the client's call for that request is ended by its timeout (`Channel`'s `CallRefined`, where the server may never answer).

Why `ExitWorker` spins: the handler can only finish on the worker's own thread, whose loop has ended.

All ServerConnection configs set `CHECK_DEADLOCK FALSE`. A deleted connection, or a crashed worker, really takes no further step.

**Server bounds:** three requests, enough for a response in flight, one queued behind it and one being handled, rejected or cancelled. The safety properties also hold with four requests (130,700 states). With fairness, four requests take over ten minutes, and the mutants are all caught with three.

**Server fairness:**
- Each handler eventually runs done. This is an assumption about the service.
- The keepalive timer fires.
- A writable socket drains.
- The `ExitWorker` loop keeps turning.

**Channel bounds:**
- `MaxCalls = 3` and `MaxFaults = 2`. Three calls are enough for a call in flight, one waiting for its reply and one queued behind it, so every branch of `CancelAllRpc`, `StartCancel`/`OnRpcTimeout` and the reverse-walk retransmission is reached. Two faults allow a second retransmission after a retry.
- The heartbeat is on, so status calls interleave with user calls.
- `RetryOnFailure` is on, so a failed call may be re-issued from its closure in `RecvDone`, a timeout, a cancel or `Close`; with three calls a re-issue can itself fail and be re-issued once more.
- The run reaches 146,135 distinct states in under two minutes, most of it spent checking liveness.

**Channel fairness:**
- Weak fairness on each call's `Timeout`. While `monitor_` is set the libevent timer stays armed, so it fires.
- Weak fairness on `Connected`. The server is assumed reachable, and ClientConnection retries forever on its idle timer.
- Weak fairness on `SendProgress`, a write of at least one whole frame. A connected socket eventually drains.

Responses are not assumed to arrive; the timers alone must release every call.

Every property of a passing run has a mutant in `PROJECT.json`. A mutant is a plausible bug in a mapped definition, and TLC finds the property violated when that definition is replaced by it. The mutants are:
- a Finish without its guard;
- a SendDone that forgets `pop_front`, or leaks the message;
- retransmission walking forwards;
- Connected without EV_WRITE;
- a Keepalive that ignores sendq;
- RecvFail deleting an unfinished frame;
- StartCancel not erasing from recvq;
- on the server: OnRpcResponse not erasing from recvq, not enabling EV_WRITE or not releasing a closed connection;
- CloseConnection keeping `cur_send_`, or deleting responses without FinishMethod;
- ReleaseConnection ignoring recvq.

Deadlock is checked for Channel: `Cancel` is always enabled, as in the code, which never stops accepting user calls.

Framer runs:

| Run | Config | Expect | What it shows |
|---|---|---|---|
| framer | `MCFramer.cfg` | pass | A qrpc peer encodes three frames (payloads 1, 0 and 30 bytes) and writes them with short writes and EAGAIN; they arrive in chunks of any size from 1 to 8 bytes, and the peer may close, or fail in `send()`. The first message asks for snappy below the threshold, and the last is compressed with lz4. Another connection of the receiving thread may ask the shared scratch buffer for 17 bytes at any time. In every order, `FramesDelivered`, `BufferSane`, `WbufSane`, `NoDecodeAbort` and `ScratchFits` hold. Under fairness, `FramesEventuallyDelivered` and `FramesEventuallySent` hold. |
| framer_close_drops_frame | `MCFramerClose.cfg` | violation | `NoFrameDroppedAtClose` fails (described below). |
| framer_hostile_length | `MCFramerHostile.cfg` | violation | `BufferSane` fails (described below). |

What the framer properties mean:
- `FramesDelivered`: `RecvDone` receives exactly a prefix of the frames sent, each whole and in order. A header parsed in one callback is the one used when its payload completes in a later callback.
- `BufferSane`: `rcur_` and the `rbytes_` after it lie inside the buffer, through every `memmove`, `realloc` and `recv()`.
- `FramesEventuallyDelivered`: a frame that has fully arrived reaches `RecvDone` unless the connection closes first. This covers the 32-byte frame that needs more than the four doublings one callback allows.
- `WbufSane`: the bytes `send()` reads, from `wcur_` on, lie inside `wbuf_`; Encode grew it enough for the 32-byte frame.
- `FramesEventuallySent`: the sender eventually writes every frame unless the peer closes; a short write is continued on the next EV_WRITE.
- `NoDecodeAbort`: a qrpc peer's frames never make `Decode` reach LOG(FATAL). The comp byte `Encode` writes says how the body was encoded. This includes the first message, which asks for snappy but is below the threshold and goes out plain.
- `ScratchFits`: `ExpandBufferCache` always returns, and `RecvDone` never gets fewer bytes than the header says it parses. A compressed frame is uncompressed into a scratch buffer of at least `meta_ + data_` bytes, whatever size another connection of the thread left it at. The mutant reallocs `buffer_` to the size asked for instead of to `len_`. Then the other connection's 17-byte request leaves `len_` at 32 with 17 bytes allocated, and the 30-byte lz4 frame that follows is written past the buffer.
- `NoFrameDroppedAtClose`: a close never discards a frame that was already read whole.

The two findings:
- **framer_close_drops_frame.** One 4-byte frame arrives, fills the 2-byte buffer after one doubling, and is followed by the peer's FIN.
  - Because the buffer is full, `read_much` calls `recv()` again. That call returns 0, and `Recv` reports kRecvError for the whole call (`connection.cc:355`).
  - `OnRecv` then closes without parsing the bytes it has just read, so the frame is lost. The same stream with a different buffer size is delivered.
- **framer_hostile_length.** A header with length field 250, at the model's 8-bit width, is the int -6.
  - `Decode` never rejects a header (`connection.cc:255`; kDecodeError is never returned).
  - `rbytes_ >= -6` holds, so it advances `rcur_` by a negative amount, before `rbuf_`.
  - `spec.md` says the connection closes on a decode rejection, and that lengths are at most 2^31.

A third disagreement has a config but no run of the project's own: **a hostile data field hangs the receiver.** With `MCFramerScratch.cfg`, a peer sends one 1-byte zlib frame whose data field is 200, which is -56 at the 8-bit width. `tlc -config MCFramerScratch.cfg MCFramer` reports `ScratchFits` violated after the bytes arrive and one read. `Decode` converts `meta_ + data_` to `size_t` (`connection.cc:271`) without a check. `ExpandBufferCache` then doubles `len_` past 2^63 to 0 and loops forever (`compressor.cc:39`). With 32-bit ints and a 64-bit `size_t`, one 11-byte header does this to a server worker or a client thread. `spec.md` says the framer closes the connection when it rejects a frame. Every violation run slot of the project already holds a finding, so this one is a hazard with its property, reproduced by this config.

**Framer bounds:**
- `HdrSize = 2`, `MinRbuf = 2` and `Width = 8` scale down the 8-byte header and the int field. The 30-byte payload makes the 32-byte frame need 2→4→8→16→32, which hits the cap of four reallocs per callback.
- `MaxChunk = 8` lets one `recv()` see part of a frame, a whole frame, or several frames.
- `MinWbuf = 2` makes `Encode` grow the write buffer for the second and third frames, the third by four doublings at once (the do-while of `ExpandWbuf`).
- `Threshold = 4` (`kCompressionThreshold`, scaled). `Comps = <<3, 0, 2>>` for the run, so:
  - the 1-byte message asks for snappy and is sent plain;
  - the 30-byte message is compressed with lz4, and `wbuf_` grows to 64, past LZ4_compressBound(30) + header;
  - zlib's bound is the same kind of check and is not exercised.
  The close and hostile runs send plain frames. A hostile comp byte also kills the receiver: with `MCCompsHostile = <<5, 0>>`, TLC reports `NoDecodeAbort` violated. This is listed as a hazard, because the hostile run is kept for the negative length.
- `CacheMin = 4` and `SizeWidth = 16` scale 4096 and the 64-bit `size_t`. `OtherUses = {17}` makes the shared buffer reach a `len_` of 32 before the 30-byte frame, so the frame finds a buffer it fits without growing; alone, the frame grows it from 4 to 32. The run reaches 67,554 states in about a minute and a half.
- `MaxSend = 3`: one `send()` takes nothing (EAGAIN) or 3 bytes, or the rest of the frame when fewer are left. So a frame is written whole, or in several short writes. The counts in between lead to the same kSendAgain path. The receiver still sees every cut of the stream, because `Arrive` delivers it in chunks of any size. With every count from 0 to 4 the run reaches 87,409 states and takes over five minutes with no new outcome.

**Framer fairness:** weak fairness on the read event. EV_READ is level-triggered and persistent, so libevent calls `OnRecv` again while the socket has data or an end of file. The condition is written out with `ReadEnabled`, a state predicate equal to `ENABLED <<ReadEvent>>_vars`. Weak fairness on `SendTakes`, an EV_WRITE callback whose `send()` calls do not fail: EV_WRITE stays registered until `Send` returns kSendNothing, and a socket whose peer reads eventually becomes writable. A failing `send()` may happen but is never assumed, so a sender cannot meet `FramesEventuallySent` only by failing.

The config sets `CHECK_DEADLOCK FALSE`. A closed connection takes no further step, and once all frames have arrived and been read, the connection only waits.

The framer mutants:
- `Decode` that keeps the parsed header after a frame;
- `Recv` without the `memmove` to the front;
- `read_much` that does not grow the buffer;
- `read_much` that reads into a full buffer;
- `Encode` that writes the frame without growing `wbuf_`;
- `Encode` that clears compression below the threshold but still writes the message's own type into the header;
- `ExpandBufferCache` that reallocs to the request instead of to `len_`;
- `OnSend` that leaves `wmsg_` set after `SendDone`, so `Send` keeps writing the empty rest of the old frame and never takes the next message.

Server runs:

| Run | Config | Expect | What it shows |
|---|---|---|---|
| server_impl | `MCServer.cfg` | pass | With two workers, with and without a user event base, up to five user calls and two client connections, every interleaving of Add/Register/Start/Stop/delete with accepts, eventfd wakeups and worker shutdown keeps `NoSocketLeak` and `ServicesFreedOnce`. Under fairness, `MainReturns` and `LinksServed` hold. |
| server_stop_then_delete | `MCServerStop.cfg` | violation | `ShutdownSafe` fails: `Stop` before `Start` calls `workers_.back()` on an empty vector. |

What they mean:
- `NoSocketLeak`: every accepted socket is held by exactly one Link task or connection until it is closed, and by none after. Once the server is deleted, every accepted socket is closed. This covers a Link pushed to a queue that has quit, and an `ExitWorker` that misses a connection.
- `ServicesFreedOnce`: every service object the server was given to own is deleted exactly once: not while still in `services_` (a worker's `Find` could return it), not twice (by `Unregister` and again by `DelService`, or by `DelService` in `Stop` and again in the destructor), and none left undeleted. A borrowed service, such as `builtin_service_`, is never deleted.
- `MainReturns`: the user's thread never waits forever on the Listen command's Completion or on a join, unless a worker spins in `ExitWorker`. A lost eventfd wakeup, or a break event that is never written, would hang it. The spin is excluded because the server_exit_hang run already reports it: without that disjunct, TLC finds the join hanging behind a worker that stopped with a request held.
- `LinksServed`: every accepted socket eventually gets its ServerConnection or is closed.
- `ShutdownSafe`: Stop and the destructor never crash. `Stop` has its state check commented out (`server_impl.cc:289`) and clears `workers_`, so Stop before Start, Stop twice, or delete after Stop reaches `workers_.back()` on an empty vector (`server_impl.cc:171`). `spec.md` says an operation invalid in the current state returns an error.

**Server bounds:** two worker threads per Start and `MaxThreads = 2`, so one Start; two accepts, enough for two Link tasks in one queue or one in each; five user calls, enough for Add, Register, Start, Stop and delete, so with a user base `DelService` runs in both `Stop` and the destructor (without one, delete after Stop is the `ShutdownSafe` crash). Each accepted connection can have a request held when its worker stops, so `ExitWorker` meets both a connection it closes and one it spins on. `Width = 3` makes `nxt` a 3-bit int.

**Dispatch past the wrap, without a run.** `RoundRobin` says that `Dispatch` hands the k-th socket to `workers_[k mod n]`, also after `++nxt_worker_` wraps past INT_MAX. It is checked against the reference over the next 2^Width counter values. It holds for one or two workers only. Past the wrap, `-nxt_worker_` counts down. So with four workers the order reverses. With three, `abs(INT_MIN) % 3` is -2 (and `abs(INT_MIN)` is itself undefined), and `workers_[-2]` reads out of bounds. `tlc -config MCServerRoundRobin.cfg MCServer` reports it violated for three workers. Every violation run slot already holds a finding, so the hazard at `server_impl.cc:180` lists no property, and `MCServer.cfg` does not check `RoundRobin`.

**Server fairness:** weak fairness on every thread's steps: a pending eventfd write completes; libevent calls the callback of a ready event (eventfd, break event, listen socket); `OnEvent`'s loop and `ExitEnviroment` run to their end; and the user's thread returns from a wait or join that can return. The user's calls, clients' connects, requests and handlers finishing are not assumed. Both configs set `CHECK_DEADLOCK FALSE`: a deleted server, or a crashed process, takes no further step.

The Server mutants: `ExitEnviroment` that clears Link tasks without closing their sockets; `KillWorker` that sets `quit_` without writing the break event; `HandleAccept` that pushes the listen fd; a `SetSockOpt` failure that does not close the socket; and an `Unregister` that deletes an owned service but leaves it in `services_`.

## Not modelled, and why

- The codecs' data transformation (zlib, lz4, snappy) and protobuf serialisation: done by libraries. Only their outcomes and size bounds are modelled, in Framer, with `Compressor::ExpandBufferCache`. The per-thread table behind the channels' shared `Compressor` (`ChannelImpl::new_compressor_if_not` and `del_compressor_if_zero`, `channel_impl.cc` 48-96) is not modelled. Each of its two functions holds the table's mutex for the whole lookup and count update, and deletes only an entry it has erased, so its steps are atomic. Checking its reference count needs a module with several channels and threads, and a run of its own.
- Logging, fs, random, socket helpers, barrier and cmpxchg: I/O wrappers and helpers outside the RPC state machines.
- `ThreadPool` (`util/thread_pool.cc`) and `ZkManager` (`util/zk_manager.cc`): no other code in the repository uses either. They take no part in the RPC paths these modules check. `ZkManager`'s state is in the ZooKeeper C client's handle. `ThreadPool` (a mutex, a condition variable with a timed wait, and a task queue) would need a module and a run of its own.
- The clock-sampling keepalive of `ServerConnection` (`HandleClockKeepalive`, `NewClockKeepalive`), which `kUseClock = false` compiles out. Note that it compares `CurClock()`, in seconds, with `keep_alive_time * 1000`, in milliseconds. If it were switched on, idle connections would be kept 1000 times longer than configured.
- `Listener::HandleAccept` tests the listening `fd` instead of the accepted `sfd` (`listener.cc:176`), so a failed `accept()` is not retried on EINTR and reaches the socket-option calls with -1. They fail, and `close(-1)` is harmless, so a failed accept is the same as no accept. The model makes an accept possible only with a connection in the backlog.
- `Compressor::ByteSize` accepts data up to `kMaxDataSize` (2^31 - 1 - 65535), which is above `LZ4_MAX_INPUT_SIZE` (0x7E000000) (`compressor.cc:115`). An lz4 message between the two limits gets `kCompInvalidInput`, and `Encode` then `LOG(FATAL)`s. Framer scales payload sizes down, so the gap between the limits is not represented.
- Examples and benchmarks.
- An end-to-end composition of `Channel` and `ServerConnection` over `Framer`'s byte stream. Each is checked on its own: the channel against a server that may answer, reject or stay silent, the server connection against a peer that may send any request or cancel frame, and the framer between two `Connection`s. The channel run alone has 146,135 states and the framer run 67,554. A product of the three is far beyond what TLC explores in five minutes, and a smaller one would have to drop the faults, retries and partial writes that make each run worth checking.
