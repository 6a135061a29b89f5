# tf-rust-socketio: a TLA+ model and its proofs

The repository holds two crates. `engineio/` speaks Engine.IO (handshake, heartbeat, packets over HTTP
polling or websocket); `socketio/` speaks Socket.IO on top of it (namespaces, events, acknowledgements,
reconnects). Each exists in a synchronous and an asynchronous (tokio) form. This directory models the parts
whose correctness depends on the order in which tasks, threads, packets and failures happen, checks them
with TLC on small instances, and proves the central invariants with TLAPS for every instance.

Paths below are relative to `src/`; `socketio/` and `engineio/` stand for the `src/` directory of the crate.

## 1. Inventory

### Components

| Component | State | Operations | What is hard | What makes it correct | Status |
|---|---|---|---|---|---|
| Async client, session lifecycle: `socketio/asynchronous/client/{client,builder}.rs` | installed socket, `disconnect_reason`, `session_epoch`, `dispatch_tasks`, `reader_task`, `disconnect_operation` | packet loop, reconnect loop, dispatch of callbacks, `disconnect` | reader, callbacks and disconnects run at once; tasks are aborted at their awaits; handshakes and callbacks hang; a connection dies in the middle of an event | teardown is final; callbacks of a dead session are cut; each session's end is reported once and under its own epoch; `disconnect` always completes; a new session uses the settings asked for last | `AsyncClient`, `Reconnect`, `SessionLife` |
| Async client, acknowledgements: same file, `ack.rs` | `outstanding_acks` | `emit_with_ack`, `handle_ack`, timeout, abort at a session's end | colliding ids, answers handled by concurrent tasks, callbacks that are slow, panic or are aborted | an answer finds its entry; an entry is called with one answer, of its id, and never again; no call after the timeout | `AckTable` |
| Async Engine.IO socket and client: `engineio/asynchronous/async_socket.rs`, `client/async_client.rs` | `transport`, `connected`, `send_lock`, `closing`, `last_ping`, `generator` | `connect`, `emit`, `disconnect`, heartbeat, packet stream | clones call everything at once; writes and the stream are cancelled where they await; a peer that stops reading | a retired transport stays retired; one frame at a time; one Close frame; nothing waits for a dead peer | `EngineSocket` |
| Stream generators: `{socketio,engineio}/asynchronous/generator.rs` | the shared stream and its mutex | `poll_next`, `close` | a poll that meets the lock drops its waker; `close` drops the stream under a waiting poller | some poller is woken for what is there; nothing is taken twice | `Pollers`; `close` against a busy reader in `EngineSocket` |
| Socket.IO sockets: `socketio/asynchronous/socket.rs`, `socketio/socket.rs` | `connected`, the Engine.IO client; the lock the client keeps the socket behind | `connect`, `disconnect`, `emit`, packet stream or `poll`, binary attachments | emits, disconnects and a reconnect meet at the lock, with a peer that stalls; the flag is written by reader and application; an event spans several packets | a packet stays on one connection; nobody waits for ever behind a hanging emit; attachments join their own event | `SharedSocket`; framing and attachments in `Link`; the reader's panic in `AsyncClient` |
| Async Engine.IO transports: `engineio/asynchronous/async_transports/` | sender and receiver halves, URL | framing, polling, upgrade probe | a body arrives in chunks; binary and text share a stream | a packet is decoded from exactly its bytes | framing and chunks in `Link`, URLs and upgrade in `Handshake`, wakers in `Pollers`; HTTP and TLS are library I/O |
| Handshake and builders: `engineio/**/client/builder.rs`, `client.rs` | transport under construction, its URL | polling, websocket, probe, upgrade, fallback | one step of several fails, before or after the server acted on it | a built client uses the transport its session is served on, and names that session | `Handshake` |
| Sync Socket.IO client: `socketio/client/{raw_client,client,builder}.rs` | callback maps, `outstanding_acks`, `disconnect_reason`, the client behind a lock | polling thread, callbacks, reconnect, `disconnect`, `emit_with_ack` | callbacks run with mutexes held; threads poll and reconnect; counters | no self-deadlock; a lost connection ends in a reconnect or an end; a session is closed and reported before it is replaced, and open before it is installed | `SyncClient`, `SharedSocket`, `AckTable`; without `set_reconnect_url` |
| Sync Engine.IO socket: `engineio/socket.rs`, `client/client.rs` | `remaining_packets`, `connected`, `last_ping` | `connect`, `poll`, `emit`, `disconnect`, iterator | concurrent pollers; a timeout computed from a stale `last_ping` | no packet lost or read twice; a poll returns | `Pollers` |
| Packet codecs: `socketio/packet.rs`, `engineio/packet.rs` | none | encode, decode | counts, ids, separators at a boundary | what is sent is what is received, through framing, separators and base64 | `Codec`, run inside `Link` |
| Events and payloads: `socketio/event.rs`, `payload.rs`, the builders' `on`, `on_any` | registrations | conversions, the choice of callbacks for a packet | names the library keeps for itself, events without a name, payloads of three kinds | the callback that was registered hears what was sent | `Events`, run inside `Link` |
| Sync transports: `engineio/transports/` | client or socket handle, URL | `emit`, `poll` | the websocket ones block on the asynchronous transport | as their asynchronous form | framing in `Link`, `poll` and its timeout in `Pollers`; library I/O not modelled |
| Callback wrappers, errors, headers, benches, examples, CI | none of their own | type glue | - | - | not modelled |

### How they interact

`ClientBuilder::connect` opens the first session and `poll_stream` spawns the *reader* task. The reader pulls
packets from the Socket.IO socket's stream, which pulls Engine.IO packets from `Client::stream`, a stream
shared by all clones through a `StreamGenerator`; that stream answers Pings itself, so the reader's poll may
await a write. The reader hands each packet to a *dispatch task* of its own that looks a callback up in the
builder and awaits it. A lost transport ends the stream; the reader reports a Close and runs the reconnect
loop, which builds a new socket and installs it. `disconnect()` may be called from anywhere, also from a
callback: it runs in an owned task, serialised by `disconnect_operation`, aborts and joins the reader, sends
a DISCONNECT packet, closes the Engine.IO socket and aborts the dispatch tasks. `emit` goes from any task
down to the transport, serialised by `send_lock`. Answers to `emit_with_ack` come back through the reader and
a dispatch task.

The synchronous client has one thread of its own, which polls, runs callbacks inline and reconnects, and any
number of application threads; they meet at the RwLock around the installed `RawClient` and at the mutexes of
the callback registrations, both of which are held while user code runs.

### Hard behaviours

The list `hazards` of `PROJECT.json` names each at its line: interleavings of reader, dispatch tasks and
disconnects; state read before an await and used after it (epoch, reason, deadlines, armed timeouts);
aborts that take effect late; a connection lost in the middle of a binary event; counters at their limit;
stalled peers; locks held across user code; table entries that collide. Each names the properties that would
catch it, or says why there is none yet.

## 2. Modules

| Module | Role |
|---|---|
| `SessionLife` | what an asynchronous client promises: sessions one after another, each reported before the next, a disconnect that is final |
| `AsyncClient` | lifecycle of the asynchronous client, which implements `SessionLife`; `MCAsyncClient` adds TLC's symmetry, `AsyncClientProofs` the theorems |
| `Reconnect` | extends it by `on_reconnect` and the settings a reconnect is made with; theorems in `ReconnectProofs` |
| `AckTable` | `emit_with_ack` and `handle_ack` of both clients; theorems in `AckTableProofs` |
| `Channel` | what the clones of an asynchronous Engine.IO client share: a channel with one frame at a time, retired for good by one of them, with one Close frame |
| `EngineSocket` | asynchronous Engine.IO client and socket, which implements `Channel`; theorems in `EngineSocketProofs` |
| `Pollers` | several callers of one Engine.IO client of either kind, the stream generators, the callbacks; theorems in `PollersProofs` |
| `SyncClient` | polling thread, close chain and reconnect of the synchronous client; theorems in `SyncClientProofs` |
| `SharedSocket` | emits, disconnects and a reconnect of either client at the lock around the socket; theorems in `SharedSocketProofs` |
| `Handshake` | building a transport: URLs, polling, websocket, probe, upgrade, fallback |
| `Codec` | both packet formats as pure operators; theorems in `LinkProofs` |
| `Events` | extends it: event names, payloads, the packets made of them and the callbacks a packet is for |
| `Link` | extends `Handshake` and `Events`: a client is built, then packets cross the transport in both directions; theorems in `LinkProofs` |

An action is the code one task runs from one await to the next: tokio interleaves tasks at awaits (threads of the
synchronous client interleave at their locks and at shared memory), and where
two threads can interleave between awaits (a poll that tests one lock and takes another, an abort during a
poll) the action is split there. An operator `Action_Fault` is the action with the fault its suffix names
(a lock not taken, a step not awaited, the wrong list aborted). No specification uses one; with it in place
of the action, the property that names the hazard is violated.

### AsyncClient

| Model | Code |
|---|---|
| `poll`, `slot`, `PollSpawn`, `PollStore` | `poll_stream` spawns the reader and stores its handle in `reader_task` under the slot's lock |
| `rpc`, `hand`, `ReaderStream` | where the reader is suspended: waiting for an item (`next`), at the Manual guard (`guard`), writing the reason (`write`), cloning (`clone`); `as_stream`, `handle_socketio_packet` |
| `ReaderReconnect`, `attempts` | the reconnect loop: `on_reconnect` callback, new socket, install, Engine.IO connect, namespace open, backoff; `attempts` is a `u8`, modelled modulo `CounterSize` |
| `aborting`, `ReaderCancelled` | `JoinHandle::abort` takes effect at the reader's next await |
| `reason`, `epoch` | `disconnect_reason`, `session_epoch` |
| `transport`, `inbox`, `server`, `Environment` | the installed socket, packets in flight and the peer's namespace session; the network loses the transport, the server sends or leaves |
| `task`, `Dispatcher`, `UserReturns`, `AbortDispatch` | `dispatch_tasks`: a task is spawned, looks its registration up, awaits the user callback; the Close task goes on to `on_close_with_session`; aborting it spares terminal kinds unless told not to |
| `op`, `outcome`, `Disconnecting` | the steps of `disconnect`: mark Manual, take and abort the reader, join it, send, close, abort all tasks |

`Life` maps this state to `SessionLife`: `session` is `epoch`, `reported` is `notified`, the phase is `live` until a
disconnect has joined the reader, `fenced` until the transport is closed, then `retired`; a call is pending from the
moment `disconnect` is called until it returns. With `reconnect_on_disconnect` a session may be replaced unreported
(`Unreported`), which the comment in `poll_stream` provides for.

`notified` and `tries` are history variables. Packets are kinds; Event, BinaryEvent, Ack and
BinaryAck are dispatched alike and share one. A binary event is a header and one attachment.

### Reconnect

`hook` is where the callback `on_reconnect` is (in the builder, taken out for an attempt, put back), `config` the
settings in the builder and in the reader's clone of the client, each field numbered by the answer that set it. Every
action is one or several of `AsyncClient` with its effect on these: `SettingsApplied` is `HookReturns` with the
`ReconnectSettings`, `SocketMade` is `InnerCreate`, which reads address and headers from the builder, `SessionOpened` is
`OpenSession`, whose packet carries the auth of the reader's clone.

### AckTable

`async` says which client it is. The synchronous one answers on the polling thread, one packet at a time (`Busy`), takes
the first entry with the id (`order`, `Matched`) and starts every session with an empty table; a panicking callback
ends its thread. What follows is the asynchronous one.

`pc`, `id` and `table` follow `emit_with_ack` (draw an id, build the `Ack`, push it, send); `Expire` is its
timeout; `handler[q]` is the dispatch task of the answer to request q: it drains the table of every entry with
the answer's id under the lock (`Drain`), then calls the entries one after the other without it (`NextEntry`,
`UserReturns`), checking each deadline when its turn comes. `EndSession` aborts the tasks and forgets what the
old server could still answer; the table stays. The order of entries in one task is left open, since the code
keeps no promise about it. `Shapes` says what an answer carries.

### EngineSocket

| Model | Code |
|---|---|
| `connected`, `present` | `Socket::connected`; the transport is still in its slot. `closing` is sent in the same critical section that takes it, so it is the negation of `present` |
| `sendLock` | `send_lock` |
| `gen`, `CloserReplacesStream` | the shared generator; `close()` drops the stream where it awaits, with a lock it may hold and the packets it did not read, and the waiting task is parked |
| `pc` | where each call of `connect`, `emit`, `disconnect` and the reader is; only the reader distinguishes success from an error |
| `ConnectPublishes`, `ConnectPings` | `connect`: publish under the transport's lock, reset `last_ping`, send the first Pong through `emit` |
| `EmitChecks` .. `EmitCancelled` | `emit`: test `connected`, clone the transport, `select!` between `closing` and (lock, write). One poll of the select is two actions, `EmitPolls` and `EmitLocks`, because another thread can close the socket between its branches |
| `EnderTakes` .. `EnderTimesOut` | `Socket::disconnect`, by a caller or by the reader whose heartbeat failed: take, then lock and Close frame within one second |
| `ReaderPolls` .. `ReaderYields` | `as_stream` inside `Client::stream`: arm the timeout, take a packet, answer a Ping, end with an error |
| `overdue`, `early` | `last_ping` is older than the allowed interval; the timeout the reader waits on was armed before `connect` moved `last_ping` |

`Clones` maps this state to `Channel`: the phase is `retired` once `present` is false and otherwise `connected`; a sender is
`bound` at `polled`, after the select saw the transport and before it takes the lock; a frame is under way at `sending` and
`closing`; the closer waits at `lock`. So a frame may still follow a retirement, even its Close frame, if the sender
looked before: its `select` tested `closing` before another thread closed the socket, and the write may be accepted
in the same poll.

The callbacks of this layer are in `Pollers`. A frame is not modelled beyond who writes it.

### Pollers

One module for both Engine.IO clients (`async`), as their callers see the same promise.

| Model | Code |
|---|---|
| `Checks`, `TakesRest`, `Fetches`, `FetchFails`, `Stores` | `Socket::poll` of a thread: test `connected`, take from `remaining_packets` under its write lock, or compute a timeout from `last_ping` and wait in the transport, then replace `remaining_packets` |
| `Handles`, `SendsPong` | the rest of `Client::poll`: callbacks inline, a Close packet clears `connected`, a Ping moves `last_ping` and is answered |
| `polling`, `GivesUp` | the transport of a synchronous client: a failed HTTP request may have reached the server, whose answer is lost with it (`lossy`); and its timeout is that of the whole request, so that one of zero (`time_to_next_ping` of an overdue client) fails whatever waits. A websocket is read before its timeout is looked at |
| `early`, `armed` | who waits with a timeout computed before `last_ping` moved; whether the asynchronous stream waits with one it took before, which `connect` does not touch (`async_socket.rs:292`) |
| `holder`, `waker`, `stream`, `Locks` .. `FindsEnd` | `StreamGenerator::poll_next`: `ready!(mutex.lock().poll)`, one poll of the stream under the mutex, `Pending` leaves the task's waker with the stream. A contended poll drops its place in the mutex's queue (`FindsContended`) |
| `YieldsPacket`, `YieldsEnd` | `as_stream` and `Client::stream`: the next packet of the payload, an end by a packet that does not decode, a Pong that is refused, a missing ping |
| `Closes`, `Disconnects`, `Connects` | the application's calls; `close()` drops the stream with what it has read |
| `hooks`, `told`, `HandlePacket`, `Refusal` | which callbacks were registered, and their calls: inline on a thread, spawned by a task. `told` lists the calls of each callback, and for a task the order in which they were spawned |

### SyncClient

A `RawClient` is named by the number of its session, which is `session_epoch` right after its `connect`.

| Model | Code |
|---|---|
| `cur`, `readers`, `CanRead`, `CanWrite` | the RwLock `Client::client`; a reader waits behind a queued writer, as std's lock on Linux does |
| `on` | the mutex of the `on()` registrations, held while a callback runs; a callback that called `disconnect()` here would lock itself out (`raw_client.rs:347`), so callbacks are taken not to |
| `taken` | `on_close_with_session`, taken out of its mutex while it runs and put back after; such a callback may call `disconnect()` again (`CallbackDisconnects`, `inner`) |
| `Closing` | the labels inside `RawClient::disconnect` and `callback_close`: `leave` (send and close the engine), `load` (read the epoch), `legacy` and `legacyUser` (the `on(Close)` callback), `take`, `session`, `closed` |
| `PollerReads` .. `PollerFindsStopped` | `Iter::next`: read guard, test of `connected`, wait in the transport, dispatch. The test and the wait are two actions: a packet that arrives after a `disconnect()` is still handled |
| `PollerJudges` .. `Installs` | `poll_callback`, `reconnect`, `do_reconnect`: which items lead to a reconnect, the disconnect before it, attempts, handshake, write lock |
| `engine`, `wire` | `connected` of each session's Engine.IO socket; whether its transport still works |

`reported` and `tries` are history variables. The flag of `socket.rs` only decides whether a packet may be
sent: it is in `SharedSocket`, with the packets.

### SharedSocket

| Model | Code |
|---|---|
| `readers`, `writer`, `queue`, `Grants` | the lock around the asynchronous `Socket` (tokio: first come, first served) or the synchronous `RawClient` (std: no order promised) |
| `engine`, `flag`, `Open` | state of each session's Engine.IO socket; `Socket::connected`; the test `send` begins with |
| `EmitterCalls`, `EmitterChecks`, `EmitterSends` | `emit`, `ack`, `emit_with_ack`: read guard, test, a frame per packet and attachment |
| `CloserCalls`, `CloserFences`, `EnderLeaves`, `EnderCloses` | `disconnect`: the asynchronous one stops the reader first and waits a second for the Disconnect packet; the synchronous one, also called by its polling thread before a reconnect, waits as long as the peer makes it |
| `ReaderPolls` .. `ReaderFindsStopped` | what the reader does to the socket, and under which guard |
| `ReaderDials` .. `ReaderOpens` | reconnect: the asynchronous client installs a socket and then connects it, the synchronous one the other way round; both wait for the write guard |
| `peer` | alive, stalled (takes no more frames, reports no error) or broken |

What a frame costs below the socket is `EngineSocket`'s matter; here it is sent, fails or hangs. `wire` is a history
variable.

### Handshake, Codec, Events and Link

`Handshake` is the Engine.IO `ClientBuilder` of either crate flavour. `mode` is the Socket.IO `TransportType`, that
is the build function called; `clone` says that `build_with_fallback` is still trying its clone; `sid` and
`offered` are what the builder's handshake holds. `url` is the builder's URL (scheme, path, the session in its query) and
`base` what the transport made of it. `serves` is the server's side: on which transport it
reads each session, which it knows only by the session a request's URL names. `BuildFails` is the `?` of every step. A
request can fail after the server acted on it,
so the server may have turned to the websocket for a client that fell back to polling.

`Codec` translates the encoders and decoders: `Packet`, `Encode`, `Decode` for Socket.IO, `EngineEncode`,
`EngineDecode`, `Join` and `Split` for Engine.IO. Text and bytes are sequences of tokens: the characters
that mean something to a decoder, digits, names, placeholders. What the alphabet cannot tell apart (escapes in
JSON, the value of a number beyond two digits) is left out.

`Events` has the names of events in both directions (`EventOf`, `AsStr`, `StringOf`), the conversions to `Payload`, the
packets made of payloads (`NewFromPayload`, `AckFromPayload`), registrations and `Calls`: the callbacks a packet is for,
with their arguments (`handle_event`, `handle_binary_event`, `handle_ack`, `callback`).

| Model (`Link`) | Code |
|---|---|
| `Emits`, `EmitsWithAck`, `Answers` | what an application gives to `emit`, `emit_with_ack`, `ack` and `ack_with_id`, in payloads made in each way |
| `Begins`, `Continues`, `Abandons`, `Frames` | `Socket::send` of both crates: the packet, then each attachment, as separate emits; an emit may fail and the task may be dropped |
| `PollingFrame`, `WebsocketFrame`, `OnWire` | `emit` of the transports: base64 over polling, a binary message over the websocket |
| `wire`, `Chunks` | what one read of the transport returns: a websocket message, a whole body, or, for the asynchronous polling transport, a part of it |
| `Receives`, `todo` | Engine.IO's stream or `poll`: decode the payload, keep the packets that are left |
| `Assembled`, `part`, `Handles` | `handle_engineio_packet`: a packet that is waiting for attachments; then the calls of a whole one |
| `dispatched`, `Dispatches`, `tasks`, `Runs`, `made` | the calls of a packet, in the order packets are read: the synchronous client makes them at once; the asynchronous one spawns a task (`spawn_dispatch`), which makes them when the executor gets to it, or is aborted first. `made` says which calls were made |
| `Fails`, `Told` | an Engine.IO error ends the session in both clients; a Socket.IO error ends the stream of the asynchronous client only; either is told to a callback for errors. The end of the asynchronous stream aborts the tasks that have not run, except that for the error (`abort_dispatch(false)`) |
| `BinaryRequests` | whether the application passes bytes to `emit_with_ack` |

The peer (`PeerSends`, `PeerTakes`) is a server that follows the protocol; it is external. `due`, `spoilt`, `emitted`
and `mixed` are history variables: what the peer's packets ask for, whether one of them is not read as it was meant (the
carrier cut or garbled it, or it has a second attachment), what was sent, and whether a send was mixed with another.

## 3. Runs

| Run | Asks | Result |
|---|---|---|
| `network` | the default configuration with two concurrent disconnects: does the client implement `SessionLife` (`ImplementsLife`), is no dispatch task left behind a disconnect or a session, is each death reported once, under its number | holds |
| `teardown` | a limited client that also reconnects after a server Disconnect and gets binary events, so that half-open sockets are streamed and the reader may panic; nothing is assumed of network or user code. Does `disconnect` complete, is a Close dispatched? | holds |
| `recovery` | with `on_reconnect` and its settings, attempts that fail anywhere and a network that is reached at last: is every session opened with the settings asked for last (`OpenedAsAsked`), is the callback asked in every attempt (`HookConsulted`), does a lost transport lead to a new session (`Recovers`)? | holds |
| `attempts` | does `max_reconnect_attempts` bound the reconnects? | violated: it ends the inner loop, the outer loop starts another |
| `panic` | is each session that died reported, with binary events? | violated: `unwrap()` on a missing attachment ends the reader |
| `acks_table` | either client, two requests whose ids may collide, failing sends, timeouts, session ends, panics: does an answer find its entry, is each callback called with one answer of its id, and are drained entries called? | holds |
| `engine_calls` | connect, emit, two disconnects, the heartbeat: `Retired`, `OneCloseFrame`, `StreamReleased`; is the socket a `Channel` (`ImplementsChannel`: one frame at a time, none by who looks later than the retirement)? And does a stalled peer keep an emit of a closed socket, a disconnect, or a waiting reader? | holds; it does not |
| `pollers` | two callers of one client of either kind, with the callbacks: is each packet handed out once and in order (`OnceInOrder`), is somebody woken for it (`SomeoneIsWoken`, `ArrivedIsTaken`), does a poll return (`PollReturns`), do callbacks hear of every packet and of every end (`CallbacksTold`)? | holds |
| `sync_threads` | the polling thread of the synchronous client reconnects while two application threads disconnect: `OneSessionOpen`, `ReplacedReported`, `LimitKept`, and nobody is locked out (`DisconnectReturns`, `LossHandled`) | holds |
| `sync_epoch` | is a dead session reported under its own number? | violated: the poller counts the next session before it installs it, and a disconnect in between reads the new number |
| `shared_socket` | an emit, a disconnect and a reconnect at the socket's lock, in either client: do a packet's frames stay on one connection (`PacketUndivided`), does the synchronous client open a session before anyone sends on it (`InstalledOpen`), do a reconnect and a disconnect get through although an emit hangs (`ReconnectEnds`, `DisconnectGetsThrough`)? | holds |
| `link_packets` | every way to build a client and to fail at it, then packets both ways over the transport that was built: is it the one the server reads, in the session its URL names (`SessionServed`); do tasks and threads call callbacks with what was sent, each call once, and for nothing else (`CalledAsSent`), and for all of it but what the end of a stream cuts (`ArrivedIsCalled`); does the peer get each packet with its own attachments, as it was meant (`GotAsEmitted`)? | holds, within the limits below, for applications that ask for no answer to bytes |

A violated run quotes, in `findings`, the sentence of the repository it contradicts.

Two more configurations are kept beside the runs. Each of them drops a hypothesis under which a run above passes, and
TLC finds the property violated there in a few seconds:

* `tlc -config AsyncClient_reason.cfg MCAsyncClient`: `SessionEndNotified` with `reconnect_on_disconnect`. After a
  server Disconnect, the reason `Server` stays until the next session handles its Connect packet (`client.rs:851`). A
  session that ends before that takes the branch at `client.rs:298`, which dispatches no Close although no Disconnect
  packet of its own reported it.
* `tlc -config Link_requests.cfg Link`: `GotAsEmitted` for applications that pass bytes to `emit_with_ack`
  (`BinaryRequests`). `new_from_payload` (`packet.rs:46`) makes a BinaryAck packet of an event with bytes and an id. The
  server reads it as an answer, where the documentation of `emit_with_ack` (`client.rs:551`) promises a message the server can
  acknowledge. No callback is called there and nobody answers.

The models also contain behaviours no run asserts anything about, because they follow from one line once it is
read: an aborted dispatch task in the middle of its poll still starts its callback after `disconnect()`
returned; a Connect packet in the reader's hand overwrites a Manual reason recorded meanwhile; the `u8` attempt counter wraps before it exceeds a limit of 255;
an answer with data and an attachment calls its callback twice; an answer calls the callbacks of every outstanding
request with its id, of 999 ids drawn without a look at the table; a drained entry whose turn comes after its
deadline is dropped although its answer came in time.

Of the asynchronous sockets: after a reconnect has installed its socket, and before that is open, an emit may put its
packet before the opening one (`client.rs:175`; the synchronous client opens first, `InstalledOpen`); a peer that stalls
while a Pong is written is not detected, since the Pong is awaited outside the ping timeout (`async_socket.rs:116`);
`on_close` is called a second time by a `disconnect()` that follows a Close packet; a task that sleeps in `next()` when
`close()` drops the stream is not woken by it (`generator.rs:32`).

In the synchronous client: a `disconnect()` made while the poller waits in the transport is followed by a
reconnect, since the Pong that fails afterwards, or the transport's error, is a reason to reconnect; a socket
stopped by `disconnect()` or by an Engine.IO Close is none, and the loop spins on it (`client.rs:286` says so);
a server Disconnect with `reconnect_on_disconnect` is reported twice for one session; a callback that calls
`set_reconnect_url` while `do_reconnect` holds the builder and waits for the write lock waits for ever.

A stopped synchronous socket may be polled with a timeout computed before the last Ping, so that a poll fails early
(`early`); two threads that fetch at once replace each other's rest, and a polling request that fails may lose the payload it
was answered with (`lossy`, both excluded from the order `OnceInOrder` states). Once the ping of a synchronous polling client is
overdue its requests time out at once, the Ping that would help stays on the server, and the client, still `connected`, never
takes what arrived: `ArrivedIsTaken` is therefore about the other transports.

On the link, and excluded by the hypotheses of the properties above: two tasks that send a binary packet at once, or a send that is dropped
between header and attachment, mix attachments up (`mixed`); the asynchronous polling transport decodes each
chunk of a body as a payload of its own, so a body that arrives in two parts is lost or misread; a websocket
attachment that is empty or contains the separator byte 0x1e is refused or split; a binary event with two
attachments keeps a placeholder in its name, so that only `on_any` hears of it, and with one of them (all three: `spoilt`; a polling
body that holds such a packet, or comes in chunks, is due up to the one before it, since a chunk that does not decode takes
the packets next to it along). Where the asynchronous stream ends on such a packet, events that came before it in good order may
still lose their calls, if their tasks have not run (`Cut`). Not excluded, and part of what
`CalledAsSent` and `GotAsEmitted` expect: the library's own event `connect` is written `connect` in
text packets and `open` in binary ones; the name of an event is taken for the library's own in any case of letters; an
event with one value is dispatched as Message. A packet whose remainder is all digits loses its id.
After a fallback the session of the first handshake is left to the server's timeout. A probe that is
never answered keeps `build_with_fallback` waiting.

### Bounds

| Bound | Value | Why enough |
|---|---|---|
| `Ops`, `Closers` | 2 | the second call meets every state the first can leave; operations are serialised, a third repeats the second |
| `Slots` | 1 or 2 dispatch tasks alive | a terminal and a plain task, or tasks of two sessions, side by side; the properties speak of one task and the session |
| `MaxEpoch` | 2 sessions (3 in `AsyncClient_reason.cfg`) | one reconnect makes an old and a new session, and no property speaks of three; a session is replaced unreported when a third one opens |
| `MaxInbox` | 1 or 2 packets | a packet buffered behind the one in the reader's hand; a header with its attachment |
| `MaxAttempts`, `CounterSize` | 1 of 256 | the first attempt within the limit and the first beyond it |
| `Reqs`, `Ids` | 2 over 2 | two requests that collide or not, each answered by its own task; the proofs cover any number |
| `Users`, `MaxCalls` | 2 threads, 1 call each (one thread for `sync_epoch`) | two closes of one session at once, beside the poller's own; the proofs cover any number |
| `MaxSessions`, `MaxAttempts` (sync) | 3, 2 | a callback put back must be found by the next session's close; a round of attempts that fails and one that succeeds late. `MaxAttempts` stays below 255, where the `u8` test could never be passed; unlimited attempts and the backoff are left out |
| `MaxPackets`, `Senders` | 2, 2 | a batch of two packets, or one after another, or one each way; two sends that overlap. Every batch meets every cut of its body, both carriers and both clients |
| `BinaryRequests` | FALSE, TRUE in `Link_requests.cfg` | with TRUE one `emit_with_ack` of bytes refutes `GotAsEmitted` |
| `MaxRefresh` | 1 | one answer that changes settings, before or after an attempt that fails; a field set again replaces as a field set once |
| `Callers`, `MaxPayloads`, `MaxConnects` | 2, 2, 1 | a poll that contends, a thread that fetches beside another, a payload with a rest and one after it (`Shapes`: none, a message, a message before a Ping, a Close before a message, garbage) |
| `Emitters`, `Closers`, `MaxSessions` (`SharedSocket`) | 1, 1, 2 | with the reader three parties at the lock, one of them for each guard; one reconnect |
| `Connects`, `Emits` | 1 each | with the reader's Pong and the disconnects four tasks compete for one lock and one transport; the proofs cover any number |

`CHECK_DEADLOCK FALSE` everywhere: a client that was disconnected, or whose reader ended, stops. Symmetry is
used only in the run `network`, which has no liveness property.

### Fairness

`ExecutorSpec` (each module) assumes what tokio gives: a task that can run runs, a timer fires, an aborted
task is dropped at its next await, a task that waits on a tokio mutex gets it in turn (its queue is first
come, first served: strong fairness for `CloserReplacesStream`, which competes with a reader that polls again
and again). Nothing is assumed of the network, of the peer or of user callbacks: no frame need be accepted,
no handshake or callback need return. `RecoveryFairness` adds what recovery cannot do without: user callbacks
return, timers fire, and a server contacted again and again answers at last. `TakenIsCalled` states its own
assumption, `CallbacksReturn`: that ack callbacks return.

`ThreadSpec` (`SyncClient`) assumes that threads run, that the transport accepts or refuses a write, that
callbacks return and handshakes end: the synchronous client runs them inline and has no other thread to go on
with, so without this nothing in it can be promised. The mutex of the registrations is competed for by threads
that come back to it: it is granted under strong fairness. Nothing makes the peer send or the wire break.

`CallersSpec` (`Pollers`) assumes that threads run, woken tasks are polled (a task that sleeps is not), time passes and
the application goes on asking for packets.

In `SharedSocket` the lock grants what it can grant, and tasks that hold a guard go on; a frame that the peer neither
takes nor refuses stays where it is. `ReconnectEnds` states its own assumption, that no peer stays stalled for ever.

`ReaderSpec` (`Link`) assumes that the reader goes on as long as its stream has not ended, that the executor runs the tasks it
was given, in any order, and that user callbacks return.

## 4. Proofs

Proved by TLAPS for every value of the constants, from `ConstantsAssumption`, `AckAssumption`,
`EngineAssumption`, `SyncAssumption`, `SocketAssumption`, `PollersAssumption` and `RefreshAssumption` (the counters are natural
numbers, the limit fits the counter, the kinds of calls are disjoint, none is the value that stands for nobody, and somebody
polls). `LinkProofs` has two more, which speak of no parameter and are therefore settled by TLC, which computes them at
the start of the run: `CodecAssumption`, every single request of the model, carried to a peer by either transport, is
understood as it was meant; `ReadingAssumption`, every single packet of the peer, carried by either transport, waits for its
attachments and leads, with the last of them, to the calls it asks for (over the websocket, if it is not garbled).

* `AsyncClientProofs`: `TypeCorrect`; `FenceHolds` and `RetiredForGoodHolds` from `FenceInv`, which says where
  the slot, the join and the reader are at each step of the one operation that is running (an operation past
  the join implies the reader has stopped and no handle can appear again); `NoOrphanTaskHolds` and
  `NoTaskOutlivesSessionHolds` from `TaskInv`, which adds that plain tasks are cut wherever the reader is
  outside its stream, so that a new epoch starts without them.
  `ImplementsLifeHolds` is the refinement of `SessionLife`, from `FenceInv` and `ReportInv` (a reader past its stream's end
  has reported the session, unless `reconnect_on_disconnect` excuses it).
  `TerminalTasksSparedHolds` needs nothing but the types. Three more have hypotheses, which are configurations of the
  builder and among them its defaults. `CloseNamesDeadSessionHolds` (from `CloseInv`) and `OneClosePerSessionHolds` (from
  `ReportedInv`: a session that was reported is streamed only behind the server's Disconnect packet, and `LeaveInv`: nothing
  comes after that packet) assume `~Limited`: a client past its attempt limit streams a socket whose handshake it
  gave up, under the number of the session it has reported (the finding of `attempts`). `SessionEndNotifiedHolds` (from `EndInv`)
  assumes `~ReconnectOnDisconnect` and `~BinaryEvents`: a session opened under a `Server` reason that survived may die
  unreported (`AsyncClient_reason.cfg`), and the reader may panic (the finding of `panic`).
* `ReconnectProofs`: `ReconnectImplementsClient`, since every step of `Reconnect` is one of `AsyncClient`; with it the
  theorems above hold there too (`ReconnectFenced` states two). `HookConsultedHolds` from `HookInv` (the callback is out of
  the builder only while the reader awaits it, and lost only once the reader has stopped); `OpenedAsAskedHolds` from
  `SettingsInv` (a socket that was made is connected before anything can change the settings it was made with).
* `AckTableProofs`: `TypeCorrect`; `AnswerFindsEntryHolds` and `OneAnswerPerAckHolds` from
  `AckInv`: an entry is in the table, or in the hands of one task that is its `drainer`, or done; a request
  the server can answer was registered; what a task holds has the id of its answer.
* `EngineSocketProofs`: `TypeCorrect`; `RetiredHolds`; `FrameAtATimeHolds`; `OneCloseFrameHolds` from
  `CloseInv` (who is in the closing section took the transport, and after the frame was begun nobody waits to
  begin one); `StreamReleasedHolds` from `ReleaseInv` (a disconnect past the generator has replaced the stream,
  and a replaced stream is never entered). `ImplementsChannelHolds` is the refinement of `Channel`, from these: `LockIsFrame` (a
  frame is under way exactly while `send_lock` is held) and `OneWaits` (who waits to close is alone).
* `SyncClientProofs`: `TypeCorrect`; `OneSessionOpenHolds` from `SessionInv` (sessions before the newest are
  closed, and the poller past its own disconnect has closed the installed one); `LimitKeptHolds` from
  `RoundInv` (failed handshakes are counted by the attempts of the round, and after a round that gave up the
  session's socket is closed and stays so, so no item can start another); `ReplacedReportedHolds` from
  `ReportInv`.
* `SharedSocketProofs`: `LockInOrder` (a writer is alone, who sends holds a read guard, who installs holds the write
  guard, who waits has one request) and `TypeCorrect`; from them `PacketUndividedHolds` (a call between header and
  attachment has its header on the connection that is installed, and no socket is installed meanwhile) and
  `InstalledOpenHolds` (a request to install exists only for a session whose opening packet is out).
* `PollersProofs`: `SomeoneIsWokenHolds` from `WokenInv` (a waker is kept only while there is nothing to read, and while
  none is kept somebody is awake). `OnceInOrderHolds` from `WayInv`: seen as a flow (`Flow`), every step moves at most one
  packet or payload from the wire to a thread, to the rest or to who asked; `NumberInv` says that these places are
  disjoint and that those nearer to the server hold higher numbers, `CoverInv` that while fetches do not overlap and
  no answer is lost, nothing is missing below what was seen. `CallbacksToldHolds` adds `HandleInv` (a packet taken but not
  yet told is in the hands of one thread) and `EndedInv` (who ends a connection has told `on_close`). `TypeCorrect`.
* `LinkProofs`: `SessionServedHolds` from `HandshakeInv`: a build without a handshake has no session, and one that
  considers or tries the upgrade has a session the server still serves by polling, so that only the
  announced upgrade turns it; a failed build keeps nothing of it (`FailureForgets`). `GotAsEmittedHolds` from `SendInv`
  (either the peer has all that was emitted, or one sender is between header and attachment and the peer lacks that packet
  alone) and from `CodecAssumption`, under `~BinaryRequests` (`Link_requests.cfg`): what the codecs do to one packet is computed, what many senders do with many is proved.
  `CalledAsSentHolds` from `ReadInv`, `TaskInv` (a call that was made was dispatched, and no task has made the calls it has yet to
  make, which are its own) and `ReadingAssumption`: as long as what is under way is readable, the reader's way (`Way`)
  from its present state over the packets polled (`todo`) and the frames or bodies on the wire leads to dispatching the calls that are due
  (`Clear`); over frames and bodies before the first spoilt one once there is such a one, and past it all that was due has been
  dispatched (`Past`). That a batch of packets is readable when each packet is, is proved over its length: its frames one after another
  on the websocket, or joined to one body and taken apart again (`PayloadRoundTrip`).
  Four theorems are about the codecs alone, for texts and packets of any length and number, beyond the few packets of the model:
  `PayloadRoundTrip` (`Split` undoes `Join` unless a packet contains the separator), `EngineRoundTrip` (`EngineDecode` undoes
  `EngineEncode`, base64 included), `BodyRoundTrip` (a body is read back as its packets: a separator inside of an attachment
  does no harm, since base64 hides it) and `PacketRoundTrip` (`Decode` undoes `Encode` for packets without attachments; an id without
  data is excluded, since the code takes its digits for data).

Each follows the same argument: the initial states satisfy the invariant, every action preserves it (one
step per action), it implies the property. None of the invariants is inductive by itself, which is why the
stronger ones above exist; the type invariant is proved first and used by all.

Only model-checked: liveness (`DisconnectCompletes`, `CloseNotDelayed`, `Recovers`, `TakenIsCalled`, `EmitReleased`,
`SilenceNoticed`, `PollReturns`, `ArrivedIsTaken`, `DisconnectReturns`, `LossHandled`, `ReconnectEnds`,
`DisconnectGetsThrough`, `ArrivedIsCalled`), since the prover has no support for fairness, and the two computations
above, of binary Socket.IO packets among them. Where a proof goes over the length of a sequence it is an induction on sets of natural
numbers (`SetInduction` in `LinkProofs`), which needs no operator as a parameter, over functions written without `RECURSIVE`
(`Split` of `Codec` among them).

## 5. Plan

Done: the asynchronous client and the asynchronous Engine.IO socket with their abstract specifications, acknowledgements,
both Engine.IO clients, the synchronous client, the socket's lock, building a transport, and packets across it. Left:

1. `set_reconnect_url`, with panicking callbacks of the synchronous client and the locks they poison.

## 6. Not modelled, and why

Hosts, queries other than the session, headers and TLS settings, and JSON beyond brackets and commas (no property
depends on them); HTTP, TLS and websocket library calls, which appear as outcomes of a step; of the synchronous client
`set_reconnect_url`, panicking callbacks and the poisoned locks they leave; `set_base_url`, which only tests call; the
wrappers that make callbacks comparable to their types, header maps, errors' texts, `Debug` and logging; benches, examples
and CI; memory and the allocator.
