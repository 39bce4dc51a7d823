# HyperRoute in TLA+

HyperRoute routes orders: a client (protocol A) sends a request over TCP, a
*source session* passes it through a *router* to a *destination session*,
which sends it on to a venue (protocol B); the venue's report finds its way
back to the client.  The framework is in `src/framework`, the protocols and
sessions it is instantiated with in `src/examples/trading_system`.

This directory holds TLA+ modules translated from that code, TLC runs that
check them on small instances, and proofs for every instance that `tlapm`
checks.  Names of the code are kept, its misspellings included
(`procoess_message_from_transport`).

## 1. The system

### Parts, state and operations

| Part | State | Operations |
|---|---|---|
| `SourceSessionProtocolA` on `SourceSession` | `cl_ord_id_to_uid_`: the chain (uid) of each order | request from client: look up or draw the uid, route, reject, record; report: send to client |
| `DestinationRouterOneToOne` | one destination | pass on, or reject if it is not connected |
| `DestinationRouterRoundRobin` | `index_`, `uid_to_destination_` | new order to the next connected session, later requests to the order's session |
| `DestinationSessionProtocolB` on `DestinationSession` | `dest_cl_ord_id_by_src_cl_ord_id_`, `src_routing_info_by_dest_cl_ord_id_` | request: draw a venue id, translate the original's id, validate, encode, send, record; report: translate ids, pass on |
| `SourceRouter` | `uid_to_source_session_` | report to the session that opened the chain |
| `UIDGenerator` | `uid_`, one counter for chains and venue ids | next id |
| `ValidatorX`, `StatelessCheck01` | `enabled_` | reject an order over a limit |
| `ProtocolA`, `ProtocolB` on `Protocol` | `sequence_store_` | framing and dispatch; logon, logout, heartbeat; number what is sent |
| `SequenceStore`, `MemoryMappedData` | two counters in a mapped file | next number; create or map the file |
| `TransportSingleThreaded` | `receive_buffer_`, `write_offset_`, `socket_fd_`, `server_fd_` | connect, disconnect, read, process, send |
| `EpollSocketManager` | epoll's interest and ready lists, the kernel's sockets, `async_send_queue_` | the event loop: accept, read, disconnect, asynchronous send |
| `StateMachine` | a transition table | none: no file includes it |
| `Application`, factories, `ConfigManager` | the objects built from `config.xml` | build everything once, then run the loop |

### How they interact

The router runs on one thread, in `EpollSocketManager::process_io_events`.  An
event leads to one `read`; each complete frame in the buffer is passed, by
plain calls, through protocol, session, router and the other side's session
down to `send` on the other side's socket, before the next frame is looked at.
So the handler of a frame is atomic with respect to every other handler.  What
interleaves is: frames of different clients and venues, the moments sockets
connect, break and are accepted, how TCP cuts the stream, which events one
`epoll_wait` returns together, and the end of the process.  Nothing that
routes is persisted; only the sequence numbers are in a file.  An application
of the framework may have a second thread, which reaches the loop through
`async_send_queue_`; `sim_client_a` does.

### What is hard about it

* One request touches six tables owned by five classes, at different stages;
  a report is looked up in two of them, a cancel in three.  Nothing removes
  entries, and the first entry of a key stays (`emplace`).
* Stages do not stop at a reject (`SourceSession.h:104-114`), so tables are
  updated for requests that were refused.
* Client ids are the clients' choice; two clients meet in one table of the
  destination session.
* Links break at any time, and neither the routers nor the senders see it.
* A restart empties everything while venues go on reporting.
* Epoll is edge triggered, with one bounded read per event and two sockets
  behind one pointer.
* A number is taken in the mapped file before its message is written, and the
  process may end between any two of these writes, also while it creates the
  file, or be ended by a `send` (SIGPIPE: no `MSG_NOSIGNAL`).
* The asynchronous queue holds addresses of messages and numbers of
  descriptors; both may mean something else when the event loop uses them.

What makes each part correct is stated by the properties of section 3;
`PROJECT.json` lists the hazards with the lines where they bite and the
properties that cover them.

## 2. Modules

| Module | Models |
|---|---|
| `MessageRouting` | the request path and the report path: sessions, routers, id tables, validator, venue links |
| `OrderChains` | what the routing promises, without tables |
| `RoutingRefinement` | the mapping from `MessageRouting` to `OrderChains` |
| `RouterRestart` | `MessageRouting` with restarts of the process |
| `Transport` | the receive buffer of `TransportSingleThreaded` and the framing of `on_data_impl` |
| `FrameStream` | what a transport promises its protocol, without bytes, reads and buffer |
| `EpollSockets` | `Transport` driven by `EpollSocketManager` for one transport, a server's or a client's |
| `Startup` | `Application::init`, the factories, the sequence store's file, the process's ends and starts |
| `ProtocolSession` | `Startup`'s running process: session messages, numbering, `send_data` |
| `NumberedChannels` | what the sequence stores promise, without files, connections and processes |
| `AsyncSend` | `async_send_queue_` between an application's thread and the event loop |
| `LossyFifo` | what that queue and its two threads promise |
| `MC...` | the instances TLC runs |
| `...Proofs` | theorems and proofs about the module they are named after |

### MessageRouting

Each variable is a member of the code under its own name, indexed by the
session that owns it; `link` is the socket of a destination, `sent` is a
history of the requests handed to venues and `to_client` is what the last
handler handed to clients.

| Action | Code |
|---|---|
| `NewOrderSingle`, `CancelReplaceRequest`, `CancelRequest` | `SourceSession::procoess_message_from_transport` with everything it calls, for one frame |
| `ExecutionReport`, `CancelReject` | `DestinationSession::procoess_message_from_transport` with everything it calls |
| `Established`, `Disconnected` | the end of a non-blocking `connect`; `handle_disconnect` of a client transport |

The stages are operators called in the code's order: `send_message_to_peer`
(which router), `RoundRobinFirstEvent` and the like (which destination),
`on_message_from_peer` (ids, validator), `procoess_message_to_transport`
(encode, send, `update_destination_routing_info`), and after all of them
`update_source_routing_info`.  What `UIDGenerator` has
given out is passed along as `u`, as the stages before may have drawn from it.

Kept exactly: the order of stages, the missing returns after a reject, the
first-entry-stays tables, `uid` 0 for a request of an unknown order, the
narrowing of the venue's id to an `int` (`IdSpace`), `connected_` that is
always true, the inverted test of the validator, `send_data` that reports
success on a dead socket.  Abstracted: an order's price and size are one flag
(does their product exceed the limit); other fields, timestamps and logging
are left out.  A venue reports only about ids it received, any number of
times, in any order.

### OrderChains and RoutingRefinement

`OrderChains` knows chains (a client, a venue, an id) and requests.  A step
opens a chain, continues one at *its* venue under a fresh id, passes on a
request that belongs to no chain, reports to a request's client, or is silent.
`RoutingRefinement` maps the new orders in `sent` to chains, `sent` to
requests and the first message of `to_client` to the report.

`ForgetfulSpec` is `OrderChains` with one more step, `Forget`, after which there
are no chains and no requests: what a router that persists nothing still
promises when it is started again.  A report is about a request made since; that
a venue may mean an older one of the same id is outside this promise.

### RouterRestart

`Restart` puts every table back to what the constructors make of it, as the
process ends between two handlers; `past` remembers what earlier processes
sent, and `LateReport` lets venues report about that.  It extends
`RoutingRefinement`, and the same mapping shows `ForgetfulSpec`: `Restart` is
`Forget`, and a late report is silent or, under an id that has been given out
again, what a report about the present request of that id is.

### Transport

A byte is known by its connection and its place in that connection's stream,
so the model can tell a byte of an old connection from one of the new; `Streams`
says where the frames of a stream end.  `read_data` is one `read` of `n` bytes,
`on_data_impl` one turn of `process_data`'s loop, `move_remaining` the
`memmove` after it.  When the loop reads a header that is not the
beginning of a frame of this stream, the size it sees is arbitrary
(`HeaderField`), so a mistake in the offsets is not hidden by the model.
Peers send well-formed frames that fit in the buffer (all structs of the two
schemas do: they are below 100 bytes, the buffer has 1024).

### FrameStream

Connections one after the other, and of each the frames its peer sends, handled
one at a time until it is dropped.  `Transport` maps `sent` to the frames of
the connection's `stream`; reads and the `memmove` are invisible, and each turn
of the loop handles the next frame or nothing.

### EpollSockets

One transport, a server's or a client's (`is_server`).  Adds the listening
socket's backlog (`waiting`), what the kernel has received (`arrived`), whether
the peer has closed or reset (`peer`), epoll's `ready` list and the `batch` of
events `epoll_wait` returned.  An edge puts a socket on the ready list once;
`epoll_wait` computes the event masks when it returns; a socket that has
nothing to report by then, which the kernel would leave out, gets an event with
an empty mask that the loop passes over; `close` takes a socket off epoll but
not out of the batch.  An event in the batch does not say which of the two
sockets it is about: the code does not know either.

`Clients = "any"` lets clients do anything.  `Clients = "patient"` makes them
take turns, let at most `Window` unread bytes pile up, and close only when
everything is handled; resets still come at any time.

A client transport has one socket, registered for EPOLLOUT as well.
`add_tcp_client` calls `on_connect` while the connect is in progress
(`peer = "connecting"`); `Established` and `Reset` are how it ends.  An event
with EPOLLOUT alone is passed over, and nobody connects again.

### Startup

`config` is a list of entries in the order `init` builds them, a session's with
the `role` of its transport (`socket_role`, which any kind of session may have);
`next` is the entry it is at and `stage` how far it is: `Construct` (factory,
lookups, socket), `CreateFile` and `WriteFile` (the two system calls of
`create_empty_file`), `MapFile`, `InitializeFile`, `Register` (`try_emplace`).
A throw is `Exit`: `main` catches it and the process ends.  `Crash` may come
anywhere; of a file only whether it exists, has its length, and the outgoing
counter are kept.  What is written to a mapping survives the process but need
not survive the machine: power failures are left out.

### ProtocolSession

Extends `Startup`.  A handler's work is `pending`, a list of messages to send;
`enrich_for_send` takes the number of the first and `send_data` writes it, so
that a crash may come between.  `link` says what the peer does: read (`up`),
not read (`full`), leave (`ended`).  A message counts as received when its peer
takes it.  It is lost if the write fails, is partial, or the connection ends
with it still in the kernel (`SO_LINGER` is 0); of the last two the connection
is `torn`, and nothing after them is received on it.  `send_data` to an ended
connection fails or raises SIGPIPE.  Frames that arrive raise one event, and one
read follows it: `due` is how many frames of the `inbox` such reads are sure to
take, `Burst` how many at least fit in one.  Which sessions an application
message goes on to is any choice `MessageRouting` could make.

### NumberedChannels

Every file is a channel with a counter.  A message takes the next number of its
channel, and is received by its peer or lost before another is numbered; there
are no processes, so no end of one can set a counter back.  `ProtocolSession`
maps a handler that ends with the process, a torn stream and a failed `send` to
the loss of the message in flight, and start-up, sockets and peers to nothing.

### AsyncSend and LossyFifo

`get_new_order`, `LoadFd` and `send_data_async` are the steps of the sender
thread, `epoll_wait`, `handle_io_event`, `Pop` and `send_data` those of the
loop.  A queue entry is a descriptor and a `view`: `slot[view]` is the message
as it is now.  `id`, in an entry, is what the message was when it was queued;
only the properties read it.  `Store = "any"` is `TestMessageStore`;
`Store = "outlives"` is a store that keeps to the comment of
`send_data_async`.

The transport is a server's, to which clients connect one after the other, or
a client's (`is_server`), whose one connect may still be in progress when the
first message is sent.  A write to a full socket may put a piece of a message
on the wire; the stream is `torn` from then on and nothing written to it counts
as received.  A write to an ended connection fails or raises SIGPIPE.

`LossyFifo` is what the parts promise together: messages are taken in order,
delivered in order or lost, each once, and one is lost only when it is the
oldest (its send fails) or the newest (the queue refuses it).  The refinement
maps its channel to what is popped, then the queue, then the message the sender
thread holds.  A loss is a loss here whether or not the sender hears of it; it never does.

## 3. Runs

Every cfg bounds the counters named in its module (`MaxUid`, `MaxFrames`,
`MaxConnections`, `MaxRestarts`, `MaxCrashes`, `MaxMessages`); when a bound is
reached the system stops, so deadlock is not checked.

| Run | Question | Result |
|---|---|---|
| `MessageRouting` | Do the tables stay consistent on the topology of `config.xml` (source 1 round robin over two venues, source 2 one to one to the first), with clients that use any ids, and keep together the promise of `OrderChains`? | `ReportsReturnToOrigin`, `ChainStaysAtOneDestination`, `OrdersStayAddressable`, `ImplementsOrderChains` hold |
| `DistinctIds` | Is the original a cancel names at the venue the client's own order, if clients never share ids?  Is round robin fair?  What becomes of ids and reports when the generator outgrows the venue's `int`? | `ReferencesStayInChain`, `RoundRobinBalanced`, `IdsRepeatOnlyAfterRound`, `ReportsGoToFirstUser` hold |
| `RouterRestart` | Can a late report reach a client it is not for?  Is a restart more than forgetting everything? | `ImplementsForgetfulChains` holds; `LateReportsAreDropped` holds: only if its id is in use again, and then it goes to the user of the id |
| `Transport` | Are frames handled whole, once, in order, at once, whatever the reads and connections? | `FramesInOrder`, `RoomToRead`, `ReadFramesAreHandled`, `ImplementsFrameStream` hold |
| `AnyClients` | Does the event loop use the transport correctly under any interleaving, for a server's and for a client's sockets, and notice resets and refused connects? | `ImplementsTransport`, `ResetIsReported`, `ResetsAreNoticed` hold |
| `PatientClients` | Are peers that take turns accepted, served and let go, and is no edge lost? | `NothingIsForgotten`, `ClosesAreNoticed`, `ArrivedFramesAreHandled`, `ClientsAreAccepted`, `OnlyClosedPeersAreDropped` hold |
| `ProtocolSession` | Is everything built before the loop runs?  Do a session's numbers only grow, across connections, crashes and restarts, and is every gap explained?  Which crash leaves a file nobody can use?  Are logons answered that a read takes? | `RunningIsComplete`, `NumbersIncrease`, `NumbersAreAccountedFor`, `UnusableFilesWereInterrupted`, `LogonsAreAnswered`, `ImplementsNumberedChannels` hold |
| `AsyncSend` | Do two threads and a queue keep order, lose nothing without a trace and let nothing wait, if messages outlive their sending?  Are they a FIFO that may lose at its ends? | `WireKeepsOrder`, `NothingDisappears`, `QueuedIsSent`, `ImplementsLossyFifo` hold |
| `BrokenLinks` | Do disconnected destinations get nothing, as the routers' comments say? | violated: `connected_` never changes |
| `SharedIds` | `DistinctIds` with two clients that use the same id at one venue | violated: the second client's cancel names the first one's order |
| `StaleEvents` | Are only connections dropped whose peer has ended them, with any clients? | violated: see below |
| `ReusedData` | Do queued messages outlive `process_async_send`, as its comment asks, in the simulators? | violated: `TestMessageStore` gives out a message that is still queued |

### Why the bounds are enough

* `MessageRouting`: five ids are two new orders and a cancel or replace of
  either (an order takes two ids, a later request one), or an order and three
  later requests; two ids for two clients give every way of sharing and
  reusing; each venue can be up, connecting or closed independently.
  `DistinctIds` has six, three new orders, so that the round robin goes past
  its end, and requests over the validator's limit; it gives the venue's `int`
  three values, so that ids come round again while the entries of their first
  users stay.  In the other runs the generator does not outgrow the `int`.  The
  proofs below remove the bounds.
* `RouterRestart`: one restart, three ids: an order before, an order after
  under the same id, and a report about either.
* `Transport`: three frames of 2 to 4 bytes on each of two connections, in a
  buffer of 5, so that a read may end inside a header, inside a body, at a
  frame's end, beyond it, and find one byte of room.
* `EpollSockets`: three connections (one closing, one in the batch, one in the
  backlog), two frames of 2 and 3 bytes in a buffer of 4.
* `ProtocolSession`: a configuration of each session kind, one where both
  sessions have one name and so one file and their roles are exchanged, and one
  for every way `init` fails; one crash, so two processes; two frames from
  peers and a `Burst` of one, so that a frame is left beyond a read.  Everything one process
  leaves to the next is in the file, so a second crash adds no new meeting.
* `AsyncSend`: three messages, a queue of two, four sends and two connections:
  the queue fills, a message is used again, and an entry meets the connection
  after the one it was queued for, a connect in progress, a torn stream or none.

Symmetry is used for client ids (and for the two equal sources in
`RouterRestart`), in runs that check invariants and, in `MessageRouting` and
`RouterRestart`, the steps of `OrderChains`, which treat all client ids and
sources alike; never with liveness.

### Fairness

`ESpec` assumes weak fairness of `process_io_events` as a whole: the thread
runs `while (true)` and its `epoll_wait` does not block.  Nothing is assumed of
clients or the network.  The liveness properties therefore say what follows
once bytes, closes and connects have arrived.  `PSpec` assumes that a handler's
writes go on (sockets do not block) and that the frames the read of an event
takes are handled (`due`): `epoll_wait` returns up to 1024 events and all of
them are handled before the next, with one read each.  A frame that a burst
leaves beyond that read has no event and no fairness, and `LogonsAreAnswered`
says nothing about it.  `ASpec` assumes that both threads run.  Nothing
is assumed of the start of a process, so no liveness is claimed across a crash.

### What clients must not do

`PatientClients` marks the limits of what the event loop promises.  With
clients of the other kind:

* a client that connects while another is connected has its edge consumed by a
  `read` of the connection, and is accepted only when some later connect
  raises another edge (`ClientsAreAccepted` fails);
* a client that sends faster than the buffer empties leaves a tail in the
  socket until it sends more, since one event is one read
  (`ArrivedFramesAreHandled` fails; a logon in that tail is not answered until
  then, which is why `LogonsAreAnswered` speaks of those a read takes);
* a client that closes right after its last bytes may never be noticed, since
  both come in one event (`ClosesAreNoticed` fails);
* `StaleEvents`: a client is reset while another waits, and one `epoll_wait`
  returns both sockets, the listening one first.  The first event reads from
  the connection and closes it.  The second, about the socket just closed,
  accepts the waiting client, and its hang-up part drops that client.

### Met while modelling

Four more disagreements are kept in the model as the code has them; they need
no run to be seen:

* `DestinationSessionProtocolB.cpp:185` stores the 64 bit number of the "Unique
  ID generator" (`UIDGenerator.h:7`) in an `int` and uses that as a key, so that
  after 2^32 numbers two requests share a venue id.  `DestClOrdId` narrows as
  the code does, and `ReportsGoToFirstUser` says what follows.
* `TransportSingleThreaded.cpp:139` constructs `RejectInfo{"Failed to async send
  data", ...}` and does not return it, and line 125 does the same in
  `send_data`: both report success whatever happened.  `sim_client_a.cpp:43-47`
  prints "Failed to send" of a `send_data_async` that does not return success,
  and never does.  `Push` and `SendReturns` lose such messages silently.
* `ValidatorX.h:34` runs a check only when it is *not* enabled, and
  `StatelessCheck01` always is, so nothing is ever validated although
  `src/README.md` lists validation.  `ValidationFails` keeps the test.
* `SourceSession.h:110` has no return after a reject: a cancel of an order its
  session does not know is rejected to the client and goes on, with uid 0, to
  the destination, where another client's entry may give it an original.
  `OrderChains` lets such strays pass, but never into a chain or a report.

### Mutants

Each property of a passing run is shown to notice a plausible mistake: the
operators named `..._<mistake>` beside the originals (a table of the wrong
requests, a buffer not cleared, an off-by-one in the framing, an inverted test,
and so on) are put in their place one at a time, and the property must fail.

## 4. Proofs

| Theorem | Says |
|---|---|
| `MessageRoutingProofs!TypeCorrect` | `TypeOK`, for every topology |
| `...!TablesAgree` | the inductive invariant of the tables |
| `...!ReportsReturn`, `ChainStays`, `OrdersAddressable` | the invariants of run `MessageRouting` |
| `RoutingRefinementProofs!Refinement` | `ImplementsOrderChains` |
| `TransportProofs!TypeCorrect`, `BufferFollowsStream` | offsets stay in the buffer; the inductive invariant |
| `...!FramesHandledInOrder`, `BufferHasRoom`, `ReadFramesHandled` | the invariants of run `Transport` |
| `...!TransportImplementsFrameStream` | `ImplementsFrameStream` |
| `EpollSocketsProofs!EpollImplementsTransport` | `ImplementsTransport` |
| `...!EpollFramesInOrder`, `EpollReadFramesHandled`, `EpollImplementsFrameStream` | what follows for the event loop with its sockets |
| `...!EpollTypeCorrect` | `ETypeOK`: both lists of epoll have at most one entry for each socket |
| `...!OnlyEndedDropped`, `NothingForgotten` | `OnlyClosedPeersAreDropped`, `NothingIsForgotten`, for patient clients |
| `...!ResetsAreReported` | `ResetIsReported`, for any clients |
| `MessageRoutingProofs!ReferencesInChain`, `RoundRobinDeals`, `IdsRepeatAfterRound`, `ReportsToFirstUser` | the invariants of run `DistinctIds` |
| `RouterRestartProofs!LateReportsDropped` | the invariant of run `RouterRestart`, for any number of restarts |
| `...!TablesAgreeAfterRestarts` | the invariants of run `MessageRouting`, in every process |
| `...!RestartRefinement` | `ImplementsForgetfulChains` |
| `StartupProofs!StartupIsComplete` | `STypeOK` and `RunningIsComplete` of a process that only starts and ends |
| `ProtocolSessionProofs!SessionTypeCorrect`, `LoopIsComplete`, `UnusableFilesExplained`, `NumbersGrow`, `NumbersAccounted` | the invariants of run `ProtocolSession` |
| `...!SessionsAreNumberedChannels` | `ImplementsNumberedChannels` |
| `AsyncSendProofs!AsyncTypeCorrect`, `WireInOrder`, `NothingLost` | the invariants of run `AsyncSend` |
| `AsyncSendProofs!AsyncIsLossyFifo` | `ImplementsLossyFifo` |

Assumptions are the named ASSUMEs of the modules, and besides:

* `MaxUid < IdSpace` for `ReportsReturn`, `Refinement` and `RestartRefinement`:
  the generator has not outgrown the venue's `int`.  Without it they are false:
  ids repeat, and a report about the later request of an id goes to the client
  of the earlier one (`ReportsToFirstUser`).  The other
  theorems about routing, restarts included, do not need it.
* `IdScope = "global"` for `ReferencesInChain`: no client uses an id twice or
  one of another client.  Run `SharedIds` shows that it is needed.
* `TargetsDiffer` for `RoundRobinDeals`: no destination is listed twice in a
  `RoundRobin` router's configuration.  One that is gets two orders of each
  round.
* `Clients = "patient"` for `OnlyEndedDropped` and `NothingForgotten`.  Run
  `StaleEvents` shows a connection dropped for an event that is not its own
  otherwise.
* `WindowFits` for `NothingForgotten`: the unread bytes a client lets pile up
  fit in the buffer behind all but the last byte of any frame, so that one read
  takes them all.  Frames are below 100 bytes and the buffer has 1024.
* `Store = "outlives"` for `AsyncSend`'s order and refinement.  Run
  `ReusedData` shows what happens otherwise.

*Routing.*  None of the invariants is inductive, because a report is looked up
in tables other requests wrote.  `TablesAgree` adds what ties them together:
every number behind an id in a table or in `sent` was drawn already (is at most
`uid`) and by one request only; ids of chains and numbers of requests are drawn
from the same counter, so the next one is new to both; the first request sent
under a venue's id has the entry in the destination's table, naming its client
id and chain; each chain that was sent has its source in
`SourceRouter` and its destination in the router.  A request only adds entries,
for a fresh number or under an id without an entry, so what was there stays
true; as long as the `int` does not repeat itself, the first request of an id is
the only one.  A report changes nothing but
`to_client`.  The step is proved once for each kind of outcome (passed on,
refused) rather than for each action.

*Refinement.*  Uses `TablesAgree` for each step: a passed new order opens a
chain under a fresh id; a later request with uid > 0 continues the chain its
uid names, as `RouteOf` has not changed since; uid 0 is a stray; a report finds
the request it is about.

*Transport.*  `BufferFollowsStream` says that between `read_offset` and
`write_offset` the buffer holds the bytes of this connection's stream from the
end of the last handled frame to what was taken, so that the header read there
is the next frame's.  `BufferHasRoom` follows, as an incomplete frame is
shorter than the buffer.  The step of the loop that handles a frame is proved
once (`ParseOutcome`) and used for the invariant and for `FrameStream`: what
lies at `read_offset` is frame `Len(handled) + 1` of the stream, with its size.

*Event loop.*  A step of `EpollSockets` is a step of `Transport` or leaves its
variables alone; the only fact needed of the sockets is that a read takes what
has arrived and that it was sent.  So all of `Transport`'s theorems, and
`FrameStream`, hold of the event loop.  For `EpollTypeCorrect` the bound on the
lists is not inductive by itself: `EventInv` adds that no socket is on the ready
list twice (`NoTwice`), which an edge and a `close` preserve, and a list of two
sockets without repetition has at most two entries; a batch is as long as the
ready list it was made of, and only shrinks.

*Patient clients.*  A connection is dropped by a read that returns nothing or
by the hang-up part of an event.  The code takes a read that returns 0 for the
end; it is one, as `RoomToRead` always leaves room to read.  That the hang-up is
the present connection's is not inductive: `PatientInv` adds that while a client
waits there is no connection, no socket of an earlier one on the ready list and
no hang-up in the batch, so that none is accepted under an old event; and that a
hang-up in the batch of a connection means that its peer has reset it.

*No edge is lost.*  An edge triggered loop that misses an event never gets it
again, so the liveness properties rest on an invariant: whatever is still to be
noticed is on the ready list or in the batch.  For resets it is inductive with
`EventInv` alone (`ResetIsReported`), as the EPOLLHUP part of an event is kept
when its EPOLLIN part is handled.  `NothingIsForgotten` needs `PatientInv`,
`ResetIsReported` and `UnreadInv`: no more than `Window` is unread, and nothing
of a connection that was closed.  One read then takes all there is
(`ReadsEverything`, from `BufferFollowsStream`: what the buffer holds is shorter
than a frame), and a read that takes nothing meets the end.  The invariants hold
each other up: that a client closes with nothing unread follows from
`NothingIsForgotten`.  What fairness adds is only that events are handled.

*References.*  `ReferencesStayInChain` speaks of requests that were sent; the
invariant `References` says in addition that a destination has each request
it sent under its client's id, so that the first entry, which is the one that
stays, is the only one, and that an order a session knows and a router can
route was sent under that id by that client.

*Round robin.*  Counting orders is not inductive without the index.
`DealtRound` says that the venues from the second up to `index_` are one order
ahead of the others, which all have had the same number; a new
order moves the index and the border together, also where it wraps around.
Each order is a new element of `sent`, as its id is new.

*Restart.*  The invariant of the routing tables holds in each process by itself;
`past` only holds requests of the declared type.  A late report finds an entry
only under an id this process has given out, and then the entry names the
present user of that id, whom the code takes it to be for.  The refinement needs
one step more than the one of `OrderChains` without restarts: what the router
does with a late report under an id that is in use again is what it does with a
report about the present request of that id, `Report`.  So this says nothing
against late reports that name a redrawn id; nothing in the code does.

*Start-up and sessions.*  `StagesFit` says which stages `init` can be in at
which entry, `BuiltIsComplete` says `RunningIsComplete` of the entries built so
far; a file without length belongs to the entry `WriteFile` is at, or to a name
in `interrupted`.  For the numbers, `Counted` says that the number taken for
the message at hand is its file's counter, and that everything received under
that file is numbered at most the counter and less than the message at hand: so
the next number is larger than all of them, also when two sessions share the
file and whatever crash comes between taking and writing.  `HandlerFits`,
`FilesFit` and `FilesExist` say that a handler sends only to sessions that were
built, whose files exist, and that a file is given a length and a counter of 0
once, before anything is numbered with it.  With the same invariant each step
is one of `NumberedChannels` or none: `CountersKept` says that start-up, at
whatever stage and of whatever process, leaves the counter of every file as it
was, although it initialises files.

*Asynchronous queue.*  `OInv` says that the ids grow from `wire` over `popped`
and `queue` to the one the sender holds, and that each queued message still is
what it was when it was queued, which `MayTake` preserves.  From it follow the
order, that nothing disappears, and each step of the refinement.

Only model-checked: the liveness properties (`ResetsAreNoticed`,
`ClosesAreNoticed`, `ArrivedFramesAreHandled`, `ClientsAreAccepted`,
`LogonsAreAnswered`, `QueuedIsSent`), as fairness and ENABLED are out of the
prover's reach; of the first four, what an unlucky order of events could break
is proved (`ResetIsReported`, `NothingIsForgotten`).  Every other property of
the passing runs is a theorem.

## 5. Not modelled

* What a peer makes of a stream that a partial write has torn.  That is the
  peer's code; here what follows on the stream counts as lost.
* Values in `config.xml` that cannot be converted (a port that is no number).
  They throw like a missing one, which is modelled.
* `disconnect_server` and `disconnect_client`: destructors and the simulators
  call them after the event loop, which does not return.
* A `header->size` of 0 or smaller than a header, sent by an ill-behaved peer.
* The incoming sequence number: nothing in the repository calls it.
* A power failure, which may lose pages of the mapped file.
* Transforms (they do nothing), persistence (stubs), the state machine
  (unused), the simulators but for `sim_client_a`'s sending, benchmarks and the
  test transport, type lists and other plumbing.

## 6. Plan

Done: the routing core, its refinement and restart; the receiving transport
and the event loop's server and client sockets; start-up, session messages and
numbering; the asynchronous queue; an abstract specification of each
(`OrderChains`, `FrameStream`, `NumberedChannels`, `LossyFifo`) that the
detailed one is proved to implement; a proof of every safety property the
passing runs check.  Left:

1. The composition of `ProtocolSession` with `MessageRouting`, so that the
   number of a request and its entry in the tables are lost or kept together.
