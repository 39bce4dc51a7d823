---------------------------- MODULE EpollSockets ----------------------------
(***************************************************************************)
(* EpollSocketManager and one transport.  A server's listening socket and  *)
(* the one connection it accepts at a time are registered with the same    *)
(* data.ptr, edge triggered, so handle_io_event cannot tell which of the   *)
(* two an event is about, and an event stays in the array epoll_wait       *)
(* filled when its socket is closed by the handler of an earlier one.  A   *)
(* client has one socket, which counts as connected while it connects.     *)
(***************************************************************************)
EXTENDS Transport

CONSTANTS
    Clients,  \* "any", or "patient": see Patient
    Window    \* how many unread bytes a patient client lets pile up

ASSUME ClientsAssumption ==
    Clients \in {"any", "patient"} /\ Window \in Nat

VARIABLES
    is_server, \* socket_role of the configuration
    waiting,  \* clients in the backlog of the listening socket
    arrived,  \* how much of the connection's stream the kernel has received
    peer,     \* "connecting", "open", "fin" (sent everything and closed)
              \* or "reset" (or refused)
    ready,    \* epoll's ready list
    batch     \* the events of the last epoll_wait that are still to handle

kernel == <<waiting, arrived, peer, ready>>
evars == <<is_server, tvars, kernel, batch>>

Ended == peer \in {"fin", "reset"}

Sockets == {"listen", "socket"}

OnList(list, socket) == \E i \in DOMAIN list : list[i] = socket

\* An edge puts a socket on the ready list, at most once.
Edge(list, socket) ==
    IF OnList(list, socket) THEN list ELSE Append(list, socket)

OffList(list, socket) ==
    IF OnList(list, socket)
    THEN LET at == CHOOSE i \in DOMAIN list : list[i] = socket
         IN  SubSeq(list, 1, at - 1) \o SubSeq(list, at + 1, Len(list))
    ELSE list

-----------------------------------------------------------------------------
(* The clients and TCP.                                                    *)

(***************************************************************************)
(* A patient client connects when no other is connected, lets no more than *)
(* Window bytes pile up, and closes after everything it sent was handled;  *)
(* like any other it may be reset at any moment.  The peer of a client     *)
(* transport, a venue, is patient in the same sense.                       *)
(***************************************************************************)
Patient == Clients = "patient"

AllQuiet == stage = "idle" /\ ready = <<>> /\ batch = <<>>

Connect ==
    /\ is_server
    /\ connection + waiting < MaxConnections
    /\ Patient => AllQuiet /\ ~connected /\ waiting = 0
    /\ waiting' = waiting + 1
    /\ ready' = Edge(ready, "listen")
    /\ UNCHANGED <<tvars, arrived, peer, batch>>

Arrive(n) ==
    /\ connected /\ peer = "open"
    /\ \E k \in DOMAIN stream : arrived + n <= stream[k]
    /\ Patient => arrived + n <= taken + Window
    /\ arrived' = arrived + n
    /\ ready' = Edge(ready, "socket")
    /\ UNCHANGED <<tvars, waiting, peer, batch>>

Close ==
    /\ connected /\ peer = "open"
    /\ Patient => AllQuiet
    /\ peer' = "fin"
    /\ ready' = Edge(ready, "socket")
    /\ UNCHANGED <<tvars, waiting, arrived, batch>>

Reset ==
    /\ connected /\ peer # "reset"
    /\ peer' = "reset"
    /\ ready' = Edge(ready, "socket")
    /\ UNCHANGED <<tvars, waiting, arrived, batch>>

Established ==
    /\ connected /\ peer = "connecting"
    /\ peer' = "open"
    /\ ready' = Edge(ready, "socket")
    /\ UNCHANGED <<tvars, waiting, arrived, batch>>

\* The edge of EPOLLOUT, for which only a client's socket is registered.
Writable ==
    /\ ~is_server /\ connected /\ peer = "open"
    /\ ready' = Edge(ready, "socket")
    /\ UNCHANGED <<tvars, waiting, arrived, peer, batch>>

Network ==
    /\ UNCHANGED is_server
    /\ \/ Connect
       \/ \E n \in 1..RECEIVE_BUFFER_SIZE : Arrive(n)
       \/ Close
       \/ Reset
       \/ Established
       \/ Writable

-----------------------------------------------------------------------------
(***************************************************************************)
(* add_tcp_client, once, when the transport is constructed: a connect in   *)
(* progress counts as connected.  If it fails at once nothing happens.     *)
(***************************************************************************)
add_tcp_client ==
    /\ ~is_server /\ connection = 0 /\ MaxConnections > 0
    /\ \E s \in Streams : on_connect(s)
    /\ arrived' = 0
    /\ peer' = "connecting"
    /\ UNCHANGED <<is_server, waiting, ready, batch>>

-----------------------------------------------------------------------------
(* process_io_events.                                                      *)

\* The event mask of a socket when epoll_wait reports it.
Mask(socket) ==
    IF socket = "listen"
    THEN [in |-> waiting > 0, hup |-> FALSE]
    ELSE [in |-> taken < arrived \/ Ended, hup |-> peer = "reset"]

epoll_wait ==
    /\ stage = "idle" /\ batch = <<>> /\ ready # <<>>
    /\ batch' = [i \in DOMAIN ready |-> Mask(ready[i])]
    /\ ready' = <<>>
    /\ UNCHANGED <<tvars, waiting, arrived, peer>>

accept_new_connection ==
    IF waiting > 0
    THEN /\ \E s \in Streams : on_connect(s)
         /\ waiting' = waiting - 1
         /\ arrived' = 0
         /\ peer' = "open"
         /\ UNCHANGED ready
    ELSE UNCHANGED <<tvars, kernel>>

\* Mutant: the socket is closed and the transport is not told.
handle_disconnect_Silent ==
    /\ ready' = OffList(ready, "socket")
    /\ UNCHANGED <<tvars, waiting, arrived, peer>>

\* close takes the socket off epoll; with no socket it fails and is ignored.
handle_disconnect ==
    /\ on_disconnect
    /\ ready' = OffList(ready, "socket")
    /\ UNCHANGED <<waiting, arrived, peer>>

Shorter(m, n) == IF m < n THEN m ELSE n

\* What one read returns; of an invalid descriptor, nothing.
Readable ==
    IF connected THEN Shorter(arrived - taken, length_for_read) ELSE 0

\* Mutant: the end of the stream is passed over.
process_received_data_NoEnd ==
    \/ Readable > 0 /\ read_data(Readable) /\ UNCHANGED kernel
    \/ Readable = 0 /\ UNCHANGED <<tvars, kernel>>

\* One read, of what fits; read returns 0 at the end and -1 after a reset.
process_received_data ==
    \/ Readable > 0 /\ read_data(Readable) /\ UNCHANGED kernel
    \/ /\ Readable = 0
       /\ IF ~connected \/ length_for_read = 0 \/ Ended
          THEN handle_disconnect
          ELSE UNCHANGED <<tvars, kernel>>

\* Mutants: one client is accepted on top of another; only such a one is.
is_accepted_Never == FALSE
is_accepted_Inverted == ~connected

is_accepted == connected

\* Mutant: "else if" between the two parts of an event.
handle_in_NoHup ==
    /\ stage = "idle" /\ batch # <<>> /\ Head(batch).in
    /\ IF is_server /\ ~is_accepted THEN accept_new_connection
                                    ELSE process_received_data
    /\ batch' = Tail(batch)

\* The EPOLLIN part of an event, then its EPOLLHUP part.
handle_in ==
    /\ stage = "idle" /\ batch # <<>> /\ Head(batch).in
    /\ IF is_server /\ ~is_accepted THEN accept_new_connection
                                    ELSE process_received_data
    /\ batch' = IF Head(batch).hup
                THEN <<[Head(batch) EXCEPT !.in = FALSE]>> \o Tail(batch)
                ELSE Tail(batch)

\* An event with EPOLLOUT alone is passed over, and so is an empty one, which
\* epoll_wait would not have returned.
handle_hup ==
    /\ stage = "idle" /\ batch # <<>> /\ ~Head(batch).in
    /\ IF Head(batch).hup THEN handle_disconnect
                          ELSE UNCHANGED <<tvars, kernel>>
    /\ batch' = Tail(batch)

process_io_events ==
    /\ UNCHANGED is_server
    /\ \/ epoll_wait
       \/ handle_in
       \/ handle_hup
       \/ process_data /\ UNCHANGED <<kernel, batch>>

-----------------------------------------------------------------------------
EInit ==
    /\ Init
    /\ is_server \in BOOLEAN
    /\ waiting = 0
    /\ arrived = 0
    /\ peer = "open"
    /\ ready = <<>>
    /\ batch = <<>>

ENext == Network \/ add_tcp_client \/ process_io_events

\* The thread runs its loop forever.
ESpec == EInit /\ [][ENext]_evars /\ WF_evars(process_io_events)

-----------------------------------------------------------------------------
Masks == [in : BOOLEAN, hup : BOOLEAN]

ETypeOK ==
    /\ TypeOK
    /\ is_server \in BOOLEAN
    /\ waiting \in 0..MaxConnections
    /\ arrived \in Nat /\ taken <= arrived
    /\ peer \in {"connecting", "open", "fin", "reset"}
    /\ ready \in Seq(Sockets) /\ Len(ready) <= 2
    /\ batch \in Seq(Masks) /\ Len(batch) <= 2

(***************************************************************************)
(* Whatever events arrive in whatever order, the transport sees reads and  *)
(* disconnects it can cope with: connects only while it has no socket,     *)
(* never a read longer than its room.                                      *)
(***************************************************************************)
ImplementsTransport == Spec

(***************************************************************************)
(* A reset connection is dropped, whatever the batch it is reported in,    *)
(* and so is a client's socket whose connect was refused.                  *)
(***************************************************************************)
ResetsAreNoticed ==
    \A c \in 1..MaxConnections :
      (connection = c /\ peer = "reset") ~> (connection # c \/ ~connected)

Incoming(events) == \E i \in DOMAIN events : events[i].in
HangUp(events) == \E i \in DOMAIN events : events[i].hup

(***************************************************************************)
(* Edges do not come again, so none may be lost: as long as a connection   *)
(* that was reset or refused is not dropped, its event is on epoll's list  *)
(* or still to handle, in whatever order the two sockets' events, accepts  *)
(* and drops follow each other.                                            *)
(***************************************************************************)
ResetIsReported ==
    connected /\ peer = "reset" => OnList(ready, "socket") \/ HangUp(batch)

(***************************************************************************)
(* And if clients are patient: whoever waits to be accepted, has bytes in  *)
(* the socket or has ended the connection has an event on the list or in   *)
(* the batch, although a read takes only what fits.                        *)
(***************************************************************************)
NothingIsForgotten ==
    /\ waiting > 0 => OnList(ready, "listen") \/ Incoming(batch)
    /\ connected /\ (taken < arrived \/ Ended)
         => OnList(ready, "socket") \/ Incoming(batch) \/ HangUp(batch)

\* A patient client that closes is noticed as well.
ClosesAreNoticed ==
    \A c \in 1..MaxConnections :
      (connection = c /\ Ended) ~> (connection # c \/ ~connected)

(***************************************************************************)
(* A frame that has arrived is handled or its connection is dropped: with  *)
(* edge triggered events and one read per event, nothing comes back for    *)
(* what a read left in the socket.                                         *)
(***************************************************************************)
ArrivedFramesAreHandled ==
    \A c \in 1..MaxConnections, k \in 1..MaxFrames :
      (connection = c /\ arrived >= stream[k])
        ~> (connection # c \/ ~connected \/ Len(handled) >= k)

\* A client that connects is accepted.
ClientsAreAccepted == (waiting > 0) ~> (waiting = 0)

(***************************************************************************)
(* handle_io_event and process_received_data: "Peer has closed the         *)
(* connection" is why a connection is dropped.                             *)
(***************************************************************************)
OnlyClosedPeersAreDropped ==
    [][connected /\ ~connected' => Ended]_evars

=============================================================================
