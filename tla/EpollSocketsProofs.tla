------------------------- MODULE EpollSocketsProofs -------------------------
(***************************************************************************)
(* EpollSockets implements Transport, for every number of clients and      *)
(* every order of events; what is proved of Transport holds of it.  With   *)
(* clients that take turns, only connections that have ended are dropped   *)
(* and no event anybody depends on is lost.                                *)
(***************************************************************************)
EXTENDS EpollSockets, TransportProofs, SequenceTheorems

\* What the socket holds belongs to the stream; clients are counted once, and
\* only a server has any.
SocketInv ==
    /\ waiting \in Nat
    /\ connection + waiting <= MaxConnections
    /\ ~is_server => waiting = 0
    /\ arrived \in Nat /\ taken <= arrived
    /\ connected => \E k \in DOMAIN stream : arrived <= stream[k]

EInv == IInv /\ SocketInv

-----------------------------------------------------------------------------
(* One lemma per kind of step: a step or a stutter of Transport that keeps *)
(* SocketInv.                                                              *)

\* The network does not touch the transport.
LEMMA NetworkStep ==
    ASSUME EInv, Network
    PROVE  UNCHANGED tvars /\ SocketInv'
<1>1. connection \in Nat /\ taken \in Nat
  BY SizeAssumption DEF EInv, IInv, TypeOK
<1>2. CASE Connect
  BY <1>1, <1>2, SizeAssumption DEF EInv, SocketInv, Network, Connect, tvars
<1>3. CASE Close \/ Reset \/ Established \/ Writable
  BY <1>3 DEF EInv, SocketInv, Network, Close, Reset, Established, Writable,
              tvars
<1>4. CASE \E n \in 1..RECEIVE_BUFFER_SIZE : Arrive(n)
  <2>1. PICK n \in 1..RECEIVE_BUFFER_SIZE : Arrive(n)
    BY <1>4
  <2>2. n \in Nat /\ n > 0
    BY SizeAssumption
  <2> QED
    BY <1>1, <2>1, <2>2 DEF EInv, SocketInv, Network, Arrive, tvars
<1> QED
  BY <1>2, <1>3, <1>4 DEF Network

\* handle_disconnect is on_disconnect to the transport.
LEMMA DisconnectStep ==
    ASSUME EInv, handle_disconnect, UNCHANGED is_server
    PROVE  Next /\ SocketInv'
  BY DEF EInv, SocketInv, handle_disconnect, on_disconnect, Next

\* A read returns bytes that have arrived, and fits; without a connection it
\* returns nothing.
LEMMA ReceiveStep ==
    ASSUME EInv, process_received_data, UNCHANGED is_server
    PROVE  [Next]_tvars /\ SocketInv'
<1> DEFINE n == Shorter(arrived - taken, length_for_read)
<1>1. /\ arrived \in Nat /\ taken \in Nat
      /\ length_for_read \in 0..RECEIVE_BUFFER_SIZE
      /\ RECEIVE_BUFFER_SIZE \in Nat
  BY SizeAssumption DEF EInv, SocketInv, IInv, TypeOK, length_for_read
<1>2. n <= arrived - taken /\ n <= length_for_read /\ n \in Int
  BY <1>1 DEF Shorter
<1>3. Readable > 0 => connected /\ Readable = n
  BY DEF Readable
<1> HIDE DEF n
<1>4. CASE Readable > 0 /\ read_data(Readable) /\ UNCHANGED kernel
  <2>1. connected /\ n \in 1..RECEIVE_BUFFER_SIZE /\ taken + n <= arrived
    BY <1>1, <1>2, <1>3, <1>4
  <2>2. PICK k \in DOMAIN stream : arrived <= stream[k]
    BY <2>1 DEF EInv, SocketInv
  <2>3. stream[k] \in Nat
    BY <2>2, StreamFacts DEF EInv, IInv, TypeOK
  <2>4. n \in Unread
    BY <1>1, <2>1, <2>2, <2>3 DEF Unread
  <2>5. SocketInv'
    BY <1>3, <1>4, <2>1, <2>2 DEF EInv, SocketInv, read_data, kernel
  <2> QED
    BY <1>3, <1>4, <2>4, <2>5 DEF Next
<1>5. CASE handle_disconnect
  BY <1>5, DisconnectStep
<1>6. CASE UNCHANGED <<tvars, kernel>>
  BY <1>6 DEF EInv, SocketInv, tvars, kernel
<1> QED
  BY <1>4, <1>5, <1>6 DEF process_received_data

\* A connection is accepted only while the transport has none.
LEMMA AcceptStep ==
    ASSUME EInv, is_server, ~connected, accept_new_connection,
           UNCHANGED is_server
    PROVE  [Next]_tvars /\ SocketInv'
<1>1. /\ connection \in Nat /\ MaxConnections \in Nat /\ waiting \in Nat
      /\ connection + waiting <= MaxConnections
  BY SizeAssumption DEF EInv, SocketInv, IInv, TypeOK
<1>2. CASE /\ waiting > 0
           /\ \E s \in Streams : on_connect(s)
           /\ waiting' = waiting - 1
           /\ arrived' = 0
  <2>1. PICK s \in Streams : on_connect(s)
    BY <1>2
  <2>2. 0 \in DOMAIN s /\ s[0] = 0
    BY StreamFacts
  <2>3. Next
    BY <1>1, <1>2, <2>1 DEF Next
  <2>4. SocketInv'
    BY <1>1, <1>2, <2>1, <2>2 DEF SocketInv, on_connect
  <2> QED
    BY <2>3, <2>4
<1>3. CASE UNCHANGED <<tvars, kernel>>
  BY <1>3 DEF EInv, SocketInv, tvars, kernel
<1> QED
  BY <1>2, <1>3 DEF accept_new_connection

\* A client makes its one connection while it has none.
LEMMA ClientStep ==
    ASSUME EInv, add_tcp_client
    PROVE  Next /\ SocketInv'
<1>1. /\ connection = 0 /\ ~connected /\ ~is_server
      /\ MaxConnections \in Nat /\ MaxConnections > 0
  BY SizeAssumption DEF EInv, IInv, add_tcp_client
<1>2. PICK s \in Streams : on_connect(s)
  BY DEF add_tcp_client
<1>3. 0 \in DOMAIN s /\ s[0] = 0
  BY StreamFacts
<1>4. Next
  BY <1>1, <1>2 DEF Next
<1>5. SocketInv'
  BY <1>1, <1>2, <1>3 DEF EInv, SocketInv, on_connect, add_tcp_client
<1> QED
  BY <1>4, <1>5

\* Parsing leaves the socket alone.
LEMMA ParseStep ==
    ASSUME EInv, process_data, UNCHANGED <<is_server, kernel>>
    PROVE  Next /\ SocketInv'
<1>1. UNCHANGED <<connected, connection, stream, taken>>
  <2>1. CASE on_data_impl
    BY <2>1 DEF on_data_impl
  <2>2. CASE move_remaining
    BY <2>2 DEF move_remaining
  <2> QED
    BY <2>1, <2>2 DEF process_data
<1>2. SocketInv'
  BY <1>1 DEF EInv, SocketInv, kernel
<1> QED
  BY <1>2 DEF Next

LEMMA EStep == EInv /\ [ENext]_evars => [Next]_tvars /\ SocketInv'
<1> SUFFICES ASSUME EInv, [ENext]_evars PROVE [Next]_tvars /\ SocketInv'
  OBVIOUS
<1>1. CASE Network
  BY <1>1, NetworkStep
<1>2. CASE add_tcp_client
  BY <1>2, ClientStep
<1>3. CASE process_io_events
  <2>1. CASE epoll_wait
    BY <1>3, <2>1 DEF process_io_events, epoll_wait, tvars, EInv, SocketInv
  <2>2. CASE handle_in
    BY <1>3, <2>2, ReceiveStep, AcceptStep
       DEF process_io_events, handle_in, is_accepted
  <2>3. CASE handle_hup
    <3>1. CASE handle_disconnect
      BY <1>3, <3>1, DisconnectStep DEF process_io_events
    <3>2. CASE UNCHANGED <<tvars, kernel>>
      BY <1>3, <3>2 DEF process_io_events, tvars, kernel, EInv, SocketInv
    <3> QED
      BY <2>3, <3>1, <3>2 DEF handle_hup
  <2>4. CASE process_data /\ UNCHANGED <<kernel, batch>>
    BY <1>3, <2>4, ParseStep DEF process_io_events
  <2> QED
    BY <1>3, <2>1, <2>2, <2>3, <2>4 DEF process_io_events
<1>4. CASE UNCHANGED evars
  BY <1>4 DEF evars, tvars, kernel, EInv, SocketInv
<1> QED
  BY <1>1, <1>2, <1>3, <1>4 DEF ENext

LEMMA EInitInv == EInit => EInv
<1> SUFFICES ASSUME EInit PROVE EInv
  OBVIOUS
<1>1. IInv
  BY InitInv DEF EInit
<1>2. SocketInv
  BY SizeAssumption DEF EInit, Init, SocketInv
<1> QED
  BY <1>1, <1>2 DEF EInv

\* Events in any order and of either socket amount to legal reads, connects
\* and disconnects of the transport.
THEOREM EpollImplementsTransport == ESpec => ImplementsTransport
<1>1. EInv /\ [ENext]_evars => EInv'
  BY EStep, StepInv DEF EInv
<1>2. ESpec => []EInv
  BY EInitInv, <1>1, PTL DEF ESpec
<1>3. EInit => Init
  BY DEF EInit
<1> QED
  BY <1>2, <1>3, EStep, PTL DEF ESpec, ImplementsTransport, Spec

\* So the protocol gets each client's frames once and in order.
THEOREM EpollFramesInOrder == ESpec => []FramesInOrder
  BY EpollImplementsTransport, FramesHandledInOrder DEF ImplementsTransport

\* So the event loop keeps the promise to the protocol too.
THEOREM EpollImplementsFrameStream == ESpec => ImplementsFrameStream
  BY EpollImplementsTransport, TransportImplementsFrameStream
     DEF ImplementsTransport

\* And no handler of an event leaves a complete frame in the buffer.
THEOREM EpollReadFramesHandled == ESpec => []ReadFramesAreHandled
  BY EpollImplementsTransport, ReadFramesHandled DEF ImplementsTransport

-----------------------------------------------------------------------------
(* The lists of sockets and events.                                        *)

\* A socket is on the ready list once: so there are never more than two.
NoTwice(list) ==
    \A i, j \in DOMAIN list : list[i] = list[j] => i = j

EventInv ==
    /\ is_server \in BOOLEAN
    /\ peer \in {"connecting", "open", "fin", "reset"}
    /\ ready \in Seq(Sockets) /\ NoTwice(ready)
    /\ batch \in Seq(Masks) /\ Len(batch) <= 2

LEMMA NoTwiceIsShort ==
    ASSUME NEW list \in Seq(Sockets), NoTwice(list)
    PROVE  Len(list) <= 2
<1>1. Len(list) \in Nat /\ \A i \in 1..Len(list) : list[i] \in Sockets
  OBVIOUS
<1>2. CASE Len(list) >= 3
  <2>1. 1 \in DOMAIN list /\ 2 \in DOMAIN list /\ 3 \in DOMAIN list
    BY <1>1, <1>2
  <2>2. list[1] # list[2] /\ list[1] # list[3] /\ list[2] # list[3]
    BY <2>1 DEF NoTwice
  <2>3. list[1] \in Sockets /\ list[2] \in Sockets /\ list[3] \in Sockets
    BY <1>1, <1>2
  <2> QED
    BY <2>2, <2>3 DEF Sockets
<1> QED
  BY <1>1, <1>2

\* Edge and OffList keep the order and the sockets of the list but for one.
LEMMA EdgeKeepsList ==
    ASSUME NEW list \in Seq(Sockets), NoTwice(list), NEW socket \in Sockets
    PROVE  /\ Edge(list, socket) \in Seq(Sockets)
           /\ NoTwice(Edge(list, socket))
           /\ \A x : OnList(Edge(list, socket), x)
                     <=> OnList(list, x) \/ x = socket
<1>1. CASE OnList(list, socket)
  BY <1>1 DEF Edge, OnList
<1>2. CASE ~OnList(list, socket)
  <2> DEFINE longer == Append(list, socket)
             n == Len(list)
  <2>1. /\ n \in Nat
        /\ longer \in Seq(Sockets) /\ Len(longer) = n + 1
        /\ DOMAIN longer = 1..(n + 1) /\ DOMAIN list = 1..n
        /\ \A i \in 1..n : longer[i] = list[i]
        /\ longer[n + 1] = socket
    BY AppendProperties
  <2>2. Edge(list, socket) = longer
    BY <1>2 DEF Edge
  <2> HIDE DEF longer, n
  <2>3. \A i \in 1..(n + 1) : i \in 1..n \/ i = n + 1
    BY <2>1
  <2>4. NoTwice(longer)
    BY <1>2, <2>1, <2>3 DEF NoTwice, OnList
  <2>5. n + 1 \in 1..(n + 1) /\ \A i \in 1..n : i \in 1..(n + 1)
    BY <2>1
  <2>6. ASSUME NEW x
        PROVE  OnList(longer, x) <=> OnList(list, x) \/ x = socket
    BY <2>1, <2>3, <2>5 DEF OnList
  <2> QED
    BY <2>1, <2>2, <2>4, <2>6
<1> QED
  BY <1>1, <1>2

LEMMA OffListKeepsList ==
    ASSUME NEW list \in Seq(Sockets), NoTwice(list), NEW socket \in Sockets
    PROVE  /\ OffList(list, socket) \in Seq(Sockets)
           /\ NoTwice(OffList(list, socket))
           /\ \A x : OnList(OffList(list, socket), x)
                     <=> OnList(list, x) /\ x # socket
<1>1. CASE ~OnList(list, socket)
  BY <1>1 DEF OffList, OnList
<1>2. CASE OnList(list, socket)
  <2> DEFINE at == CHOOSE i \in DOMAIN list : list[i] = socket
             n == Len(list)
             before == SubSeq(list, 1, at - 1)
             after == SubSeq(list, at + 1, n)
             rest == before \o after
  <2>1. at \in DOMAIN list /\ list[at] = socket
    BY <1>2 DEF OnList
  <2>2. OffList(list, socket) = rest
    BY <1>2 DEF OffList
  <2> HIDE DEF at
  <2>3. n \in Nat /\ DOMAIN list = 1..n /\ at \in 1..n
    BY <2>1
  <2>4. \A i \in 1..n : list[i] \in Sockets
    BY <2>3
  <2>5. /\ before \in Seq(Sockets) /\ Len(before) = at - 1
        /\ \A i \in 1..(at - 1) : before[i] = list[i]
    <3>1. at - 1 \in Int /\ \A i \in 1..(at - 1) : list[i] \in Sockets
      BY <2>3, <2>4
    <3>2. /\ SubSeq(list, 1, at - 1) \in Seq(Sockets)
          /\ Len(SubSeq(list, 1, at - 1))
               = IF 1 <= at - 1 THEN (at - 1) - 1 + 1 ELSE 0
          /\ \A i \in 1..((at - 1) - 1 + 1) :
               SubSeq(list, 1, at - 1)[i] = list[1 + i - 1]
      BY <3>1, SubSeqProperties
    <3> QED
      BY <2>3, <3>2
  <2>6. /\ after \in Seq(Sockets) /\ Len(after) = n - at
        /\ \A i \in 1..(n - at) : after[i] = list[i + at]
    <3>1. /\ at + 1 \in Int /\ n \in Int
          /\ \A i \in (at + 1)..n : list[i] \in Sockets
      BY <2>3, <2>4
    <3>2. /\ SubSeq(list, at + 1, n) \in Seq(Sockets)
          /\ Len(SubSeq(list, at + 1, n))
               = IF at + 1 <= n THEN n - (at + 1) + 1 ELSE 0
          /\ \A i \in 1..(n - (at + 1) + 1) :
               SubSeq(list, at + 1, n)[i] = list[(at + 1) + i - 1]
      BY <3>1, SubSeqProperties
    <3> HIDE DEF n
    <3>3. n - (at + 1) + 1 = n - at
      BY <2>3
    <3>4. Len(after) = n - at
      BY <2>3, <3>2, <3>3
    <3>5. ASSUME NEW i \in 1..(n - at)
          PROVE  after[i] = list[i + at]
      <4>1. (at + 1) + i - 1 = i + at
        BY <2>3
      <4> QED
        BY <3>2, <3>3, <4>1
    <3> QED
      BY <3>2, <3>4, <3>5
  <2> HIDE DEF before, after
  <2>7. /\ rest \in Seq(Sockets) /\ Len(rest) = n - 1
        /\ \A i \in 1..(n - 1) :
             rest[i] = IF i < at THEN list[i] ELSE list[i + 1]
    <3>1. /\ rest \in Seq(Sockets)
          /\ Len(rest) = Len(before) + Len(after)
          /\ \A i \in 1..(Len(before) + Len(after)) :
               rest[i] = IF i <= Len(before) THEN before[i]
                                             ELSE after[i - Len(before)]
      BY <2>5, <2>6, ConcatProperties
    <3> HIDE DEF rest, n
    <3>2. Len(before) + Len(after) = n - 1
      BY <2>3, <2>5, <2>6
    <3>3. ASSUME NEW i \in 1..(n - 1)
          PROVE  rest[i] = IF i < at THEN list[i] ELSE list[i + 1]
      <4>0. /\ n \in Int /\ at \in Int /\ Len(before) = at - 1
            /\ rest[i] = IF i <= at - 1 THEN before[i]
                                        ELSE after[i - (at - 1)]
        BY <2>3, <2>5, <3>1, <3>2
      <4>1. CASE i < at
        <5>1. i <= at - 1 /\ i \in 1..(at - 1)
          BY <4>0, <4>1
        <5> QED
          BY <2>5, <4>0, <4>1, <5>1
      <4>2. CASE i >= at
        <5>1. i - (at - 1) \in 1..(n - at) /\ i - (at - 1) + at = i + 1
          BY <2>3, <4>2
        <5>2. after[i - (at - 1)] = list[i + 1]
          BY <2>6, <5>1
        <5>3. ~(i <= at - 1) /\ ~(i < at)
          BY <4>0, <4>2
        <5> QED
          BY <4>0, <5>2, <5>3
      <4> QED
        BY <2>3, <4>1, <4>2
    <3> QED
      BY <3>1, <3>2, <3>3
  <2> HIDE DEF rest
  \* Where the entry at i of the shorter list was in the longer one.
  <2> DEFINE was(i) == IF i < at THEN i ELSE i + 1
  <2>8. /\ DOMAIN rest = 1..(n - 1)
        /\ \A i \in 1..(n - 1) : /\ was(i) \in 1..n /\ was(i) # at
                                 /\ rest[i] = list[was(i)]
    BY <2>3, <2>7
  <2>9. NoTwice(rest)
    <3>1. \A i, j \in 1..(n - 1) : was(i) = was(j) => i = j
      BY <2>3
    <3> QED
      BY <2>3, <2>8, <3>1 DEF NoTwice
  <2>10. ASSUME NEW x
         PROVE  OnList(rest, x) <=> OnList(list, x) /\ x # socket
    <3>1. OnList(rest, x) => OnList(list, x) /\ x # socket
      BY <2>1, <2>3, <2>8 DEF OnList, NoTwice
    <3>2. ASSUME NEW i \in 1..n, i # at
          PROVE  \E j \in 1..(n - 1) : was(j) = i
      <4>1. CASE i < at
        <5>1. i \in 1..(n - 1) /\ was(i) = i
          BY <2>3, <4>1
        <5> QED
          BY <5>1
      <4>2. CASE i > at
        <5>1. i - 1 \in 1..(n - 1) /\ was(i - 1) = i
          BY <2>3, <4>2
        <5> QED
          BY <5>1
      <4> QED
        BY <2>3, <3>2, <4>1, <4>2
    <3>3. OnList(list, x) /\ x # socket => OnList(rest, x)
      BY <2>1, <2>3, <2>8, <3>2 DEF OnList
    <3> QED
      BY <3>1, <3>3
  <2> QED
    BY <2>2, <2>7, <2>9, <2>10
<1> QED
  BY <1>1, <1>2

\* close and the events of one socket after another keep the lists in order.
LEMMA DisconnectKeepsLists ==
    ASSUME EventInv, handle_disconnect
    PROVE  /\ ready' \in Seq(Sockets) /\ NoTwice(ready')
           /\ peer' = peer
  BY OffListKeepsList DEF EventInv, handle_disconnect, Sockets

LEMMA EventNetwork ==
    ASSUME EventInv, Network
    PROVE  EventInv'
<1>1. UNCHANGED <<is_server, batch>>
  BY DEF Network, Connect, Arrive, Close, Reset, Established, Writable
<1>2. peer' = peer \/ peer' \in {"fin", "reset", "open"}
  BY DEF Network, Connect, Arrive, Close, Reset, Established, Writable
<1>3. PICK socket \in Sockets : ready' = Edge(ready, socket)
  BY DEF Network, Connect, Arrive, Close, Reset, Established, Writable,
         Sockets
<1>4. ready' \in Seq(Sockets) /\ NoTwice(ready')
  BY <1>3, EdgeKeepsList DEF EventInv
<1> QED
  BY <1>1, <1>2, <1>4 DEF EventInv

LEMMA EventWait ==
    ASSUME EventInv, arrived \in Int, epoll_wait, UNCHANGED is_server
    PROVE  EventInv'
<1> DEFINE n == Len(ready)
<1>1. n \in Nat /\ n <= 2 /\ DOMAIN ready = 1..n
  BY NoTwiceIsShort DEF EventInv
<1>2. ASSUME NEW socket PROVE Mask(socket) \in Masks
  BY DEF Mask, Masks, Ended
<1>3. batch' \in [1..n -> Masks]
  BY <1>1, <1>2 DEF epoll_wait
<1>4. batch' \in Seq(Masks) /\ Len(batch') = n
  BY <1>1, <1>3
<1>5. ready' \in Seq(Sockets) /\ NoTwice(ready')
  BY DEF epoll_wait, NoTwice
<1> QED
  BY <1>1, <1>4, <1>5 DEF EventInv, epoll_wait

\* What a handler leaves of the batch.
LEMMA BatchShrinks ==
    ASSUME EventInv, batch # <<>>
    PROVE  /\ Head(batch) \in Masks
           /\ Tail(batch) \in Seq(Masks) /\ Len(Tail(batch)) <= 2
           /\ \A event \in Masks :
                /\ <<event>> \o Tail(batch) \in Seq(Masks)
                /\ Len(<<event>> \o Tail(batch)) <= 2
<1>1. /\ Head(batch) \in Masks /\ Tail(batch) \in Seq(Masks)
      /\ Len(Tail(batch)) = Len(batch) - 1
      /\ Len(batch) \in Nat /\ Len(batch) <= 2
  BY HeadTailProperties DEF EventInv
<1>2. ASSUME NEW event \in Masks
      PROVE  /\ <<event>> \o Tail(batch) \in Seq(Masks)
             /\ Len(<<event>> \o Tail(batch)) <= 2
  <2>1. <<event>> \in Seq(Masks) /\ Len(<<event>>) = 1
    OBVIOUS
  <2>2. /\ <<event>> \o Tail(batch) \in Seq(Masks)
        /\ Len(<<event>> \o Tail(batch)) = Len(<<event>>) + Len(Tail(batch))
    BY <1>1, <2>1, ConcatProperties
  <2> QED
    BY <1>1, <2>1, <2>2
<1> QED
  BY <1>1, <1>2

LEMMA EventHandled ==
    ASSUME EventInv, handle_in \/ handle_hup, UNCHANGED is_server
    PROVE  EventInv'
<1>1. /\ ready' \in Seq(Sockets) /\ NoTwice(ready')
      /\ peer' \in {"connecting", "open", "fin", "reset"}
  <2>1. CASE handle_disconnect
    BY <2>1, DisconnectKeepsLists DEF EventInv
  <2>2. CASE UNCHANGED ready /\ peer' \in {peer, "open"}
    BY <2>2 DEF EventInv
  <2> QED
    BY <2>1, <2>2 DEF handle_in, handle_hup, accept_new_connection,
                      process_received_data, kernel
<1>2. batch' \in Seq(Masks) /\ Len(batch') <= 2
  <2>1. CASE batch' = Tail(batch)
    BY <2>1, BatchShrinks DEF handle_in, handle_hup
  <2>2. CASE batch' = <<[Head(batch) EXCEPT !.in = FALSE]>> \o Tail(batch)
    <3>1. [Head(batch) EXCEPT !.in = FALSE] \in Masks
      BY BatchShrinks DEF handle_in, handle_hup, Masks
    <3> QED
      BY <2>2, <3>1, BatchShrinks DEF handle_in, handle_hup
  <2> QED
    BY <2>1, <2>2 DEF handle_in, handle_hup
<1> QED
  BY <1>1, <1>2 DEF EventInv

LEMMA EventStep ==
    ASSUME EventInv, SocketInv, [ENext]_evars
    PROVE  EventInv'
<1>1. CASE Network
  BY <1>1, EventNetwork
<1>2. CASE add_tcp_client
  BY <1>2 DEF add_tcp_client, EventInv
<1>3. CASE process_io_events
  <2>1. CASE epoll_wait
    BY <1>3, <2>1, EventWait DEF process_io_events, SocketInv
  <2>2. CASE handle_in \/ handle_hup
    BY <1>3, <2>2, EventHandled DEF process_io_events
  <2>3. CASE process_data /\ UNCHANGED <<kernel, batch>>
    BY <1>3, <2>3 DEF process_io_events, kernel, EventInv
  <2> QED
    BY <1>3, <2>1, <2>2, <2>3 DEF process_io_events
<1>4. CASE UNCHANGED evars
  BY <1>4 DEF evars, kernel, EventInv
<1> QED
  BY <1>1, <1>2, <1>3, <1>4 DEF ENext

LEMMA EventInit == EInit => EventInv
  BY DEF EInit, EventInv, NoTwice

\* Type correctness: neither list grows past the two sockets, and no more is
\* read than has arrived.
THEOREM EpollTypeCorrect == ESpec => []ETypeOK
<1>1. EInv /\ EventInv /\ [ENext]_evars => EInv' /\ EventInv'
  BY EStep, EventStep, StepInv DEF EInv
<1>2. EInv /\ EventInv => ETypeOK
  <2> SUFFICES ASSUME EInv, EventInv PROVE ETypeOK
    OBVIOUS
  <2>1. waiting \in 0..MaxConnections
    BY SizeAssumption DEF EInv, SocketInv, IInv, TypeOK
  <2>2. Len(ready) <= 2
    BY NoTwiceIsShort DEF EventInv
  <2> QED
    BY <2>1, <2>2 DEF EInv, IInv, SocketInv, EventInv, ETypeOK
<1> QED
  BY EInitInv, EventInit, <1>1, <1>2, PTL DEF ESpec

-----------------------------------------------------------------------------
(* Clients that take turns.                                                *)

\* A client waits only while no event of an earlier one is left, and a hang-up
\* that is still to handle is the present connection's.
PatientInv ==
    /\ waiting > 0 => /\ waiting = 1 /\ ~connected
                      /\ ~OnList(ready, "socket")
                      /\ ~HangUp(batch)
    /\ HangUp(batch) /\ connected => peer = "reset"
    /\ ~is_server /\ connection = 0 => ready = <<>> /\ batch = <<>>

TurnInv == EInv /\ EventInv /\ PatientInv

LEMMA PatientNetwork ==
    ASSUME Patient, TurnInv, Network
    PROVE  PatientInv'
<1>1. UNCHANGED <<is_server, connected, connection, batch>>
  BY DEF Network, Connect, Arrive, Close, Reset, Established, Writable, tvars
<1>2. CASE Connect
  <2>1. /\ is_server /\ ~connected /\ waiting' = 1
        /\ ready = <<>> /\ batch = <<>>
    BY <1>2 DEF Connect, AllQuiet
  <2>2. ready' = Edge(<<>>, "listen")
    BY <1>2, <2>1 DEF Connect
  <2>3. ~HangUp(<<>>)
    BY DEF HangUp
  <2>4. ready' = <<"listen">>
    BY <2>2 DEF Edge, OnList
  <2>5. ~OnList(ready', "socket")
    BY <2>4 DEF OnList
  <2> QED
    BY <1>1, <2>1, <2>3, <2>5 DEF PatientInv
<1>3. CASE \/ \E n \in 1..RECEIVE_BUFFER_SIZE : Arrive(n)
           \/ Close \/ Reset \/ Established \/ Writable
  <2>1. /\ connected /\ waiting' = waiting
        /\ peer = "reset" => peer' = "reset"
        /\ peer' = "reset" \/ peer' = peer \/ peer # "reset"
    BY <1>3 DEF Arrive, Close, Reset, Established, Writable
  <2>2. connection # 0
    BY <2>1, SizeAssumption DEF TurnInv, EInv, IInv, TypeOK
  <2> QED
    BY <1>1, <2>1, <2>2 DEF TurnInv, PatientInv
<1> QED
  BY <1>2, <1>3 DEF Network

LEMMA PatientWait ==
    ASSUME TurnInv, epoll_wait, UNCHANGED is_server
    PROVE  PatientInv'
<1>1. \A i \in DOMAIN batch' : /\ i \in DOMAIN ready
                               /\ batch'[i] = Mask(ready[i])
  BY DEF epoll_wait
<1>2. HangUp(batch') => OnList(ready, "socket") /\ peer = "reset"
  <2> SUFFICES ASSUME NEW i \in DOMAIN batch', batch'[i].hup
               PROVE  OnList(ready, "socket") /\ peer = "reset"
    BY DEF HangUp
  <2>1. i \in DOMAIN ready /\ ready[i] \in Sockets /\ Mask(ready[i]).hup
    BY <1>1 DEF TurnInv, EventInv
  <2>2. ready[i] # "listen" /\ peer = "reset"
    BY <2>1 DEF Mask
  <2> QED
    BY <2>1, <2>2 DEF OnList, Sockets
<1>3. ~OnList(ready', "socket")
  BY DEF OnList, epoll_wait
<1> QED
  BY <1>2, <1>3 DEF TurnInv, PatientInv, epoll_wait, tvars

\* Handling an event adds no hang-up.
LEMMA HangUpsShrink ==
    ASSUME EventInv, handle_in \/ handle_hup
    PROVE  /\ HangUp(batch') => HangUp(batch)
           /\ Head(batch).hup => HangUp(batch)
<1>1. /\ batch \in Seq(Masks) /\ batch # <<>>
      /\ Head(batch) = batch[1] /\ 1 \in DOMAIN batch
      /\ Tail(batch) \in Seq(Masks)
      /\ \A i \in DOMAIN Tail(batch) : /\ i + 1 \in DOMAIN batch
                                       /\ Tail(batch)[i] = batch[i + 1]
  BY HeadTailProperties DEF EventInv, handle_in, handle_hup
<1>2. Head(batch).hup => HangUp(batch)
  BY <1>1 DEF HangUp
<1>3. CASE batch' = Tail(batch)
  BY <1>1, <1>2, <1>3 DEF HangUp
<1>4. CASE Head(batch).hup
  BY <1>2, <1>4
<1> QED
  BY <1>2, <1>3, <1>4 DEF handle_in, handle_hup

LEMMA PatientHandled ==
    ASSUME TurnInv, handle_in \/ handle_hup, UNCHANGED is_server
    PROVE  PatientInv'
<1>1. HangUp(batch') => HangUp(batch)
  BY HangUpsShrink DEF TurnInv
<1>2. is_server \/ connection # 0
  BY DEF TurnInv, PatientInv, handle_in, handle_hup
<1>3. CASE /\ is_server /\ ~connected /\ waiting > 0
           /\ connected' /\ waiting' = waiting - 1
  BY <1>1, <1>3 DEF TurnInv, PatientInv
<1>4. CASE handle_disconnect
  <2>1. ~connected' /\ UNCHANGED <<connection, waiting>>
    BY <1>4 DEF handle_disconnect, on_disconnect
  <2>2. ~OnList(ready', "socket")
    BY <1>4, OffListKeepsList DEF handle_disconnect, TurnInv, EventInv, Sockets
  <2> QED
    BY <1>1, <1>2, <2>1, <2>2 DEF TurnInv, PatientInv
<1>5. CASE UNCHANGED <<connected, connection, kernel>>
  BY <1>1, <1>2, <1>5 DEF TurnInv, PatientInv, kernel
<1> QED
  BY <1>3, <1>4, <1>5 DEF handle_in, handle_hup, accept_new_connection,
                          is_accepted, process_received_data, on_connect,
                          read_data, tvars, kernel

LEMMA PatientStep ==
    ASSUME Patient, TurnInv, [ENext]_evars
    PROVE  PatientInv'
<1>1. CASE Network
  BY <1>1, PatientNetwork
<1>2. CASE add_tcp_client
  <2>1. /\ ~is_server /\ waiting = 0 /\ connection = 0 /\ batch = <<>>
    BY <1>2 DEF add_tcp_client, TurnInv, PatientInv, EInv, SocketInv
  <2>2. /\ UNCHANGED <<is_server, waiting, batch>>
        /\ connection' = connection + 1
    BY <1>2 DEF add_tcp_client, on_connect
  <2>3. ~HangUp(<<>>)
    BY DEF HangUp
  <2> QED
    BY <2>1, <2>2, <2>3 DEF PatientInv
<1>3. CASE process_io_events
  <2>1. CASE epoll_wait
    BY <1>3, <2>1, PatientWait DEF process_io_events
  <2>2. CASE handle_in \/ handle_hup
    BY <1>3, <2>2, PatientHandled DEF process_io_events
  <2>3. CASE process_data /\ UNCHANGED <<kernel, batch>>
    <3>1. UNCHANGED <<connected, connection>>
      BY <2>3 DEF process_data, on_data_impl, move_remaining
    <3> QED
      BY <1>3, <2>3, <3>1
      DEF process_io_events, kernel, TurnInv, PatientInv
  <2> QED
    BY <1>3, <2>1, <2>2, <2>3 DEF process_io_events
<1>4. CASE UNCHANGED evars
  BY <1>4 DEF evars, tvars, kernel, TurnInv, PatientInv
<1> QED
  BY <1>1, <1>2, <1>3, <1>4 DEF ENext

\* A connection is dropped by a read that returns nothing, which needs an end
\* as there is room to read, or by a hang-up, which is its own.
LEMMA DroppedIsEnded ==
    ASSUME TurnInv, [ENext]_evars, connected, ~connected'
    PROVE  Ended
<1>1. process_io_events /\ ~(process_data /\ UNCHANGED <<kernel, batch>>)
  <2>1. ~Network
    BY DEF Network, Connect, Arrive, Close, Reset, Established, Writable,
           tvars
  <2>2. ~add_tcp_client
    BY DEF add_tcp_client, on_connect
  <2>3. ~process_data
    BY DEF process_data, on_data_impl, move_remaining
  <2> QED
    BY <2>1, <2>2, <2>3 DEF ENext, evars, tvars
<1>2. CASE handle_hup
  <2>1. Head(batch).hup
    BY <1>2 DEF handle_hup, tvars
  <2> QED
    BY <1>2, <2>1, HangUpsShrink DEF TurnInv, PatientInv, Ended
<1>3. CASE handle_in
  <2>1. process_received_data /\ stage = "idle"
    BY <1>3 DEF handle_in, is_accepted
  <2>2. Readable = 0 /\ (length_for_read = 0 \/ Ended)
    BY <2>1 DEF process_received_data, read_data, tvars
  <2>3. length_for_read > 0
    BY <2>1, InvLeavesRoom DEF TurnInv, EInv, RoomToRead
  <2> QED
    BY <2>2, <2>3
<1>4. ~epoll_wait
  BY DEF epoll_wait, tvars
<1> QED
  BY <1>1, <1>2, <1>3, <1>4 DEF process_io_events

LEMMA TurnInvariant ==
    ASSUME Patient
    PROVE  ESpec => []TurnInv
<1>1. EInit => TurnInv
  <2>1. EInit => PatientInv
    BY DEF EInit, Init, PatientInv, HangUp
  <2> QED
    BY <2>1, EInitInv, EventInit DEF TurnInv
<1>2. TurnInv /\ [ENext]_evars => TurnInv'
  BY EStep, EventStep, StepInv, PatientStep DEF TurnInv, EInv
<1> QED
  BY <1>1, <1>2, PTL DEF ESpec

\* Only connections that have ended are dropped, if the clients take turns.
THEOREM OnlyEndedDropped ==
    ASSUME Clients = "patient"
    PROVE  ESpec => OnlyClosedPeersAreDropped
<1>0. Patient
  BY DEF Patient
<1>1. TurnInv /\ [ENext]_evars => [connected /\ ~connected' => Ended]_evars
  BY DroppedIsEnded
<1> QED
  BY <1>0, <1>1, TurnInvariant, PTL DEF ESpec, OnlyClosedPeersAreDropped

-----------------------------------------------------------------------------
(* No edge is lost.                                                        *)

LEMMA HeadAndTail ==
    ASSUME EventInv, batch # <<>>
    PROVE  /\ Tail(batch) \in Seq(Masks)
           /\ \A i \in DOMAIN batch :
                \/ batch[i] = Head(batch)
                \/ i - 1 \in DOMAIN Tail(batch)
                     /\ Tail(batch)[i - 1] = batch[i]
<1>1. /\ batch \in Seq(Masks) /\ Len(batch) \in Nat
      /\ Head(batch) = batch[1] /\ Tail(batch) \in Seq(Masks)
      /\ DOMAIN batch = 1..Len(batch)
      /\ DOMAIN Tail(batch) = 1..(Len(batch) - 1)
      /\ \A i \in 1..(Len(batch) - 1) : Tail(batch)[i] = batch[i + 1]
  <2>1. batch \in Seq(Masks)
    BY DEF EventInv
  <2>2. Len(batch) \in Nat /\ DOMAIN batch = 1..Len(batch) /\ Len(batch) # 0
    BY <2>1, EmptySeq
  <2>3. Len(Tail(batch)) = Len(batch) - 1 /\ Tail(batch) \in Seq(Masks)
    BY <2>1, HeadTailProperties
  <2> QED
    BY <2>1, <2>2, <2>3, HeadTailProperties
<1> QED
  BY <1>1

\* Handling an event takes the parts that were handled and no others.
LEMMA EventsStay ==
    ASSUME EventInv, handle_in \/ handle_hup
    PROVE  /\ handle_in /\ HangUp(batch) => HangUp(batch')
           /\ handle_hup /\ HangUp(batch) => HangUp(batch') \/ Head(batch).hup
           /\ handle_hup /\ Incoming(batch) => Incoming(batch')
<1>1. batch # <<>>
  BY DEF handle_in, handle_hup
<1>2. CASE batch' = Tail(batch) /\ ~(handle_in /\ Head(batch).hup)
  BY <1>1, <1>2, HeadAndTail DEF HangUp, Incoming, handle_hup
<1>3. CASE handle_in /\ Head(batch).hup
  <2> DEFINE rest == [Head(batch) EXCEPT !.in = FALSE]
  <2>1. Head(batch) \in Masks /\ Tail(batch) \in Seq(Masks)
    BY <1>1, HeadTailProperties DEF EventInv
  <2>2. rest \in Masks /\ rest.hup
    BY <1>3, <2>1 DEF Masks
  <2>3. batch' = <<rest>> \o Tail(batch) /\ ~handle_hup
    BY <1>3 DEF handle_in, handle_hup
  <2> HIDE DEF rest
  <2>4. 1 \in DOMAIN batch' /\ batch'[1] = rest
    BY <2>1, <2>2, <2>3
  <2>5. HangUp(batch')
    BY <2>2, <2>4 DEF HangUp
  <2> QED
    BY <1>3, <2>3, <2>5
<1> QED
  BY <1>2, <1>3 DEF handle_in, handle_hup

\* What the loop asks epoll for says what the sockets then have.
LEMMA MasksTell ==
    ASSUME EventInv, epoll_wait
    PROVE  /\ OnList(ready, "listen") /\ waiting > 0 => Incoming(batch')
           /\ OnList(ready, "socket") /\ (taken < arrived \/ Ended)
                => Incoming(batch')
           /\ OnList(ready, "socket") /\ peer = "reset" => HangUp(batch')
<1>1. \A i \in DOMAIN ready : i \in DOMAIN batch' /\ batch'[i] = Mask(ready[i])
  BY DEF epoll_wait
<1>2. ASSUME NEW x, OnList(ready, x)
      PROVE  /\ Mask(x).in => Incoming(batch')
             /\ Mask(x).hup => HangUp(batch')
  <2>1. PICK i \in DOMAIN ready : ready[i] = x
    BY <1>2 DEF OnList
  <2> QED
    BY <1>1, <2>1 DEF Incoming, HangUp
<1>3. /\ Mask("listen").in = (waiting > 0)
      /\ Mask("socket").in = (taken < arrived \/ Ended)
      /\ Mask("socket").hup = (peer = "reset")
  BY DEF Mask
<1> QED
  BY <1>2, <1>3

\* An edge adds a socket.
LEMMA EdgeAdds ==
    ASSUME EventInv, NEW x \in Sockets, ready' = Edge(ready, x)
    PROVE  \A y \in Sockets : OnList(ready', y) <=> OnList(ready, y) \/ y = x
  BY EdgeKeepsList DEF EventInv

LEMMA ResetStep ==
    ASSUME EInv, EventInv, ResetIsReported, [ENext]_evars
    PROVE  ResetIsReported'
<1> SUFFICES ASSUME connected', peer' = "reset"
             PROVE  OnList(ready', "socket") \/ HangUp(batch')
  BY DEF ResetIsReported
<1>1. CASE Network
  <2>1. UNCHANGED <<connected, batch>>
    BY <1>1 DEF Network, Connect, Arrive, Close, Reset, Established, Writable,
                tvars
  <2>2. CASE Reset
    BY <2>2, EdgeAdds DEF Reset, Sockets
  <2>3. CASE ~Reset
    <3>1. peer = "reset"
            /\ \E x \in Sockets : ready' = Edge(ready, x)
      BY <1>1, <2>3 DEF Network, Connect, Arrive, Close, Established, Writable,
                        Sockets
    <3> QED
      BY <2>1, <3>1, EdgeAdds DEF ResetIsReported, Sockets
  <2> QED
    BY <2>2, <2>3
<1>2. CASE add_tcp_client
  BY <1>2 DEF add_tcp_client
<1>3. CASE process_io_events
  <2>1. CASE epoll_wait
    <3>1. UNCHANGED <<connected, peer>> /\ batch = <<>>
      BY <2>1 DEF epoll_wait, tvars
    <3>2. ~HangUp(<<>>)
      BY DEF HangUp
    <3> QED
      BY <2>1, <3>1, <3>2, MasksTell DEF ResetIsReported
  <2>2. CASE handle_in
    <3>1. ~handle_disconnect
      BY DEF handle_disconnect, on_disconnect
    <3>2. UNCHANGED <<connected, peer, ready>>
      BY <2>2, <3>1 DEF handle_in, accept_new_connection, is_accepted,
         process_received_data, read_data, tvars, kernel
    <3> QED
      BY <2>2, <3>2, EventsStay DEF ResetIsReported
  <2>3. CASE handle_hup
    <3>1. ~Head(batch).hup
      BY <2>3 DEF handle_hup, handle_disconnect, on_disconnect
    <3>2. UNCHANGED <<connected, peer, ready>>
      BY <2>3, <3>1 DEF handle_hup, tvars, kernel
    <3> QED
      BY <2>3, <3>1, <3>2, EventsStay DEF ResetIsReported
  <2>4. CASE process_data /\ UNCHANGED <<kernel, batch>>
    <3>1. UNCHANGED connected
      BY <2>4 DEF process_data, on_data_impl, move_remaining
    <3> QED
      BY <2>4, <3>1 DEF ResetIsReported, kernel
  <2> QED
    BY <1>3, <2>1, <2>2, <2>3, <2>4 DEF process_io_events
<1>4. CASE UNCHANGED evars
  BY <1>4 DEF ResetIsReported, evars, tvars, kernel
<1> QED
  BY <1>1, <1>2, <1>3, <1>4 DEF ENext

(***************************************************************************)
(* With any clients and in any order of events, a connection that was      *)
(* reset or refused is dropped or has its hang-up before it.               *)
(***************************************************************************)
THEOREM ResetsAreReported == ESpec => []ResetIsReported
<1>1. EInit => EInv /\ EventInv /\ ResetIsReported
  BY EInitInv, EventInit DEF EInit, ResetIsReported
<1>2. EInv /\ EventInv /\ [ENext]_evars => EInv' /\ EventInv'
  BY EStep, EventStep, StepInv DEF EInv
<1> QED
  BY <1>1, <1>2, ResetStep, PTL DEF ESpec

-----------------------------------------------------------------------------
(* Patient clients: what they have sent is read.                           *)

\* The longest beginning of a frame leaves room for all a client piles up.
WindowFits ==
    \A s \in Streams : \A k \in DOMAIN s \ {0} :
      s[k] - s[k - 1] - 1 + Window <= RECEIVE_BUFFER_SIZE

\* Nothing follows the end of a stream, and no more than Window is unread.
UnreadInv ==
    /\ connected /\ peer # "reset" => arrived <= taken + Window
    /\ connected /\ peer \in {"connecting", "fin"} => taken = arrived

PendingInv == ResetIsReported /\ UnreadInv /\ NothingIsForgotten

\* With neither list holding anything, everything was read.
LEMMA QuietMeansRead ==
    ASSUME NothingIsForgotten, connected, ready = <<>>, batch = <<>>
    PROVE  ~(taken < arrived) /\ ~Ended
<1>1. ~OnList(<<>>, "socket") /\ ~Incoming(<<>>) /\ ~HangUp(<<>>)
  BY DEF OnList, Incoming, HangUp
<1> QED
  BY <1>1 DEF NothingIsForgotten

LEMMA UnreadNetwork ==
    ASSUME Patient, EInv, PendingInv, Network
    PROVE  UnreadInv'
<1>1. taken \in Nat /\ arrived \in Nat /\ taken <= arrived /\ Window \in Nat
  BY SizeAssumption, ClientsAssumption DEF EInv, IInv, TypeOK, SocketInv
<1>2. UNCHANGED <<connected, taken>>
  BY DEF Network, Connect, Arrive, Close, Reset, Established, Writable, tvars
<1>3. CASE Connect \/ Reset \/ Writable \/ Established
  BY <1>1, <1>2, <1>3 DEF Connect, Reset, Writable, Established, PendingInv,
                          UnreadInv
<1>4. CASE \E n \in 1..RECEIVE_BUFFER_SIZE : Arrive(n)
  BY <1>1, <1>2, <1>4 DEF Arrive, UnreadInv
<1>5. CASE Close
  <2>1. connected => taken = arrived
    BY <1>1, <1>5, QuietMeansRead DEF PendingInv, Close, AllQuiet
  <2>2. UNCHANGED arrived
    BY <1>5 DEF Close
  <2> QED
    BY <1>1, <1>2, <2>1, <2>2 DEF UnreadInv
<1> QED
  BY <1>3, <1>4, <1>5 DEF Network

\* One read takes all a patient client has sent.
LEMMA ReadsEverything ==
    ASSUME WindowFits, EInv, UnreadInv, connected, stage = "idle",
           peer # "reset"
    PROVE  Readable = arrived - taken
<1> DEFINE l == Len(handled)
<1>1. /\ taken \in Nat /\ arrived \in Nat /\ taken <= arrived
      /\ arrived - taken <= Window /\ Window \in Nat
      /\ RECEIVE_BUFFER_SIZE \in Nat
  BY SizeAssumption, ClientsAssumption
  DEF EInv, IInv, TypeOK, SocketInv, UnreadInv
<1>2. /\ taken = Consumed + write_offset
      /\ Consumed \in Nat /\ write_offset \in Nat
      /\ write_offset <= RECEIVE_BUFFER_SIZE
      /\ NoFrameLeft
  BY StreamFacts, SizeAssumption
  DEF EInv, IInv, TypeOK, BufferIsNext, Consumed
<1>3. CASE taken = arrived
  BY <1>1, <1>2, <1>3 DEF Readable, Shorter, length_for_read
<1>4. CASE taken < arrived
  <2>1. PICK n \in Nat :
          /\ stream \in [0..n -> Nat] /\ DOMAIN stream = 0..n
          /\ \A i, j \in 0..n : i < j => stream[i] < stream[j]
    BY StreamFacts DEF EInv, IInv, TypeOK
  <2>2. PICK k \in 0..n : arrived <= stream[k]
    BY <2>1 DEF EInv, SocketInv
  <2>3. l \in 0..n /\ stream[l] = Consumed
    BY <2>1 DEF EInv, IInv, Consumed
  <2>4. k > l
    <3>1. stream[l] < stream[k] /\ stream[k] \in Nat
      BY <1>1, <1>2, <1>4, <2>1, <2>2, <2>3
    <3> QED
      BY <2>1, <2>3, <3>1
  <2>5. l + 1 \in 1..n /\ (l + 1) - 1 = l
    BY <2>2, <2>3, <2>4
  <2>6. stream[l + 1] \in Nat /\ stream[l + 1] > taken
    <3>1. l + 1 \in DOMAIN stream /\ stream[l + 1] \in Nat /\ l \in Nat
      BY <2>1, <2>3, <2>5
    <3>2. ~(stream[l + 1] <= taken)
      BY <1>2, <3>1 DEF NoFrameLeft
    <3> QED
      BY <1>1, <3>1, <3>2
  <2>7. stream[l + 1] - Consumed - 1 + Window <= RECEIVE_BUFFER_SIZE
    <3>1. stream \in Streams /\ l + 1 \in DOMAIN stream \ {0}
      BY <2>1, <2>5 DEF EInv, IInv, TypeOK
    <3> QED
      BY <2>3, <2>5, <3>1 DEF WindowFits
  <2>8. arrived - taken <= RECEIVE_BUFFER_SIZE - write_offset
    BY <1>1, <1>2, <2>6, <2>7
  <2> QED
    BY <1>1, <1>2, <2>8 DEF Readable, Shorter, length_for_read
<1> QED
  BY <1>1, <1>3, <1>4

LEMMA PendingNetwork ==
    ASSUME TurnInv, PendingInv, Network
    PROVE  NothingIsForgotten'
<1>1. UNCHANGED <<connected, taken, batch>>
  BY DEF Network, Connect, Arrive, Close, Reset, Established, Writable, tvars
<1>2. CASE Connect
  <2>1. /\ OnList(ready', "listen")
        /\ OnList(ready, "socket") => OnList(ready', "socket")
    BY <1>2, EdgeAdds DEF Connect, Sockets, TurnInv
  <2>2. UNCHANGED <<arrived, peer>>
    BY <1>2 DEF Connect
  <2> QED
    BY <1>1, <2>1, <2>2 DEF PendingInv, NothingIsForgotten, Ended
<1>3. CASE \/ \E n \in 1..RECEIVE_BUFFER_SIZE : Arrive(n)
           \/ Close \/ Reset \/ Established \/ Writable
  <2>1. ready' = Edge(ready, "socket") /\ waiting' = waiting
    BY <1>3 DEF Arrive, Close, Reset, Established, Writable
  <2>2. /\ OnList(ready', "socket")
        /\ OnList(ready, "listen") => OnList(ready', "listen")
    BY <2>1, EdgeAdds DEF Sockets, TurnInv
  <2> QED
    BY <1>1, <2>1, <2>2 DEF PendingInv, NothingIsForgotten
<1> QED
  BY <1>2, <1>3 DEF Network

LEMMA PendingWait ==
    ASSUME TurnInv, PendingInv, epoll_wait
    PROVE  UnreadInv' /\ NothingIsForgotten'
<1>1. /\ UNCHANGED <<connected, taken, waiting, arrived, peer>>
      /\ batch = <<>>
  BY DEF epoll_wait, tvars
<1>2. ~Incoming(<<>>) /\ ~HangUp(<<>>)
  BY DEF Incoming, HangUp
<1>3. /\ waiting > 0 => Incoming(batch')
      /\ connected /\ (taken < arrived \/ Ended) => Incoming(batch')
  BY <1>1, <1>2, MasksTell DEF TurnInv, PendingInv, NothingIsForgotten
<1> QED
  BY <1>1, <1>3 DEF PendingInv, UnreadInv, NothingIsForgotten, Ended

\* The read of an event with data, or the end of the connection, leaves
\* nothing to be told of; a hang-up waits for its own part.
LEMMA PendingIn ==
    ASSUME WindowFits, TurnInv, PendingInv, handle_in, UNCHANGED is_server,
           ResetIsReported'
    PROVE  UnreadInv' /\ NothingIsForgotten'
<1>1. /\ taken \in Nat /\ arrived \in Nat /\ taken <= arrived
      /\ Window \in Nat /\ stage = "idle" /\ length_for_read # 0
  BY SizeAssumption, ClientsAssumption, InvLeavesRoom
  DEF TurnInv, EInv, IInv, TypeOK, SocketInv, handle_in, RoomToRead
<1>2. waiting > 0 => waiting = 1 /\ is_server /\ ~connected
  BY DEF TurnInv, EInv, SocketInv, PatientInv
<1>3. CASE accept_new_connection /\ is_server /\ ~connected
  <2>1. CASE waiting > 0
    <3>1. /\ waiting' = 0 /\ arrived' = 0 /\ taken' = 0 /\ peer' = "open"
      BY <1>2, <1>3, <2>1 DEF accept_new_connection, on_connect
    <3> QED
      BY <1>1, <3>1 DEF UnreadInv, NothingIsForgotten, Ended
  <2>2. CASE ~(waiting > 0)
    <3>1. UNCHANGED <<connected, waiting>>
      BY <1>3, <2>2 DEF accept_new_connection, tvars, kernel
    <3> QED
      BY <1>3, <2>2, <3>1 DEF UnreadInv, NothingIsForgotten
  <2> QED
    BY <2>1, <2>2
<1>4. CASE process_received_data /\ (connected \/ ~is_server)
  <2>1. ~(waiting > 0) /\ UNCHANGED waiting
    BY <1>2, <1>4 DEF process_received_data, handle_disconnect, kernel
  <2>2. CASE ~connected'
    BY <2>1, <2>2 DEF UnreadInv, NothingIsForgotten
  <2>3. CASE connected'
    <3>1. connected /\ UNCHANGED <<connected, arrived, peer>>
      BY <1>4, <2>3 DEF process_received_data, handle_disconnect,
                        on_disconnect, read_data, kernel, tvars
    <3>2. CASE peer = "reset"
      <4>1. OnList(ready', "socket") \/ HangUp(batch')
        BY <2>3, <3>1, <3>2 DEF ResetIsReported
      <4> QED
        BY <2>1, <3>1, <3>2, <4>1 DEF UnreadInv, NothingIsForgotten
    <3>3. CASE peer # "reset"
      <4>1. Readable = arrived - taken
        BY <1>1, <3>1, <3>3, ReadsEverything DEF TurnInv, PendingInv
      <4>2. CASE Readable > 0
        <5>1. taken' = taken + Readable
          BY <1>4, <4>2 DEF process_received_data, read_data
        <5>2. taken' = arrived /\ peer # "fin"
          BY <1>1, <3>1, <4>1, <4>2, <5>1 DEF PendingInv, UnreadInv
        <5> QED
          BY <1>1, <2>1, <3>1, <3>3, <5>2
          DEF UnreadInv, NothingIsForgotten, Ended
      <4>3. CASE ~(Readable > 0)
        <5>1. ~Ended /\ taken' = taken
          BY <1>1, <1>4, <2>3, <4>1, <4>3
          DEF process_received_data, handle_disconnect, on_disconnect, tvars
        <5>2. taken' = arrived
          BY <1>1, <4>1, <4>3, <5>1
        <5> QED
          BY <1>1, <2>1, <3>1, <5>1, <5>2
          DEF UnreadInv, NothingIsForgotten, Ended
      <4> QED
        BY <4>2, <4>3
    <3> QED
      BY <3>2, <3>3
  <2> QED
    BY <2>2, <2>3
<1> QED
  BY <1>3, <1>4 DEF handle_in, is_accepted

\* Handling a hang-up ends the connection, and nobody waits meanwhile.
LEMMA PendingHup ==
    ASSUME TurnInv, PendingInv, handle_hup
    PROVE  UnreadInv' /\ NothingIsForgotten'
<1>1. CASE Head(batch).hup
  <2>1. ~connected' /\ UNCHANGED waiting
    BY <1>1 DEF handle_hup, handle_disconnect, on_disconnect
  <2>2. ~(waiting > 0)
    BY <1>1, HangUpsShrink DEF TurnInv, PatientInv
  <2> QED
    BY <2>1, <2>2 DEF UnreadInv, NothingIsForgotten
<1>2. CASE ~Head(batch).hup
  <2>1. UNCHANGED <<connected, taken, waiting, arrived, peer, ready>>
    BY <1>2 DEF handle_hup, tvars, kernel
  <2>2. /\ HangUp(batch) => HangUp(batch')
        /\ Incoming(batch) => Incoming(batch')
    BY <1>2, EventsStay DEF TurnInv
  <2> QED
    BY <2>1, <2>2 DEF PendingInv, UnreadInv, NothingIsForgotten, Ended
<1> QED
  BY <1>1, <1>2

LEMMA PendingStep ==
    ASSUME Patient, WindowFits, TurnInv, PendingInv, [ENext]_evars
    PROVE  PendingInv'
<1>1. ResetIsReported'
  BY ResetStep DEF TurnInv, PendingInv
<1>2. CASE Network
  BY <1>1, <1>2, UnreadNetwork, PendingNetwork DEF TurnInv, PendingInv
<1>3. CASE add_tcp_client
  <2>1. waiting = 0
    BY <1>3 DEF add_tcp_client, TurnInv, EInv, SocketInv
  <2>2. /\ waiting' = 0 /\ taken' = 0 /\ arrived' = 0
        /\ peer' = "connecting"
    BY <1>3, <2>1 DEF add_tcp_client, on_connect
  <2> QED
    BY <1>1, <2>2, ClientsAssumption
    DEF PendingInv, UnreadInv, NothingIsForgotten, Ended
<1>4. CASE process_io_events
  <2>1. CASE epoll_wait
    BY <1>1, <2>1, PendingWait DEF PendingInv
  <2>2. CASE handle_in
    BY <1>1, <1>4, <2>2, PendingIn DEF PendingInv, process_io_events
  <2>3. CASE handle_hup
    BY <1>1, <2>3, PendingHup DEF PendingInv
  <2>4. CASE process_data /\ UNCHANGED <<kernel, batch>>
    <3>1. UNCHANGED <<connected, taken>>
      BY <2>4 DEF process_data, on_data_impl, move_remaining
    <3> QED
      BY <1>1, <2>4, <3>1
      DEF PendingInv, UnreadInv, NothingIsForgotten, Ended, kernel
  <2> QED
    BY <1>4, <2>1, <2>2, <2>3, <2>4 DEF process_io_events
<1>5. CASE UNCHANGED evars
  BY <1>1, <1>5 DEF PendingInv, UnreadInv, NothingIsForgotten, Ended, evars,
                    tvars, kernel
<1> QED
  BY <1>2, <1>3, <1>4, <1>5 DEF ENext

(***************************************************************************)
(* With patient clients, whose unread bytes fit behind the beginning of a  *)
(* frame, whoever waits, has sent something or has ended the connection    *)
(* has an event to be noticed by.                                          *)
(***************************************************************************)
THEOREM NothingForgotten ==
    ASSUME Clients = "patient", WindowFits
    PROVE  ESpec => []NothingIsForgotten
<1>0. Patient
  BY DEF Patient
<1>1. EInit => PendingInv
  BY DEF EInit, Init, PendingInv, ResetIsReported, UnreadInv,
         NothingIsForgotten
<1>2. TurnInv /\ PendingInv /\ [ENext]_evars => PendingInv'
  BY <1>0, PendingStep
<1>3. PendingInv => NothingIsForgotten
  BY DEF PendingInv
<1> QED
  BY <1>0, <1>1, <1>2, <1>3, TurnInvariant, PTL DEF ESpec

=============================================================================
