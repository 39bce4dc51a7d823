--------------------------- MODULE TransportProofs ---------------------------
(***************************************************************************)
(* The framing of Transport is right for every header and buffer size, and *)
(* every stream of frames that fit in the buffer.                          *)
(***************************************************************************)
EXTENDS Transport, TLAPS

\* Where the first frame that was not handled starts in the peer's stream.
Consumed == stream[Len(handled)]

\* The buffer continues the stream where handling stopped, up to what was read.
BufferIsNext ==
    /\ taken = Consumed + (write_offset - read_offset)
    /\ \A i \in read_offset..(write_offset - 1) :
         receive_buffer[i] = Byte(connection, Consumed + (i - read_offset))
    /\ \E k \in DOMAIN stream : taken <= stream[k]

NoFrameLeft == \A k \in DOMAIN stream : stream[k] <= taken => k <= Len(handled)

IInv ==
    /\ TypeOK
    /\ Len(handled) \in DOMAIN stream
    /\ FramesInOrder
    /\ stage = "idle" => read_offset = 0
    /\ stage # "idle" => connected
    /\ connected => connection > 0 /\ BufferIsNext
    /\ ~connected => write_offset = 0
    /\ (connected /\ stage # "parse") => NoFrameLeft

-----------------------------------------------------------------------------
\* The form in which the assumption on streams is used.
LEMMA StreamFacts ==
    ASSUME NEW s \in Streams
    PROVE  \E n \in Nat :
             /\ s \in [0..n -> Nat] /\ DOMAIN s = 0..n
             /\ s[0] = 0
             /\ \A i, j \in 0..n : i < j => s[i] < s[j]
             /\ \A k \in 1..n :
                  s[k] - s[k - 1] \in HeaderSize..RECEIVE_BUFFER_SIZE
  BY StreamAssumption, SizeAssumption DEF IsStream

LEMMA InitInv == Init => IInv
<1> SUFFICES ASSUME Init PROVE IInv
  OBVIOUS
<1>1. PICK n \in Nat : stream \in [0..n -> Nat] /\ DOMAIN stream = 0..n
  BY StreamFacts DEF Init
<1>2. TypeOK
  <2>1. handled \in Seq(Frames)
    BY DEF Init
  <2>2. receive_buffer \in [Slots -> Bytes \cup {Unwritten}]
    BY DEF Init
  <2> QED
    <3>1. /\ connection \in 0..MaxConnections /\ taken \in Nat
          /\ write_offset \in 0..RECEIVE_BUFFER_SIZE
          /\ read_offset \in 0..write_offset
      BY SizeAssumption DEF Init
    <3> QED
      BY <2>1, <2>2, <3>1 DEF Init, TypeOK
<1> QED
  BY <1>1, <1>2 DEF Init, IInv, FramesInOrder

LEMMA ConnectInv ==
    ASSUME IInv, NEW s \in Streams, ~connected,
           connection < MaxConnections, on_connect(s)
    PROVE  IInv'
<1>1. PICK n \in Nat : /\ s \in [0..n -> Nat] /\ DOMAIN s = 0..n
                       /\ s[0] = 0
                       /\ \A i, j \in 0..n : i < j => s[i] < s[j]
  BY StreamFacts
<1>2. connection + 1 \in 1..MaxConnections
  BY SizeAssumption DEF IInv, TypeOK
<1>3. TypeOK'
  BY <1>2 DEF IInv, TypeOK, on_connect
<1>4. Len(handled') = 0 /\ Len(handled') \in DOMAIN stream'
  BY <1>1 DEF on_connect
<1>5. FramesInOrder'
  BY DEF on_connect, FramesInOrder
<1>6. write_offset' = 0 /\ read_offset' = 0 /\ taken' = 0
  BY DEF on_connect, IInv
<1>7. BufferIsNext'
  BY <1>1, <1>4, <1>6 DEF on_connect, BufferIsNext, Consumed
<1>8. NoFrameLeft'
  BY <1>1, <1>4, <1>6 DEF on_connect, NoFrameLeft
<1> QED
  BY <1>2, <1>3, <1>4, <1>5, <1>6, <1>7, <1>8 DEF on_connect, IInv

LEMMA DisconnectInv ==
    ASSUME IInv, on_disconnect
    PROVE  IInv'
<1>1. TypeOK'
  <2>1. write_offset' \in 0..RECEIVE_BUFFER_SIZE
        /\ read_offset' \in 0..write_offset'
    BY SizeAssumption DEF IInv, on_disconnect
  <2> QED
    BY <2>1 DEF IInv, TypeOK, on_disconnect
<1> QED
  BY <1>1 DEF IInv, on_disconnect, FramesInOrder

LEMMA ReadInv ==
    ASSUME IInv, NEW n \in Unread, read_data(n)
    PROVE  IInv'
<1>1. /\ n \in Nat \ {0} /\ write_offset \in Nat /\ taken \in Nat
      /\ write_offset + n <= RECEIVE_BUFFER_SIZE
      /\ connection \in 1..MaxConnections
      /\ read_offset = 0
  BY SizeAssumption
  DEF IInv, TypeOK, Unread, read_data, length_for_read
<1>2. \A p \in Nat : Byte(connection, p) \in Bytes
  BY <1>1 DEF Byte, Bytes
<1>3. TypeOK'
  <2>1. receive_buffer' \in [Slots -> Bytes \cup {Unwritten}]
    <3>1. \A i \in Slots : i \in write_offset..(write_offset + n - 1) =>
             taken + (i - write_offset) \in Nat
      BY <1>1, SizeAssumption DEF Slots
    <3> QED
      BY <1>2, <3>1 DEF IInv, TypeOK, read_data
  <2> QED
    BY <1>1, <2>1, SizeAssumption DEF IInv, TypeOK, read_data
<1>4. Consumed' = Consumed /\ Consumed \in Nat
  BY StreamFacts DEF IInv, TypeOK, Consumed, read_data
<1>5. BufferIsNext'
  <2>1. taken' = Consumed + (write_offset' - read_offset')
    BY <1>1, <1>4 DEF IInv, BufferIsNext, read_data
  <2>2. ASSUME NEW i \in 0..(write_offset + n - 1)
        PROVE  receive_buffer'[i] = Byte(connection, Consumed + i)
    <3>1. i \in Slots
      BY <1>1, SizeAssumption DEF Slots
    <3>2. CASE i \in 0..(write_offset - 1)
      BY <1>1, <1>4, <3>1, <3>2 DEF IInv, BufferIsNext, read_data
    <3>3. CASE i \in write_offset..(write_offset + n - 1)
      <4>1. taken + (i - write_offset) = Consumed + i
        BY <1>1, <1>4, <3>3 DEF IInv, BufferIsNext, read_data
      <4> QED
        BY <3>1, <3>3, <4>1 DEF read_data
    <3> QED
      BY <1>1, <3>2, <3>3
  <2>3. \E k \in DOMAIN stream : taken + n <= stream[k]
    BY DEF Unread
  <2> QED
    BY <1>1, <1>4, <2>1, <2>2, <2>3 DEF BufferIsNext, read_data
<1> QED
  BY <1>1, <1>3, <1>5 DEF IInv, read_data, FramesInOrder

-----------------------------------------------------------------------------
(* The parsing loop.                                                       *)

\* If another byte of the stream was read, there is a frame it belongs to.
LEMMA NextFrame ==
    ASSUME IInv, connected, taken > Consumed
    PROVE  /\ Len(handled) + 1 \in DOMAIN stream
           /\ stream[Len(handled) + 1] - Consumed
                \in HeaderSize..RECEIVE_BUFFER_SIZE
<1> DEFINE l == Len(handled)
<1>1. PICK n \in Nat :
        /\ stream \in [0..n -> Nat] /\ DOMAIN stream = 0..n
        /\ \A i, j \in 0..n : i < j => stream[i] < stream[j]
        /\ \A k \in 1..n :
             stream[k] - stream[k - 1] \in HeaderSize..RECEIVE_BUFFER_SIZE
  BY StreamFacts DEF IInv, TypeOK
<1>2. l \in 0..n
  BY <1>1 DEF IInv
<1>3. PICK k \in 0..n : taken <= stream[k]
  BY <1>1 DEF IInv, BufferIsNext
<1>4. stream[l] < stream[k]
  BY <1>1, <1>2, <1>3 DEF IInv, TypeOK, Consumed
<1>5. l < k
  <2>1. k < l => stream[k] < stream[l]
    BY <1>1, <1>2, <1>3
  <2>2. stream[k] \in Nat /\ stream[l] \in Nat
    BY <1>1, <1>2, <1>3
  <2>3. ~(k < l) /\ k # l
    BY <1>4, <2>1, <2>2
  <2> QED
    BY <1>2, <1>3, <2>3
<1>6. l + 1 \in 1..n /\ (l + 1) - 1 = l
  BY <1>2, <1>3, <1>5
<1>7. stream[l + 1] - stream[(l + 1) - 1] \in HeaderSize..RECEIVE_BUFFER_SIZE
  BY <1>1, <1>6
<1> QED
  BY <1>1, <1>6, <1>7 DEF Consumed

\* Frames end in order: if the next one was not read whole, none was.
LEMMA PartialFrame ==
    ASSUME IInv, Len(handled) + 1 \in DOMAIN stream =>
                   taken < stream[Len(handled) + 1]
    PROVE  NoFrameLeft
<1> DEFINE l == Len(handled)
<1>1. PICK n \in Nat :
        /\ stream \in [0..n -> Nat] /\ DOMAIN stream = 0..n
        /\ \A i, j \in 0..n : i < j => stream[i] < stream[j]
  BY StreamFacts DEF IInv, TypeOK
<1>2. l \in 0..n
  BY <1>1 DEF IInv
<1>3. SUFFICES ASSUME NEW k \in 0..n, k > l
               PROVE  taken < stream[k]
  <2>1. taken \in Nat /\ \A k \in 0..n : stream[k] \in Nat
    BY <1>1 DEF IInv, TypeOK
  <2> QED
    BY <1>1, <1>2, <2>1 DEF NoFrameLeft
<1>4. l + 1 \in 0..n /\ (k = l + 1 \/ l + 1 < k)
  BY <1>2, <1>3
<1>5. taken < stream[l + 1] /\ stream[l + 1] \in Nat /\ stream[k] \in Nat
  BY <1>1, <1>4
<1> QED
  BY <1>1, <1>4, <1>5 DEF IInv, TypeOK

\* The header field holds the size of that frame.
LEMMA HeaderIsRead ==
    ASSUME IInv, connected, taken > Consumed
    PROVE  HeaderField(Byte(connection, Consumed))
             = {stream[Len(handled) + 1] - Consumed}
<1> DEFINE l == Len(handled)
           byte == Byte(connection, Consumed)
           starts == {k \in DOMAIN stream :
                        /\ k + 1 \in DOMAIN stream
                        /\ byte = Byte(connection, stream[k])}
<1>1. PICK n \in Nat :
        /\ stream \in [0..n -> Nat] /\ DOMAIN stream = 0..n
        /\ \A i, j \in 0..n : i < j => stream[i] < stream[j]
  BY StreamFacts DEF IInv, TypeOK
<1>2. l \in 0..n /\ l + 1 \in 0..n
  BY <1>1, NextFrame DEF IInv
<1>3. \A k \in 0..n : stream[k] = stream[l] => k = l
  BY <1>1, <1>2
<1>4. \A k \in 0..n : byte = Byte(connection, stream[k]) <=> k = l
  BY <1>3 DEF Byte, Consumed
<1>5. starts = {l}
  BY <1>1, <1>2, <1>4
<1>6. HeaderField(byte) = {stream[k + 1] - stream[k] : k \in starts}
  BY <1>5 DEF HeaderField
<1> HIDE DEF starts
<1> QED
  BY <1>5, <1>6 DEF Consumed

\* The next frame of the stream has this size.
NextSize == stream[Len(handled) + 1] - Consumed

\* A turn of the loop hands over the next frame if it is in the buffer whole.
LEMMA ParseOutcome ==
    ASSUME IInv, on_data_impl
    PROVE  /\ connected /\ stage = "parse"
           /\ read_offset < write_offset
           /\ Len(handled) + 1 \in DOMAIN stream
           /\ NextSize \in HeaderSize..RECEIVE_BUFFER_SIZE
           /\ stream[Len(handled) + 1] = Consumed + NextSize
           /\ UNCHANGED <<connected, connection, stream, taken,
                          receive_buffer, write_offset>>
           /\ \/ /\ NextSize <= write_offset - read_offset
                 /\ handled' = Append(handled,
                      [first |-> Byte(connection, Consumed),
                       size |-> NextSize])
                 /\ read_offset' = read_offset + NextSize
                 /\ stage' = "parse"
              \/ /\ write_offset - read_offset < NextSize
                 /\ stage' = "move"
                 /\ UNCHANGED <<read_offset, handled>>
<1> DEFINE l == Len(handled)
           length == write_offset - read_offset
           size == stream[l + 1] - Consumed
<1>1. /\ connected /\ stage = "parse"
      /\ read_offset \in Nat /\ write_offset \in Nat
      /\ read_offset < write_offset /\ write_offset <= RECEIVE_BUFFER_SIZE
      /\ taken = Consumed + length
      /\ l \in Nat /\ taken \in Nat /\ Consumed \in Nat
  BY StreamFacts, SizeAssumption
  DEF on_data_impl, IInv, TypeOK, BufferIsNext, Consumed
<1>2. taken > Consumed
  BY <1>1
<1>3. /\ l + 1 \in DOMAIN stream
      /\ size \in HeaderSize..RECEIVE_BUFFER_SIZE
      /\ stream[l + 1] = Consumed + size
      /\ size \in Nat \ {0}
  <2>1. l + 1 \in DOMAIN stream /\ size \in HeaderSize..RECEIVE_BUFFER_SIZE
    BY <1>1, <1>2, NextFrame
  <2>2. stream[l + 1] \in Nat
    BY <2>1, StreamFacts DEF IInv, TypeOK
  <2> QED
    BY <1>1, <2>1, <2>2, SizeAssumption
<1>4. receive_buffer[read_offset] = Byte(connection, Consumed)
  BY <1>1 DEF IInv, BufferIsNext
<1>5. HeaderField(receive_buffer[read_offset]) = {size}
  BY <1>1, <1>2, <1>4, HeaderIsRead
<1>6. /\ UNCHANGED <<connected, connection, stream, taken, receive_buffer,
                     write_offset>>
      /\ \/ /\ size <= length
            /\ handled' = Append(handled,
                 [first |-> Byte(connection, Consumed), size |-> size])
            /\ read_offset' = read_offset + size
            /\ stage' = "parse"
         \/ /\ length < size
            /\ stage' = "move"
            /\ UNCHANGED <<read_offset, handled>>
  <2> HIDE DEF size
  <2>1. CASE length < HeaderSize
    BY <1>1, <1>3, <2>1, SizeAssumption DEF on_data_impl
  <2>2. CASE length >= HeaderSize
    <3>1. IF IsComplete(length, size)
          THEN /\ handled' = Append(handled,
                    [first |-> receive_buffer[read_offset], size |-> size])
               /\ read_offset' = read_offset + size
               /\ stage' = IF size = 0 THEN "move" ELSE "parse"
          ELSE stage' = "move" /\ UNCHANGED <<read_offset, handled>>
      BY <1>1, <1>5, <2>2, SizeAssumption DEF on_data_impl
    <3> QED
      BY <1>1, <1>3, <1>4, <3>1 DEF IsComplete, on_data_impl
  <2> QED
    <3>1. length \in Nat /\ HeaderSize \in Nat
      BY <1>1, SizeAssumption
    <3>2. length < HeaderSize \/ length >= HeaderSize
      BY <3>1
    <3>3. UNCHANGED <<connected, connection, stream, taken, receive_buffer,
                      write_offset>>
      BY DEF on_data_impl
    <3> QED
      BY <2>1, <2>2, <3>2, <3>3
<1> QED
  BY <1>1, <1>3, <1>6 DEF NextSize

LEMMA ParseInv ==
    ASSUME IInv, on_data_impl
    PROVE  IInv'
<1> DEFINE l == Len(handled)
           length == write_offset - read_offset
           size == NextSize
<1>1. /\ connected /\ stage = "parse"
      /\ read_offset \in Nat /\ write_offset \in Nat
      /\ read_offset < write_offset /\ write_offset <= RECEIVE_BUFFER_SIZE
      /\ taken = Consumed + length
      /\ l \in Nat /\ taken \in Nat /\ Consumed \in Nat
  BY ParseOutcome, StreamFacts, SizeAssumption
  DEF IInv, TypeOK, BufferIsNext, Consumed
<1>3. /\ l + 1 \in DOMAIN stream
      /\ size \in HeaderSize..RECEIVE_BUFFER_SIZE
      /\ stream[l + 1] = Consumed + size
      /\ size \in Nat \ {0}
  BY ParseOutcome, SizeAssumption
<1>6. /\ UNCHANGED <<connected, connection, stream, taken, receive_buffer,
                     write_offset>>
      /\ \/ /\ size <= length
            /\ handled' = Append(handled,
                 [first |-> Byte(connection, Consumed), size |-> size])
            /\ read_offset' = read_offset + size
            /\ stage' = "parse"
         \/ /\ length < size
            /\ stage' = "move"
            /\ UNCHANGED <<read_offset, handled>>
  BY ParseOutcome
<1> HIDE DEF size
<1>7. CASE /\ size <= length
           /\ handled' = Append(handled,
                [first |-> Byte(connection, Consumed), size |-> size])
           /\ read_offset' = read_offset + size
           /\ stage' = "parse"
  <2> DEFINE frame == [first |-> Byte(connection, Consumed), size |-> size]
  <2>1. /\ handled \in Seq(Frames)
        /\ frame \in Frames
    BY <1>1, <1>3, SizeAssumption DEF IInv, TypeOK, Byte, Bytes, Frames
  <2> HIDE DEF frame
  <2>2. /\ handled' = Append(handled, frame)
        /\ Len(handled') = l + 1
        /\ handled'[l + 1] = frame
        /\ \A i \in 1..l : handled'[i] = handled[i]
        /\ DOMAIN handled' = 1..(l + 1) /\ DOMAIN handled = 1..l
        /\ handled' \in Seq(Frames)
    BY <1>7, <2>1 DEF frame
  <2>3. TypeOK'
    BY <1>1, <1>3, <1>6, <1>7, <2>2 DEF IInv, TypeOK
  <2>4. Consumed' = Consumed + size
    BY <1>3, <1>6, <2>2 DEF Consumed
  <2>5. FramesInOrder'
    <3>1. SUFFICES ASSUME NEW i \in 1..(l + 1)
                   PROVE  /\ i \in DOMAIN stream
                          /\ handled'[i] =
                               [first |-> Byte(connection, stream[i - 1]),
                                size |-> stream[i] - stream[i - 1]]
      BY <1>6, <2>2 DEF FramesInOrder
    <3>2. CASE i \in 1..l
      BY <2>2, <3>2 DEF IInv, FramesInOrder
    <3>3. CASE i = l + 1
      <4>1. i - 1 = l /\ stream[i - 1] = Consumed /\ i \in DOMAIN stream
        BY <1>1, <1>3, <3>3 DEF Consumed
      <4>2. stream[i] - stream[i - 1] = size
        BY <1>1, <1>3, <3>3, <4>1
      <4> QED
        BY <2>2, <3>3, <4>1, <4>2 DEF frame
    <3> QED
      BY <1>1, <3>2, <3>3
  <2>6. BufferIsNext'
    <3>1. taken = Consumed' + (write_offset - read_offset')
      BY <1>1, <1>3, <1>7, <2>4
    <3>2. ASSUME NEW i \in read_offset'..(write_offset - 1)
          PROVE  receive_buffer[i] =
                   Byte(connection, Consumed' + (i - read_offset'))
      <4>1. i \in read_offset..(write_offset - 1)
        BY <1>1, <1>3, <1>7
      <4>2. Consumed' + (i - read_offset') = Consumed + (i - read_offset)
        BY <1>1, <1>3, <1>7, <2>4, <4>1
      <4> QED
        BY <1>1, <4>1, <4>2 DEF IInv, BufferIsNext
    <3> QED
      BY <1>1, <1>6, <3>1, <3>2 DEF IInv, BufferIsNext
  <2> QED
    BY <1>1, <1>3, <1>6, <1>7, <2>2, <2>3, <2>5, <2>6 DEF IInv
<1>8. CASE /\ length < size
           /\ stage' = "move"
           /\ UNCHANGED <<read_offset, handled>>
  <2>1. taken < stream[l + 1]
    BY <1>1, <1>3, <1>8
  <2>2. NoFrameLeft
    BY <2>1, PartialFrame
  <2>3. TypeOK'
    BY <1>6, <1>8 DEF IInv, TypeOK
  <2>4. NoFrameLeft' /\ BufferIsNext' /\ FramesInOrder'
    BY <1>1, <1>6, <1>8, <2>2
    DEF IInv, NoFrameLeft, BufferIsNext, Consumed, FramesInOrder
  <2> QED
    BY <1>1, <1>6, <1>8, <2>3, <2>4 DEF IInv
<1> QED
  BY <1>6, <1>7, <1>8

LEMMA MoveInv ==
    ASSUME IInv, move_remaining
    PROVE  IInv'
<1> DEFINE length == write_offset - read_offset
<1>1. /\ connected /\ read_offset \in Nat /\ write_offset \in Nat
      /\ read_offset <= write_offset /\ write_offset <= RECEIVE_BUFFER_SIZE
      /\ length \in 0..RECEIVE_BUFFER_SIZE
      /\ taken \in Nat /\ taken = Consumed + length /\ Consumed \in Nat
  BY StreamFacts, SizeAssumption
  DEF move_remaining, IInv, TypeOK, BufferIsNext, Consumed
<1>2. \A i \in Slots : i < length => i + read_offset \in Slots
  BY <1>1, SizeAssumption DEF Slots
<1>3. TypeOK'
  <2>1. receive_buffer' \in [Slots -> Bytes \cup {Unwritten}]
    BY <1>2 DEF IInv, TypeOK, move_remaining
  <2> QED
    BY <1>1, <2>1 DEF IInv, TypeOK, move_remaining
<1>4. Consumed' = Consumed
  BY DEF Consumed, move_remaining
<1>5. BufferIsNext'
  <2>1. ASSUME NEW i \in 0..(length - 1)
        PROVE  receive_buffer'[i] = Byte(connection, Consumed + i)
    <3>1. i \in Slots /\ i < length
      BY <1>1, SizeAssumption DEF Slots
    <3>2. /\ i + read_offset \in read_offset..(write_offset - 1)
          /\ (i + read_offset) - read_offset = i
      BY <1>1
    <3> QED
      BY <1>1, <3>1, <3>2 DEF IInv, BufferIsNext, move_remaining
  <2> QED
    BY <1>1, <1>4, <2>1 DEF IInv, BufferIsNext, move_remaining
<1>6. NoFrameLeft
  <2>1. CASE stage # "parse"
    BY <1>1, <2>1 DEF IInv
  <2>2. CASE read_offset = write_offset
    <3>1. PICK n \in Nat :
            /\ stream \in [0..n -> Nat] /\ DOMAIN stream = 0..n
            /\ \A i, j \in 0..n : i < j => stream[i] < stream[j]
      BY StreamFacts DEF IInv, TypeOK
    <3>2. Len(handled) \in 0..n /\ taken = stream[Len(handled)]
      BY <1>1, <2>2, <3>1 DEF IInv, Consumed
    <3>3. Len(handled) + 1 \in 0..n => taken < stream[Len(handled) + 1]
      BY <3>1, <3>2
    <3> QED
      BY <3>1, <3>3, PartialFrame
  <2> QED
    BY <2>1, <2>2 DEF move_remaining
<1>7. NoFrameLeft' /\ FramesInOrder'
  BY <1>6 DEF IInv, NoFrameLeft, FramesInOrder, move_remaining
<1> QED
  BY <1>1, <1>3, <1>5, <1>7 DEF IInv, move_remaining

-----------------------------------------------------------------------------
LEMMA StepInv == IInv /\ [Next]_tvars => IInv'
<1> SUFFICES ASSUME IInv, [Next]_tvars PROVE IInv'
  OBVIOUS
<1>1. CASE \E s \in Streams : /\ ~connected
                              /\ connection < MaxConnections
                              /\ on_connect(s)
  BY <1>1, ConnectInv
<1>2. CASE \E n \in Unread : read_data(n)
  BY <1>2, ReadInv
<1>3. CASE on_data_impl
  BY <1>3, ParseInv
<1>4. CASE move_remaining
  BY <1>4, MoveInv
<1>5. CASE on_disconnect
  BY <1>5, DisconnectInv
<1>6. CASE UNCHANGED tvars
  <2>1. TypeOK'
    BY <1>6 DEF IInv, TypeOK, tvars
  <2> QED
    BY <1>6, <2>1 DEF IInv, tvars, FramesInOrder, BufferIsNext, NoFrameLeft,
                      Consumed
<1> QED
  BY <1>1, <1>2, <1>3, <1>4, <1>5, <1>6 DEF Next, process_data

\* The buffer holds the stream from the first unhandled frame on.
THEOREM BufferFollowsStream == Spec => []IInv
  BY InitInv, StepInv, PTL DEF Spec

\* Type correctness: no read or move leaves the buffer.
THEOREM TypeCorrect == Spec => []TypeOK
  BY BufferFollowsStream, PTL DEF IInv

\* Frames are handled once each and in order, over any segmentation.
THEOREM FramesHandledInOrder == Spec => []FramesInOrder
  BY BufferFollowsStream, PTL DEF IInv

\* An incomplete frame is shorter than the buffer.
LEMMA InvLeavesRoom == IInv => RoomToRead
<1> SUFFICES ASSUME IInv, stage = "idle" PROVE length_for_read > 0
  BY DEF RoomToRead
<1>1. CASE ~connected
  BY <1>1, SizeAssumption DEF IInv, length_for_read
<1>2. CASE connected
  <2>1. /\ taken = Consumed + write_offset
        /\ Consumed \in Nat /\ write_offset \in Nat /\ taken \in Nat
        /\ NoFrameLeft
    BY <1>2, StreamFacts DEF IInv, TypeOK, BufferIsNext, Consumed
  <2>2. CASE write_offset = 0
    BY <2>2, SizeAssumption DEF length_for_read
  <2>3. CASE write_offset > 0
    <3>1. /\ Len(handled) + 1 \in DOMAIN stream
          /\ stream[Len(handled) + 1] - Consumed
               \in HeaderSize..RECEIVE_BUFFER_SIZE
      BY <1>2, <2>1, <2>3, NextFrame
    <3>2. stream[Len(handled) + 1] > taken /\ stream[Len(handled) + 1] \in Nat
      <4>1. stream[Len(handled) + 1] \in Nat
        BY <3>1, StreamFacts DEF IInv, TypeOK
      <4>2. ~(Len(handled) + 1 <= Len(handled))
        BY DEF IInv, TypeOK
      <4> QED
        BY <2>1, <3>1, <4>1, <4>2 DEF NoFrameLeft
    <3> QED
      BY <2>1, <3>1, <3>2, SizeAssumption DEF length_for_read
  <2> QED
    BY <2>1, <2>2, <2>3
<1> QED
  BY <1>1, <1>2

\* No handler leaves the buffer full, so a read of 0 bytes is a closed peer.
THEOREM BufferHasRoom == Spec => []RoomToRead
  BY InvLeavesRoom, BufferFollowsStream, PTL

\* No complete frame is left in the buffer when a handler ends.
THEOREM ReadFramesHandled == Spec => []ReadFramesAreHandled
<1>1. IInv => ReadFramesAreHandled
  BY DEF IInv, NoFrameLeft, ReadFramesAreHandled
<1> QED
  BY <1>1, BufferFollowsStream, PTL

-----------------------------------------------------------------------------
(* Refinement of FrameStream.                                              *)

\* The frames a connection's peer sends, as a sequence.
LEMMA SentFacts ==
    ASSUME NEW s \in Streams, NEW c \in 1..MaxConnections
    PROVE  [k \in DOMAIN s \ {0} |->
              [first |-> Byte(c, s[k - 1]), size |-> s[k] - s[k - 1]]]
             \in Seq(Frames)
<1>1. PICK n \in Nat :
        /\ s \in [0..n -> Nat] /\ DOMAIN s = 0..n
        /\ \A k \in 1..n : s[k] - s[k - 1] \in HeaderSize..RECEIVE_BUFFER_SIZE
  BY StreamFacts
<1>2. ASSUME NEW k \in 1..n
      PROVE  [first |-> Byte(c, s[k - 1]), size |-> s[k] - s[k - 1]] \in Frames
  <2>1. s[k - 1] \in Nat
    BY <1>1
  <2>2. s[k] - s[k - 1] \in 0..RECEIVE_BUFFER_SIZE
    BY <1>1, SizeAssumption
  <2> QED
    BY <2>1, <2>2 DEF Byte, Bytes, Frames
<1>3. DOMAIN s \ {0} = 1..n
  BY <1>1
<1>4. [k \in 1..n |-> [first |-> Byte(c, s[k - 1]), size |-> s[k] - s[k - 1]]]
        \in [1..n -> Frames]
  BY <1>2
<1>5. \A f \in [1..n -> Frames] : f \in Seq(Frames)
  OBVIOUS
<1>6. [k \in 1..n |-> [first |-> Byte(c, s[k - 1]), size |-> s[k] - s[k - 1]]]
        \in Seq(Frames)
  BY <1>4, <1>5, Zenon
<1> QED
  BY <1>3, <1>6

LEMMA PromiseStep ==
    ASSUME IInv, [Next]_tvars
    PROVE  [Promise!FNext]_(Promise!fvars)
<1> USE DEF Promise!fvars
<1>1. CASE \E s \in Streams : /\ ~connected
                              /\ connection < MaxConnections
                              /\ on_connect(s)
  <2>1. PICK s \in Streams : ~connected /\ on_connect(s)
    BY <1>1
  <2>2. connection' \in 1..MaxConnections /\ connection' # 0
    BY <1>1, SizeAssumption DEF IInv, TypeOK, on_connect
  <2>3. Sent' = [k \in DOMAIN s \ {0} |->
                   [first |-> Byte(connection', s[k - 1]),
                    size |-> s[k] - s[k - 1]]]
    BY <2>1, <2>2 DEF Sent, on_connect
  <2>4. Sent' \in Seq(Frames)
    BY <2>2, <2>3, SentFacts
  <2> QED
    BY <2>1, <2>4 DEF Promise!FNext, Promise!Connected, on_connect
<1>2. CASE \/ \E n \in Unread : read_data(n)
           \/ move_remaining
           \/ UNCHANGED tvars
  BY <1>2 DEF read_data, move_remaining, tvars, Sent
<1>3. CASE on_disconnect
  <2>1. connected' = FALSE /\ UNCHANGED <<Sent, handled>>
    BY <1>3 DEF on_disconnect, Sent
  <2>2. CASE connected
    <3>1. Promise!Dropped
      BY <2>1, <2>2 DEF Promise!Dropped
    <3> QED
      BY <3>1 DEF Promise!FNext
  <2>3. CASE ~connected
    <3>1. connected = FALSE
      BY <2>3 DEF IInv, TypeOK
    <3> QED
      BY <2>1, <3>1
  <2> QED
    BY <2>2, <2>3
<1>4. CASE on_data_impl
  <2> DEFINE l == Len(handled)
  <2>1. connected /\ UNCHANGED <<connected, Sent>>
    BY <1>4, ParseOutcome DEF Sent
  <2>2. CASE UNCHANGED handled
    BY <2>1, <2>2
  <2>3. CASE handled' = Append(handled, [first |-> Byte(connection, Consumed),
                                         size |-> NextSize])
    <3>1. PICK n \in Nat : DOMAIN stream = 0..n
      BY StreamFacts DEF IInv, TypeOK
    <3>2. l \in Nat /\ l + 1 \in 1..n /\ (l + 1) - 1 = l
      BY <1>4, <3>1, ParseOutcome DEF IInv
    <3>3. DOMAIN stream \ {0} = 1..n /\ connection # 0
      BY <2>1, <3>1, SizeAssumption DEF IInv, TypeOK
    <3>4. Sent = [k \in 1..n |-> [first |-> Byte(connection, stream[k - 1]),
                                  size |-> stream[k] - stream[k - 1]]]
      BY <3>3 DEF Sent
    <3>5. Len(Sent) = n
      BY <3>1, <3>4
    <3>6. Sent[l + 1] = [first |-> Byte(connection, Consumed),
                         size |-> NextSize]
      BY <3>2, <3>4 DEF Consumed, NextSize
    <3>7. Len(handled) < Len(Sent)
      BY <3>2, <3>5
    <3>8. Promise!Handle
      BY <2>1, <2>3, <3>6, <3>7 DEF Promise!Handle
    <3> QED
      BY <3>8 DEF Promise!FNext
  <2> QED
    BY <1>4, <2>2, <2>3, ParseOutcome
<1> QED
  BY <1>1, <1>2, <1>3, <1>4 DEF Next, process_data

\* The protocol sees a stream of frames, whatever the reads and connections.
THEOREM TransportImplementsFrameStream == Spec => ImplementsFrameStream
<1>1. Init => Promise!FInit
  BY DEF Init, Promise!FInit, Sent
<1> QED
  BY InitInv, StepInv, <1>1, PromiseStep, PTL
     DEF Spec, ImplementsFrameStream, Promise!FSpec
=============================================================================
