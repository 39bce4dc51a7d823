------------------------------ MODULE Transport ------------------------------
(***************************************************************************)
(* The receiving half of TransportSingleThreaded with the framing of       *)
(* ProtocolA::on_data_impl and ProtocolB::on_data_impl: reads of any       *)
(* length are collected in receive_buffer_, complete frames are handed to  *)
(* the protocol, and what is left of the last one moves to the front.      *)
(*                                                                         *)
(* A byte is known by its connection and its place in the peer's stream.   *)
(* The socket is left open here: any bytes at any moment, and a            *)
(* disconnect between any two handlers.  EpollSockets adds it.             *)
(***************************************************************************)
EXTENDS Integers, Sequences

CONSTANTS
    HeaderSize,           \* sizeof(schema::Header)
    RECEIVE_BUFFER_SIZE,
    Streams,              \* what a peer may send: stream[k] ends frame k
    MaxFrames,            \* bound on the frames of one connection
    MaxConnections,       \* bound on the connections of one transport
    Unwritten             \* a slot of the buffer nothing was read into

IsStream(stream) ==
    \E n \in 0..MaxFrames :
      /\ stream \in [0..n -> Nat]
      /\ stream[0] = 0
      /\ \A i, j \in 0..n : i < j => stream[i] < stream[j]
      /\ \A k \in 1..n :
           stream[k] - stream[k - 1] \in HeaderSize..RECEIVE_BUFFER_SIZE

\* A frame is at least a header; the schemas' structs all fit in the buffer.
ASSUME SizeAssumption ==
    /\ HeaderSize \in Nat \ {0}
    /\ RECEIVE_BUFFER_SIZE \in Nat \ {0}
    /\ MaxFrames \in Nat
    /\ MaxConnections \in Nat

ASSUME StreamAssumption == \A stream \in Streams : IsStream(stream)

VARIABLES
    connected,       \* socket_fd_ # INVALID_FD
    connection,      \* how many connections there have been
    stream,          \* what the peer of the last one sends
    taken,           \* how much of it has been read from the socket
    receive_buffer,
    write_offset,
    read_offset,     \* of process_data's loop
    stage,           \* where process_data is
    handled          \* the frames of this connection handed to the protocol

tvars == <<connected, connection, stream, taken, receive_buffer,
           write_offset, read_offset, stage, handled>>

Slots == 0..(RECEIVE_BUFFER_SIZE - 1)
Byte(c, p) == [connection |-> c, position |-> p]
Bytes == [connection : 1..MaxConnections, position : Nat]

-----------------------------------------------------------------------------
on_connect(s) ==
    /\ stage = "idle"
    /\ connected' = TRUE
    /\ connection' = connection + 1
    /\ stream' = s
    /\ taken' = 0
    /\ handled' = <<>>
    /\ UNCHANGED <<receive_buffer, write_offset, read_offset, stage>>

\* Mutant: the buffer is not cleared for the next connection.
on_disconnect_KeepsBuffer ==
    /\ stage = "idle"
    /\ connected' = FALSE
    /\ UNCHANGED <<connection, stream, taken, receive_buffer, write_offset,
                   read_offset, stage, handled>>

\* May come twice for one connection.
on_disconnect ==
    /\ stage = "idle"
    /\ connected' = FALSE
    /\ write_offset' = 0
    /\ UNCHANGED <<connection, stream, taken, receive_buffer, read_offset,
                   stage, handled>>

\* Mutant: the whole buffer is offered to every read.
length_for_read_Whole == RECEIVE_BUFFER_SIZE

length_for_read == RECEIVE_BUFFER_SIZE - write_offset

\* read returns n > 0 bytes, and process_data starts on them.
read_data(n) ==
    /\ stage = "idle" /\ connected
    /\ n <= length_for_read
    /\ receive_buffer' =
         [i \in Slots |-> IF i \in write_offset..(write_offset + n - 1)
                          THEN Byte(connection, taken + (i - write_offset))
                          ELSE receive_buffer[i]]
    /\ write_offset' = write_offset + n
    /\ taken' = taken + n
    /\ read_offset' = 0
    /\ stage' = "parse"
    /\ UNCHANGED <<connected, connection, stream, handled>>

\* header->size at a slot: anything, unless a frame of this stream is there.
HeaderField(byte) ==
    LET starts == {k \in DOMAIN stream : /\ k + 1 \in DOMAIN stream
                                         /\ byte = Byte(connection, stream[k])}
    IN  IF starts = {} THEN 0..RECEIVE_BUFFER_SIZE
        ELSE {stream[k + 1] - stream[k] : k \in starts}

\* Mutant: a frame that ends the data is taken for incomplete.
IsComplete_OffByOne(length, size) == size < length

IsComplete(length, size) == size <= length

(***************************************************************************)
(* One turn of process_data's loop: on_data_impl consumes nothing of an    *)
(* incomplete frame, and the loop ends.                                    *)
(***************************************************************************)
on_data_impl ==
    LET length == write_offset - read_offset
        byte == receive_buffer[read_offset]
        consumes_nothing == stage' = "move"
                            /\ UNCHANGED <<read_offset, handled>>
    IN
    /\ stage = "parse" /\ read_offset < write_offset
    /\ \/ length < HeaderSize /\ consumes_nothing
       \/ /\ length >= HeaderSize
          /\ \E size \in HeaderField(byte) :
               IF IsComplete(length, size)
               THEN /\ handled' = Append(handled,
                                         [first |-> byte, size |-> size])
                    /\ read_offset' = read_offset + size
                    /\ stage' = IF size = 0 THEN "move" ELSE "parse"
               ELSE consumes_nothing
    /\ UNCHANGED <<connected, connection, stream, taken, receive_buffer,
                   write_offset>>

\* Mutant: what was consumed is not given back to the buffer.
move_remaining_Keeps ==
    /\ stage = "move" \/ (stage = "parse" /\ read_offset = write_offset)
    /\ stage' = "idle"
    /\ UNCHANGED <<connected, connection, stream, taken, receive_buffer,
                   write_offset, read_offset, handled>>

\* memmove of the unprocessed data to the front.
move_remaining ==
    LET length == write_offset - read_offset IN
    /\ stage = "move" \/ (stage = "parse" /\ read_offset = write_offset)
    /\ receive_buffer' =
         [i \in Slots |-> IF i < length THEN receive_buffer[i + read_offset]
                                        ELSE receive_buffer[i]]
    /\ write_offset' = length
    /\ read_offset' = 0
    /\ stage' = "idle"
    /\ UNCHANGED <<connected, connection, stream, taken, handled>>

process_data == on_data_impl \/ move_remaining

-----------------------------------------------------------------------------
Init ==
    /\ connected = FALSE
    /\ connection = 0
    /\ stream \in Streams
    /\ taken = 0
    /\ receive_buffer = [i \in Slots |-> Unwritten]
    /\ write_offset = 0
    /\ read_offset = 0
    /\ stage = "idle"
    /\ handled = <<>>

\* How much more of the stream there is to read.
Unread == {n \in 1..RECEIVE_BUFFER_SIZE :
             \E k \in DOMAIN stream : taken + n <= stream[k]}

Next ==
    \/ /\ ~connected
       /\ connection < MaxConnections
       /\ \E s \in Streams : on_connect(s)
    \/ \E n \in Unread : read_data(n)
    \/ process_data
    \/ on_disconnect

Spec == Init /\ [][Next]_tvars

-----------------------------------------------------------------------------
Frames == [first : Bytes, size : 0..RECEIVE_BUFFER_SIZE]

TypeOK ==
    /\ connected \in BOOLEAN
    /\ connection \in 0..MaxConnections
    /\ stream \in Streams
    /\ taken \in Nat
    /\ receive_buffer \in [Slots -> Bytes \cup {Unwritten}]
    /\ write_offset \in 0..RECEIVE_BUFFER_SIZE
    /\ read_offset \in 0..write_offset
    /\ stage \in {"idle", "parse", "move"}
    /\ handled \in Seq(Frames)

(***************************************************************************)
(* The protocol gets the frames the peer sent on this connection, each     *)
(* once, whole and in order, however TCP cut them up and whatever earlier  *)
(* connections left in the buffer.                                         *)
(***************************************************************************)
FramesInOrder ==
    \A i \in DOMAIN handled :
      /\ i \in DOMAIN stream
      /\ handled[i] = [first |-> Byte(connection, stream[i - 1]),
                       size |-> stream[i] - stream[i - 1]]

(***************************************************************************)
(* No handler leaves the buffer full: read would be asked for 0 bytes,     *)
(* return 0, and process_received_data would take that for a closed peer.  *)
(***************************************************************************)
RoomToRead == stage = "idle" => length_for_read > 0

(***************************************************************************)
(* No complete frame waits in the buffer for a next read that may never    *)
(* come: after a handler, what was read up to the end of a frame has been  *)
(* handled.                                                                *)
(***************************************************************************)
ReadFramesAreHandled ==
    (stage = "idle" /\ connected) =>
      \A k \in DOMAIN stream : stream[k] <= taken => k <= Len(handled)

Sent ==
    IF connection = 0
    THEN <<>>
    ELSE [k \in DOMAIN stream \ {0} |->
            [first |-> Byte(connection, stream[k - 1]),
             size |-> stream[k] - stream[k - 1]]]

Promise == INSTANCE FrameStream WITH sent <- Sent

(***************************************************************************)
(* To the protocol, bytes, reads and the buffer are a stream of frames: a  *)
(* step gives it the next frame of the open connection, opens or drops     *)
(* one, or is not seen.                                                    *)
(***************************************************************************)
ImplementsFrameStream == Promise!FSpec

=============================================================================
