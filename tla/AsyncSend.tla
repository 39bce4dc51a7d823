------------------------------ MODULE AsyncSend ------------------------------
(***************************************************************************)
(* Sending through EpollSocketManager's async_send_queue_: a thread of the *)
(* application (sim_client_a's sender_thread) takes messages from its      *)
(* store and pushes views of them, and the thread of the event loop pops   *)
(* and writes them.  The queue holds the address of a message, so what is  *)
(* written is what the message is at that moment.  The transport is a      *)
(* server's or a client's, as the simulator is told; a client connects     *)
(* once, and counts as connected while it does.                            *)
(***************************************************************************)
EXTENDS Naturals, Sequences

CONSTANTS
    Slots,              \* the messages of the application's store
    ASYNC_QUEUE_SIZE,
    Store,              \* "any", or "outlives": see MayTake
    MaxMessages,        \* bound on the messages sent
    MaxConnections      \* bound on the connections of the transport

ASSUME AsyncAssumption ==
    /\ ASYNC_QUEUE_SIZE \in Nat \ {0}
    /\ Store \in {"any", "outlives"}
    /\ MaxMessages \in Nat /\ MaxConnections \in Nat

INVALID_FD == 0
FD == 1          \* the kernel gives out the lowest free descriptor, again

VARIABLES
    cl_ord_id,   \* of the last message taken from the store
    slot,        \* the cl_ord_id each message of the store has
    sender,      \* where the sender thread is: "get", "load" or "push"
    view,        \* the message it sends
    fd,          \* the socket_fd_ it loaded
    queue,       \* async_send_queue_
    loop,        \* where the event loop is: "wait", "events" or "drain",
                 \* or "killed" with the process
    popped,      \* what process_async_send has popped and not yet sent
    is_server,   \* socket_role of the configuration
    socket_fd,   \* TransportSingleThreaded::socket_fd_, read by both threads
    connection,  \* how many connections there have been
    peer,        \* of the last one: "waiting" to be accepted, "connecting"
                 \* to a server, "up", "full" or "ended"
    torn,        \* it carries a piece of a message
    wire,        \* history: the ids written, with their connections
    failed,      \* history: ids send failed for, or that nobody reads
    refused      \* history: ids the full queue did not take

thread == <<cl_ord_id, slot, sender, view, fd>>
net == <<is_server, socket_fd, connection, peer, torn>>
history == <<wire, failed, refused>>
avars == <<thread, queue, loop, popped, net, history>>

Views(entries) == {entries[i].view : i \in DOMAIN entries}

-----------------------------------------------------------------------------
(* The sender thread.                                                      *)

(***************************************************************************)
(* TestMessageStore takes any message ("any"); an application that minds   *)
(* "Ensure that the data (message) outlives process_async_send" takes one  *)
(* that is not on its way ("outlives").                                    *)
(***************************************************************************)
MayTake(s) == Store = "outlives" => s \notin Views(queue) \cup Views(popped)

get_new_order ==
    /\ sender = "get" /\ cl_ord_id < MaxMessages
    /\ \E s \in Slots :
         /\ MayTake(s)
         /\ slot' = [slot EXCEPT ![s] = cl_ord_id + 1]
         /\ view' = s
    /\ cl_ord_id' = cl_ord_id + 1
    /\ sender' = "load"
    /\ UNCHANGED <<fd, queue, loop, popped, net, history>>

\* The argument socket_fd_ of send_data_async, loaded without a lock.
LoadFd ==
    /\ sender = "load"
    /\ fd' = socket_fd
    /\ sender' = "push"
    /\ UNCHANGED <<cl_ord_id, slot, view, queue, loop, popped, net, history>>

\* Mutant: the queue grows.
Push_Grows(entry) == queue' = Append(queue, entry) /\ UNCHANGED refused

\* Mutant: the oldest entry makes room.
Push_DropsOldest(entry) ==
    /\ queue' = Append(IF Len(queue) < ASYNC_QUEUE_SIZE THEN queue
                       ELSE Tail(queue), entry)
    /\ UNCHANGED refused

\* A full queue refuses, and send_data_async reports success all the same.
Push(entry) ==
    IF Len(queue) < ASYNC_QUEUE_SIZE
    THEN queue' = Append(queue, entry) /\ UNCHANGED refused
    ELSE refused' = refused \cup {entry.id} /\ UNCHANGED queue

\* The id in the entry is history: the queue holds fd and view.
send_data_async ==
    /\ sender = "push"
    /\ Push([fd |-> fd, view |-> view, id |-> cl_ord_id])
    /\ sender' = "get"
    /\ UNCHANGED <<cl_ord_id, slot, view, fd, loop, popped, net, wire, failed>>

SenderThread ==
    loop # "killed" /\ (get_new_order \/ LoadFd \/ send_data_async)

-----------------------------------------------------------------------------
(* The event loop.                                                         *)

HasEvent == peer = "waiting" \/ (peer = "ended" /\ socket_fd = FD)

\* Mutant: without the timeout of 0, epoll_wait returns only with an event.
epoll_wait_Blocks ==
    /\ loop = "wait" /\ HasEvent
    /\ loop' = "events"
    /\ UNCHANGED <<thread, queue, popped, net, history>>

epoll_wait ==
    /\ loop = "wait"
    /\ loop' = IF HasEvent THEN "events" ELSE "drain"
    /\ UNCHANGED <<thread, queue, popped, net, history>>

\* on_connect and on_disconnect of the transport.
handle_io_event ==
    /\ loop = "events"
    /\ IF peer = "waiting"
       THEN socket_fd' = FD /\ peer' = "up"
       ELSE socket_fd' = INVALID_FD /\ UNCHANGED peer
    /\ loop' = "drain"
    /\ UNCHANGED <<thread, queue, popped, is_server, connection, torn, history>>

\* Mutant: the newest entry goes first.
Pop_Newest ==
    /\ loop = "drain" /\ popped = <<>>
    /\ IF queue = <<>>
       THEN loop' = "wait" /\ UNCHANGED <<queue, popped>>
       ELSE /\ popped' = <<queue[Len(queue)]>>
            /\ queue' = SubSeq(queue, 1, Len(queue) - 1)
            /\ UNCHANGED loop
    /\ UNCHANGED <<thread, net, history>>

Pop ==
    /\ loop = "drain" /\ popped = <<>>
    /\ IF queue = <<>>
       THEN loop' = "wait" /\ UNCHANGED <<queue, popped>>
       ELSE /\ popped' = <<Head(queue)>>
            /\ queue' = Tail(queue)
            /\ UNCHANGED loop
    /\ UNCHANGED <<thread, net, history>>

\* Mutant: what could not be sent is queued again if there is room.
SendFails_Requeues ==
    IF Len(queue) < ASYNC_QUEUE_SIZE
    THEN queue' = Append(queue, popped[1]) /\ UNCHANGED failed
    ELSE failed' = failed \cup {popped[1].id} /\ UNCHANGED queue

\* A failed send is logged.
SendFails ==
    failed' = failed \cup {popped[1].id} /\ UNCHANGED queue

\* The entry popped is for the connection that has its descriptor now, and
\* that connection's peer is as given.
SendMeets(state) == popped[1].fd = FD /\ socket_fd = FD /\ peer = state

(***************************************************************************)
(* send copies the message as it is now to whatever connection has the     *)
(* descriptor now.  One that is not established yet takes nothing, a full  *)
(* one nothing or a piece, after which the peer makes no sense of what     *)
(* follows; to one that has ended send fails, or raises SIGPIPE.           *)
(***************************************************************************)
send_data ==
    /\ popped # <<>>
    /\ popped' = <<>>
    /\ IF SendMeets("up") /\ ~torn
       THEN /\ wire' = Append(wire, [id |-> slot[popped[1].view],
                                     connection |-> connection])
            /\ UNCHANGED <<queue, failed>>
       ELSE SendFails /\ UNCHANGED wire
    /\ torn' \in {torn} \cup (IF SendMeets("full") THEN {TRUE} ELSE {})
    /\ loop' \in {loop} \cup (IF SendMeets("ended") THEN {"killed"} ELSE {})
    /\ UNCHANGED <<thread, is_server, socket_fd, connection, peer, refused>>

process_io_events == epoll_wait \/ handle_io_event \/ Pop \/ send_data

-----------------------------------------------------------------------------
(* The peer.                                                               *)

\* Clients connect to a server one after the other.
Connect ==
    /\ is_server /\ peer = "ended" /\ socket_fd = INVALID_FD
    /\ connection < MaxConnections
    /\ connection' = connection + 1
    /\ peer' = "waiting"
    /\ torn' = FALSE
    /\ UNCHANGED <<thread, queue, loop, popped, is_server, socket_fd, history>>

\* What becomes of a client's connect: nobody tries again.
Established ==
    /\ peer = "connecting"
    /\ peer' \in {"up", "ended"}
    /\ UNCHANGED <<thread, queue, loop, popped, is_server, socket_fd, connection,
                   torn, history>>

\* Stops reading until the socket is full, goes on, or closes.
PeerReads ==
    /\ \/ peer = "up" /\ peer' \in {"full", "ended"}
       \/ peer = "full" /\ peer' \in {"up", "ended"}
    /\ UNCHANGED <<thread, queue, loop, popped, is_server, socket_fd, connection,
                   torn, history>>

-----------------------------------------------------------------------------
\* A server listens; a client's connect has begun, or failed at once.
NetInit ==
    /\ is_server \in BOOLEAN
    /\ torn = FALSE
    /\ \/ socket_fd = INVALID_FD /\ connection = 0 /\ peer = "ended"
       \/ /\ ~is_server /\ MaxConnections > 0
          /\ socket_fd = FD /\ connection = 1 /\ peer = "connecting"

AInit ==
    /\ cl_ord_id = 0
    /\ slot = [s \in Slots |-> 0]
    /\ sender = "get"
    /\ view \in Slots
    /\ fd = INVALID_FD
    /\ queue = <<>>
    /\ loop = "wait"
    /\ popped = <<>>
    /\ NetInit
    /\ wire = <<>>
    /\ failed = {}
    /\ refused = {}

ANext ==
    SenderThread \/ process_io_events \/ Connect \/ Established \/ PeerReads

\* Both threads run; nothing is assumed of the peer.
ASpec == AInit /\ [][ANext]_avars
               /\ WF_avars(process_io_events) /\ WF_avars(SenderThread)

-----------------------------------------------------------------------------
Ids == 1..MaxMessages
Entries == [fd : {INVALID_FD, FD}, view : Slots, id : Ids]

ATypeOK ==
    /\ cl_ord_id \in 0..MaxMessages
    /\ slot \in [Slots -> Ids \cup {0}]
    /\ sender \in {"get", "load", "push"}
    /\ view \in Slots
    /\ {fd, socket_fd} \subseteq {INVALID_FD, FD}
    /\ queue \in Seq(Entries) /\ Len(queue) <= ASYNC_QUEUE_SIZE
    /\ loop \in {"wait", "events", "drain", "killed"}
    /\ popped \in Seq(Entries) /\ Len(popped) <= 1
    /\ connection \in 0..MaxConnections
    /\ {is_server, torn} \subseteq BOOLEAN
    /\ peer \in {"waiting", "connecting", "up", "full", "ended"}
    /\ wire \in Seq([id : Ids, connection : 1..MaxConnections])
    /\ failed \subseteq Ids /\ refused \subseteq Ids

(***************************************************************************)
(* TransportSingleThreaded.cpp: "Ensure that the data (message) outlives   *)
(* process_async_send".  A message on its way is the one that was queued.  *)
(***************************************************************************)
DataOutlivesSend ==
    /\ \A i \in DOMAIN queue : slot[queue[i].view] = queue[i].id
    /\ \A i \in DOMAIN popped : slot[popped[i].view] = popped[i].id

(***************************************************************************)
(* If messages outlive their sending they are written in the order they    *)
(* were taken from the store, over all connections, and none twice.        *)
(***************************************************************************)
WireKeepsOrder ==
    \A i, j \in DOMAIN wire : i < j => wire[i].id < wire[j].id

(***************************************************************************)
(* None disappears: a message is with the sender, queued, popped, written, *)
(* or was refused by a full queue or by the socket, of which the sender    *)
(* does not hear.                                                          *)
(***************************************************************************)
NothingDisappears ==
    \A n \in 1..cl_ord_id :
      \/ n = cl_ord_id /\ sender # "get"
      \/ \E i \in DOMAIN queue : queue[i].id = n
      \/ \E i \in DOMAIN popped : popped[i].id = n
      \/ \E i \in DOMAIN wire : wire[i].id = n
      \/ n \in failed \cup refused

(***************************************************************************)
(* A queued message does not wait for socket events: it is written or its  *)
(* send fails, even if the peer stays silent forever, unless SIGPIPE ends  *)
(* the process.                                                            *)
(***************************************************************************)
QueuedIsSent ==
    \A n \in Ids :
      (\E i \in DOMAIN queue : queue[i].id = n)
        ~> \/ n \in failed
           \/ \E i \in DOMAIN wire : wire[i].id = n
           \/ loop = "killed"

-----------------------------------------------------------------------------
IdsOf(entries) == [i \in DOMAIN entries |-> entries[i].id]

\* The message the sender thread has taken and not yet pushed.
Held == IF sender = "get" THEN <<>> ELSE <<cl_ord_id>>

Channel == (IdsOf(popped) \o IdsOf(queue)) \o Held

Fifo == INSTANCE LossyFifo WITH
    last <- cl_ord_id,
    channel <- Channel,
    delivered <- IdsOf(wire),
    lost <- failed \cup refused

(***************************************************************************)
(* If messages outlive their sending, the thread, the queue and the loop   *)
(* together are a channel that may lose but neither reorders nor repeats,  *)
(* whatever connections end and begin meanwhile.                           *)
(***************************************************************************)
ImplementsLossyFifo == Fifo!FSpec

=============================================================================
