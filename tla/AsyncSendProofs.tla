--------------------------- MODULE AsyncSendProofs ---------------------------
(***************************************************************************)
(* Asynchronous sending, for every store, queue size and number of         *)
(* messages and connections: the state keeps its types, and if messages    *)
(* outlive their sending it is a channel that neither reorders nor         *)
(* repeats nor loses silently.                                             *)
(***************************************************************************)
EXTENDS AsyncSend, Integers, SequenceTheorems, TLAPS

\* A message on its way has been filled in, by whatever id it has now.
ViewsAreFilled ==
    /\ \A i \in DOMAIN queue : slot[queue[i].view] \in Ids
    /\ \A i \in DOMAIN popped : slot[popped[i].view] \in Ids
    /\ sender # "get" => cl_ord_id \in Ids /\ slot[view] \in Ids

\* There is no socket and no peer before the first connection.
SocketIsCounted ==
    connection = 0 => socket_fd = INVALID_FD /\ peer = "ended"

TInv == ATypeOK /\ ViewsAreFilled /\ SocketIsCounted

-----------------------------------------------------------------------------
(* Types.                                                                  *)

LEMMA TypeInit == AInit => TInv
<1> SUFFICES ASSUME AInit PROVE TInv
  OBVIOUS
<1>1. /\ connection \in 0..MaxConnections /\ peer \in {"connecting", "ended"}
      /\ socket_fd \in {INVALID_FD, FD} /\ SocketIsCounted
  BY AsyncAssumption DEF AInit, NetInit, SocketIsCounted
<1>2. {is_server, torn} \subseteq BOOLEAN
  BY DEF AInit, NetInit
<1> QED
  BY <1>1, <1>2, AsyncAssumption DEF AInit, TInv, ATypeOK, ViewsAreFilled

LEMMA EntryFacts ==
    ASSUME ATypeOK
    PROVE  /\ \A i \in DOMAIN queue : /\ queue[i].view \in Slots
                                      /\ queue[i].id \in Ids
           /\ \A i \in DOMAIN popped : /\ popped[i].view \in Slots
                                       /\ popped[i].id \in Ids
<1>1. \A e \in Entries : e.view \in Slots /\ e.id \in Ids
  BY DEF Entries
<1>2. queue \in Seq(Entries) /\ popped \in Seq(Entries)
  BY DEF ATypeOK
<1>3. /\ \A i \in DOMAIN queue : queue[i] \in Entries
      /\ \A i \in DOMAIN popped : popped[i] \in Entries
  BY <1>2
<1> QED
  BY <1>1, <1>3

LEMMA TypeGet == TInv /\ get_new_order => TInv'
<1> SUFFICES ASSUME TInv, get_new_order PROVE TInv'
  OBVIOUS
<1>1. cl_ord_id' \in Ids
  BY AsyncAssumption DEF TInv, ATypeOK, get_new_order, Ids
<1>2. PICK s \in Slots : /\ slot' = [slot EXCEPT ![s] = cl_ord_id']
                         /\ view' = s
  BY DEF get_new_order
<1>3. slot' \in [Slots -> Ids \cup {0}] /\ slot'[view'] \in Ids
  BY <1>1, <1>2 DEF TInv, ATypeOK
<1>4. \A v \in Slots : slot[v] \in Ids => slot'[v] \in Ids
  BY <1>1, <1>2 DEF TInv, ATypeOK
<1>5. /\ \A i \in DOMAIN queue : queue[i].view \in Slots
      /\ \A i \in DOMAIN popped : popped[i].view \in Slots
  BY EntryFacts DEF TInv
<1>6. ViewsAreFilled'
  BY <1>1, <1>3, <1>4, <1>5 DEF TInv, ViewsAreFilled, get_new_order
<1>7. ATypeOK'
  <2>1. cl_ord_id' \in 0..MaxMessages /\ sender' \in {"get", "load", "push"}
    BY <1>1, AsyncAssumption DEF Ids, get_new_order
  <2> QED
    BY <1>2, <1>3, <2>1 DEF TInv, ATypeOK, get_new_order, net, history
<1> QED
  BY <1>6, <1>7 DEF TInv, SocketIsCounted, get_new_order, net

LEMMA TypePush == TInv /\ send_data_async => TInv'
<1> SUFFICES ASSUME TInv, send_data_async PROVE TInv'
  OBVIOUS
<1> DEFINE entry == [fd |-> fd, view |-> view, id |-> cl_ord_id]
<1>1. cl_ord_id \in Ids /\ view \in Slots /\ slot[view] \in Ids
  BY DEF TInv, ATypeOK, ViewsAreFilled, send_data_async
<1>2. entry \in Entries
  BY <1>1 DEF TInv, ATypeOK, Entries
<1>3. CASE Len(queue) < ASYNC_QUEUE_SIZE
  <2>1. queue' = Append(queue, entry) /\ UNCHANGED refused
    BY <1>3 DEF send_data_async, Push
  <2>2. /\ queue' \in Seq(Entries) /\ Len(queue') <= ASYNC_QUEUE_SIZE
        /\ \A i \in DOMAIN queue' : queue'[i] = entry \/ (/\ i \in DOMAIN queue
                                                          /\ queue'[i] = queue[i])
    BY <1>2, <1>3, <2>1, AsyncAssumption DEF TInv, ATypeOK
  <2>3. ATypeOK'
    BY <2>1, <2>2 DEF TInv, ATypeOK, send_data_async, net
  <2>4. ViewsAreFilled'
    BY <1>1, <2>2 DEF TInv, ViewsAreFilled, send_data_async
  <2> QED
    BY <2>3, <2>4 DEF TInv, SocketIsCounted, send_data_async, net
<1>4. CASE ~(Len(queue) < ASYNC_QUEUE_SIZE)
  <2>1. refused' = refused \cup {cl_ord_id} /\ UNCHANGED queue
    BY <1>4 DEF send_data_async, Push
  <2>2. ATypeOK'
    BY <1>1, <2>1 DEF TInv, ATypeOK, send_data_async, net
  <2> QED
    BY <2>1, <2>2 DEF TInv, ViewsAreFilled, SocketIsCounted, send_data_async,
                      net
<1> QED
  BY <1>3, <1>4

LEMMA TypePop == TInv /\ Pop => TInv'
<1> SUFFICES ASSUME TInv, Pop PROVE TInv'
  OBVIOUS
<1>1. CASE queue = <<>>
  BY <1>1 DEF TInv, ATypeOK, ViewsAreFilled, SocketIsCounted, Pop, thread, net,
              history
<1>2. CASE queue # <<>>
  <2>1. queue' = Tail(queue) /\ popped' = <<queue[1]>> /\ UNCHANGED loop
    BY <1>2 DEF Pop
  <2>2. /\ 1 \in DOMAIN queue /\ queue[1] \in Entries
        /\ queue' \in Seq(Entries) /\ Len(queue') <= ASYNC_QUEUE_SIZE
        /\ \A i \in DOMAIN queue' : /\ i + 1 \in DOMAIN queue
                                    /\ queue'[i] = queue[i + 1]
    BY <1>2, <2>1, AsyncAssumption DEF TInv, ATypeOK
  <2>3. popped' \in Seq(Entries) /\ Len(popped') <= 1
    BY <2>1, <2>2
  <2>4. ATypeOK'
    BY <2>1, <2>2, <2>3 DEF TInv, ATypeOK, Pop, thread, net, history
  <2>5. ViewsAreFilled'
    BY <2>1, <2>2 DEF TInv, ViewsAreFilled, Pop, thread
  <2> QED
    BY <2>4, <2>5 DEF TInv, SocketIsCounted, Pop, net
<1> QED
  BY <1>1, <1>2

\* What is popped is a message, so an id is written or noted as failed.
LEMMA TypeSend == TInv /\ send_data => TInv'
<1> SUFFICES ASSUME TInv, send_data PROVE TInv'
  OBVIOUS
<1>1. 1 \in DOMAIN popped /\ popped[1] \in Entries /\ popped[1].id \in Ids
  <2>1. popped \in Seq(Entries) /\ popped # <<>>
    BY DEF TInv, ATypeOK, send_data
  <2> QED
    BY <2>1, EntryFacts DEF TInv
<1>2. loop' \in {"wait", "events", "drain", "killed"}
  BY DEF TInv, ATypeOK, send_data
<1>3. torn' \in BOOLEAN
  BY DEF TInv, ATypeOK, send_data
<1>4. queue' = queue /\ popped' = <<>>
  BY DEF send_data, SendFails
<1>5. failed' \subseteq Ids
  BY <1>1 DEF TInv, ATypeOK, send_data, SendFails
<1>6. wire' \in Seq([id : Ids, connection : 1..MaxConnections])
  <2>1. CASE SendMeets("up") /\ ~torn
    <3>1. connection \in 1..MaxConnections
      BY <2>1, AsyncAssumption
         DEF TInv, ATypeOK, SocketIsCounted, SendMeets, INVALID_FD, FD
    <3>2. slot[popped[1].view] \in Ids
      BY <1>1 DEF TInv, ViewsAreFilled
    <3> DEFINE written == [id |-> slot[popped[1].view],
                           connection |-> connection]
    <3>3. written \in [id : Ids, connection : 1..MaxConnections]
      BY <3>1, <3>2
    <3>4. wire' = Append(wire, written)
      BY <2>1 DEF send_data
    <3>5. wire \in Seq([id : Ids, connection : 1..MaxConnections])
      BY DEF TInv, ATypeOK
    <3> QED
      BY <3>3, <3>4, <3>5
  <2>2. CASE ~(SendMeets("up") /\ ~torn)
    BY <2>2 DEF TInv, ATypeOK, send_data
  <2> QED
    BY <2>1, <2>2
<1>7. ATypeOK'
  BY <1>2, <1>3, <1>4, <1>5, <1>6 DEF TInv, ATypeOK, send_data, thread
<1> QED
  BY <1>4, <1>7 DEF TInv, ViewsAreFilled, SocketIsCounted, send_data, thread

\* The steps that touch neither the queue nor a message.
Quiet == LoadFd \/ epoll_wait \/ handle_io_event \/ Connect \/ Established
           \/ PeerReads

LEMMA QuietSteps ==
    Quiet => UNCHANGED <<cl_ord_id, slot, view, queue, popped, history>>
             /\ (sender' = sender \/ (sender = "load" /\ sender' = "push"))
  BY DEF Quiet, LoadFd, epoll_wait, handle_io_event, Connect, Established,
         PeerReads, thread

LEMMA TypeQuiet == TInv /\ Quiet => TInv'
<1> SUFFICES ASSUME TInv, Quiet PROVE TInv'
  OBVIOUS
<1>1. ViewsAreFilled'
  BY QuietSteps DEF TInv, ViewsAreFilled
<1>2. /\ {fd, socket_fd}' \subseteq {INVALID_FD, FD}
      /\ sender' \in {"get", "load", "push"}
      /\ loop' \in {"wait", "events", "drain", "killed"}
      /\ peer' \in {"waiting", "connecting", "up", "full", "ended"}
  BY DEF TInv, ATypeOK, Quiet, LoadFd, epoll_wait, handle_io_event, Connect,
         Established, PeerReads, thread, net
<1>3. {is_server, torn}' \subseteq BOOLEAN
  BY DEF TInv, ATypeOK, Quiet, LoadFd, epoll_wait, handle_io_event, Connect,
         Established, PeerReads, net
<1>4. connection' \in 0..MaxConnections /\ SocketIsCounted'
  BY AsyncAssumption
     DEF TInv, ATypeOK, SocketIsCounted, Quiet, LoadFd, epoll_wait,
         handle_io_event, HasEvent, Connect, Established, PeerReads, net
<1> QED
  BY <1>1, <1>2, <1>3, <1>4, QuietSteps DEF TInv, ATypeOK, history

LEMMA ASteps ==
    [ANext]_avars => \/ get_new_order \/ send_data_async \/ Pop \/ send_data
                     \/ Quiet \/ UNCHANGED avars
  BY DEF ANext, SenderThread, process_io_events, Quiet

LEMMA TypeStep == TInv /\ [ANext]_avars => TInv'
<1> SUFFICES ASSUME TInv, [ANext]_avars PROVE TInv'
  OBVIOUS
<1>1. CASE UNCHANGED avars
  BY <1>1 DEF TInv, ATypeOK, ViewsAreFilled, SocketIsCounted, avars, thread,
              net, history
<1> QED
  BY <1>1, ASteps, TypeGet, TypePush, TypePop, TypeSend, TypeQuiet

\* The queue keeps to its bound and the wire carries messages of the store
\* on connections that exist, whatever the store gives out.
THEOREM AsyncTypeCorrect == ASpec => []ATypeOK
<1>1. TInv => ATypeOK
  BY DEF TInv
<1> QED
  BY TypeInit, TypeStep, <1>1, PTL DEF ASpec

-----------------------------------------------------------------------------
(* Order.  Ids grow from the wire over what is popped and queued to what   *)
(* the sender thread has taken and not pushed.                             *)

Pushed == IF sender = "get" THEN cl_ord_id ELSE cl_ord_id - 1

Grows(s) == \A i, j \in DOMAIN s : i < j => s[i].id < s[j].id
Before(s, t) == \A i \in DOMAIN s, j \in DOMAIN t : s[i].id < t[j].id
UpTo(s, n) == \A i \in DOMAIN s : s[i].id <= n

IdsGrow ==
    /\ Grows(wire) /\ Grows(queue)
    /\ Before(wire, popped) /\ Before(wire, queue) /\ Before(popped, queue)
    /\ UpTo(wire, Pushed) /\ UpTo(popped, Pushed) /\ UpTo(queue, Pushed)

\* What is sent is what was taken.
DataKept ==
    /\ DataOutlivesSend
    /\ sender # "get" => slot[view] = cl_ord_id

OInv == TInv /\ DataKept /\ IdsGrow /\ NothingDisappears

\* The ids in the sequences are numbers.
LEMMA IdFacts ==
    ASSUME TInv
    PROVE  /\ cl_ord_id \in Nat /\ Pushed \in Int
           /\ \A i \in DOMAIN queue : queue[i].id \in Nat
           /\ \A i \in DOMAIN popped : popped[i].id \in Nat
           /\ \A i \in DOMAIN wire : wire[i].id \in Nat
<1>1. cl_ord_id \in Nat /\ Pushed \in Int
  BY AsyncAssumption DEF TInv, ATypeOK, Pushed
<1>2. \A n \in Ids : n \in Nat
  BY AsyncAssumption DEF Ids
<1>3. \A i \in DOMAIN wire : wire[i].id \in Ids
  <2>1. wire \in Seq([id : Ids, connection : 1..MaxConnections])
    BY DEF TInv, ATypeOK
  <2> DEFINE Written == [id : Ids, connection : 1..MaxConnections]
  <2>2. \A w \in Written : w.id \in Ids
    OBVIOUS
  <2>3. wire \in Seq(Written)
    BY <2>1
  <2> HIDE DEF Written
  <2>4. \A i \in DOMAIN wire : wire[i] \in Written
    BY <2>3
  <2> QED
    BY <2>2, <2>4
<1> QED
  BY <1>1, <1>2, <1>3, EntryFacts DEF TInv

LEMMA OrderInit == AInit => OInv
<1> SUFFICES ASSUME AInit PROVE OInv
  OBVIOUS
<1>1. DataKept /\ IdsGrow
  BY DEF AInit, DataKept, DataOutlivesSend, IdsGrow, Grows, Before, UpTo
<1>2. NothingDisappears
  BY DEF AInit, NothingDisappears
<1> QED
  BY <1>1, <1>2, TypeInit DEF OInv

\* The message taken is not on its way, so what is keeps its contents.
LEMMA OrderGet ==
    ASSUME Store = "outlives", OInv, get_new_order
    PROVE  DataKept' /\ IdsGrow' /\ NothingDisappears'
<1>1. PICK s \in Slots : /\ MayTake(s)
                         /\ slot' = [slot EXCEPT ![s] = cl_ord_id + 1]
                         /\ view' = s
  BY DEF get_new_order
<1>2. /\ sender = "get" /\ sender' = "load" /\ cl_ord_id' = cl_ord_id + 1
      /\ UNCHANGED <<queue, popped, wire, failed, refused>>
  BY DEF get_new_order, history
<1>3. DataKept'
  <2>1. slot \in [Slots -> Ids \cup {0}] /\ ATypeOK
    BY DEF OInv, TInv, ATypeOK
  <2>2. /\ \A i \in DOMAIN queue : queue[i].view # s
        /\ \A i \in DOMAIN popped : popped[i].view # s
    BY <1>1 DEF MayTake, Views
  <2> QED
    BY <1>1, <1>2, <2>1, <2>2, EntryFacts
       DEF OInv, DataKept, DataOutlivesSend
<1>4. IdsGrow'
  <2>1. Pushed' = Pushed
    BY <1>2, IdFacts DEF OInv, Pushed
  <2> QED
    BY <1>2, <2>1 DEF OInv, IdsGrow, Grows, Before, UpTo
<1>5. NothingDisappears'
  <2> SUFFICES ASSUME NEW n \in 1..cl_ord_id'
               PROVE  \/ n = cl_ord_id' /\ sender' # "get"
                      \/ \E i \in DOMAIN queue : queue[i].id = n
                      \/ \E i \in DOMAIN popped : popped[i].id = n
                      \/ \E i \in DOMAIN wire : wire[i].id = n
                      \/ n \in failed \cup refused
    BY <1>2 DEF NothingDisappears
  <2>1. n = cl_ord_id' \/ n \in 1..cl_ord_id
    BY <1>2, IdFacts DEF OInv
  <2> QED
    BY <1>2, <2>1 DEF OInv, NothingDisappears
<1> QED
  BY <1>3, <1>4, <1>5

\* The newest id goes to the end of the queue, or is refused.
LEMMA OrderPush ==
    ASSUME OInv, send_data_async
    PROVE  DataKept' /\ IdsGrow' /\ NothingDisappears'
<1> DEFINE entry == [fd |-> fd, view |-> view, id |-> cl_ord_id]
<1>1. /\ sender = "push" /\ sender' = "get" /\ slot[view] = cl_ord_id
      /\ UNCHANGED <<cl_ord_id, slot, view, popped, wire, failed>>
  BY DEF OInv, DataKept, send_data_async
<1>2. Pushed' = cl_ord_id /\ Pushed = cl_ord_id - 1
  BY <1>1 DEF Pushed
<1>3. CASE queue' = Append(queue, entry) /\ UNCHANGED refused
  <2>1. queue \in Seq(Entries) /\ Len(queue) \in Nat
    BY DEF OInv, TInv, ATypeOK
  <2>2. /\ DOMAIN queue = 1..Len(queue) /\ DOMAIN queue' = 1..(Len(queue) + 1)
        /\ \A i \in DOMAIN queue : queue'[i] = queue[i]
        /\ queue'[Len(queue) + 1] = entry
    BY <1>3, <2>1
  <2> HIDE DEF entry
  <2>3. entry.id = cl_ord_id /\ entry.view = view
    BY DEF entry
  <2>4. \A i \in DOMAIN queue' :
          \/ i \in DOMAIN queue /\ queue'[i] = queue[i] /\ i <= Len(queue)
          \/ i = Len(queue) + 1 /\ queue'[i] = entry
    BY <2>1, <2>2
  <2>5. DataKept'
    BY <1>1, <2>3, <2>4 DEF OInv, DataKept, DataOutlivesSend
  <2>6. IdsGrow'
    <3>1. Grows(queue')
      BY <1>2, <2>1, <2>2, <2>3, <2>4, IdFacts DEF OInv, IdsGrow, Grows, UpTo
    <3>2. UpTo(queue', Pushed') /\ UpTo(wire, Pushed') /\ UpTo(popped, Pushed')
      BY <1>2, <2>3, <2>4, IdFacts DEF OInv, IdsGrow, UpTo
    <3>3. Before(wire, queue') /\ Before(popped, queue')
      BY <1>2, <2>3, <2>4, IdFacts DEF OInv, IdsGrow, Before, UpTo
    <3> QED
      BY <1>1, <3>1, <3>2, <3>3 DEF OInv, IdsGrow
  <2>7. NothingDisappears'
    BY <1>1, <1>3, <2>1, <2>2, <2>3 DEF OInv, NothingDisappears
  <2> QED
    BY <2>5, <2>6, <2>7
<1>4. CASE refused' = refused \cup {cl_ord_id} /\ UNCHANGED queue
  <2>1. DataKept'
    BY <1>1, <1>4 DEF OInv, DataKept, DataOutlivesSend
  <2>2. IdsGrow'
    BY <1>1, <1>2, <1>4, IdFacts DEF OInv, IdsGrow, Grows, Before, UpTo
  <2>3. NothingDisappears'
    BY <1>1, <1>4 DEF OInv, NothingDisappears
  <2> QED
    BY <2>1, <2>2, <2>3
<1> QED
  BY <1>3, <1>4 DEF send_data_async, Push

LEMMA OrderPop ==
    ASSUME OInv, Pop
    PROVE  DataKept' /\ IdsGrow' /\ NothingDisappears'
<1>1. /\ UNCHANGED <<cl_ord_id, slot, sender, view, wire, failed, refused>>
      /\ Pushed' = Pushed
  BY DEF Pop, thread, history, Pushed
<1>2. CASE queue = <<>>
  BY <1>1, <1>2 DEF OInv, Pop, DataKept, DataOutlivesSend, IdsGrow, Grows,
                    Before, UpTo, NothingDisappears
<1>3. CASE queue # <<>>
  <2>1. queue' = Tail(queue) /\ popped' = <<queue[1]>> /\ popped = <<>>
    BY <1>3 DEF Pop
  <2>2. queue \in Seq(Entries)
    BY DEF OInv, TInv, ATypeOK
  <2>3. /\ DOMAIN queue = 1..Len(queue) /\ 1 \in DOMAIN queue
        /\ DOMAIN queue' = 1..(Len(queue) - 1) /\ Len(queue) \in Nat
        /\ \A i \in DOMAIN queue' : /\ i + 1 \in DOMAIN queue
                                    /\ queue'[i] = queue[i + 1]
    BY <1>3, <2>1, <2>2
  <2>4. DOMAIN popped' = {1} /\ popped'[1] = queue[1]
    BY <2>1
  <2>5. DataKept'
    BY <1>1, <2>3, <2>4 DEF OInv, DataKept, DataOutlivesSend
  <2>6. IdsGrow'
    <3>1. Grows(queue')
      BY <2>3 DEF OInv, IdsGrow, Grows
    <3>2. Before(popped', queue')
      BY <2>3, <2>4 DEF OInv, IdsGrow, Grows, Before
    <3>3. Before(wire, popped') /\ Before(wire, queue')
      BY <2>3, <2>4 DEF OInv, IdsGrow, Before
    <3>4. UpTo(popped', Pushed) /\ UpTo(queue', Pushed)
      BY <2>3, <2>4 DEF OInv, IdsGrow, UpTo
    <3> QED
      BY <1>1, <3>1, <3>2, <3>3, <3>4 DEF OInv, IdsGrow
  <2>7. NothingDisappears'
    <3>1. \A i \in DOMAIN queue :
            \/ i = 1
            \/ i - 1 \in DOMAIN queue' /\ queue'[i - 1] = queue[i]
      BY <2>3
    <3>2. \A n : (\E i \in DOMAIN queue : queue[i].id = n)
                  => \/ \E i \in DOMAIN queue' : queue'[i].id = n
                     \/ \E i \in DOMAIN popped' : popped'[i].id = n
      BY <2>4, <3>1
    <3>3. \A n : ~ \E i \in DOMAIN popped : popped[i].id = n
      BY <2>1
    <3> QED
      BY <1>1, <3>2, <3>3 DEF OInv, NothingDisappears
  <2> QED
    BY <2>5, <2>6, <2>7
<1> QED
  BY <1>2, <1>3

\* The message written is the one popped; no other is as old.
LEMMA OrderSend ==
    ASSUME OInv, send_data
    PROVE  DataKept' /\ IdsGrow' /\ NothingDisappears'
<1>1. /\ UNCHANGED <<cl_ord_id, slot, sender, view, queue, refused>>
      /\ popped' = <<>> /\ Pushed' = Pushed
  BY DEF send_data, SendFails, thread, Pushed
<1>2. DOMAIN popped = {1} /\ slot[popped[1].view] = popped[1].id
  <2>1. popped \in Seq(Entries) /\ Len(popped) <= 1 /\ popped # <<>>
    BY DEF OInv, TInv, ATypeOK, send_data
  <2>2. Len(popped) \in Nat /\ DOMAIN popped = 1..Len(popped)
    BY <2>1
  <2>3. 1 \in DOMAIN popped
    BY <2>1
  <2>4. Len(popped) = 1
    BY <2>1, <2>2, <2>3
  <2>5. DOMAIN popped = {1}
    BY <2>2, <2>4
  <2> QED
    BY <2>5 DEF OInv, DataKept, DataOutlivesSend
<1>3. DataKept'
  BY <1>1 DEF OInv, DataKept, DataOutlivesSend
<1>4. CASE SendMeets("up") /\ ~torn
  <2> DEFINE written == [id |-> slot[popped[1].view],
                         connection |-> connection]
  <2>1. wire' = Append(wire, written) /\ UNCHANGED failed
    BY <1>4 DEF send_data
  <2>2. wire \in Seq([id : Ids, connection : 1..MaxConnections])
    BY DEF OInv, TInv, ATypeOK
  <2>3. /\ DOMAIN wire = 1..Len(wire) /\ DOMAIN wire' = 1..(Len(wire) + 1)
        /\ \A i \in DOMAIN wire : wire'[i] = wire[i]
        /\ wire'[Len(wire) + 1] = written /\ Len(wire) \in Nat
    BY <2>1, <2>2
  <2>4. written.id = popped[1].id
    BY <1>2
  <2> HIDE DEF written
  <2>5. \A i \in DOMAIN wire' :
          \/ i \in DOMAIN wire /\ wire'[i] = wire[i] /\ i <= Len(wire)
          \/ i = Len(wire) + 1 /\ wire'[i] = written
    BY <2>3
  <2>6. IdsGrow'
    <3>1. Grows(wire')
      BY <1>2, <2>3, <2>4, <2>5 DEF OInv, IdsGrow, Grows, Before
    <3>2. Before(wire', queue)
      BY <1>2, <2>4, <2>5 DEF OInv, IdsGrow, Before
    <3>3. UpTo(wire', Pushed)
      BY <1>2, <2>4, <2>5 DEF OInv, IdsGrow, UpTo
    <3>4. Before(wire', <<>>) /\ Before(<<>>, queue) /\ UpTo(<<>>, Pushed)
      BY DEF Before, UpTo
    <3> QED
      BY <1>1, <3>1, <3>2, <3>3, <3>4 DEF OInv, IdsGrow
  <2>7. NothingDisappears'
    BY <1>1, <1>2, <2>1, <2>3, <2>4 DEF OInv, NothingDisappears
  <2> QED
    BY <1>3, <2>6, <2>7
<1>5. CASE ~(SendMeets("up") /\ ~torn)
  <2>1. failed' = failed \cup {popped[1].id} /\ UNCHANGED wire
    BY <1>5 DEF send_data, SendFails
  <2>2. IdsGrow'
    <3>1. Before(wire, <<>>) /\ Before(<<>>, queue) /\ UpTo(<<>>, Pushed)
      BY DEF Before, UpTo
    <3> QED
      BY <1>1, <2>1, <3>1 DEF OInv, IdsGrow
  <2>3. NothingDisappears'
    BY <1>1, <1>2, <2>1 DEF OInv, NothingDisappears
  <2> QED
    BY <1>3, <2>2, <2>3
<1> QED
  BY <1>4, <1>5

LEMMA OrderQuiet ==
    ASSUME OInv, Quiet \/ UNCHANGED avars
    PROVE  DataKept' /\ IdsGrow' /\ NothingDisappears'
<1>1. /\ UNCHANGED <<cl_ord_id, slot, view, queue, popped, wire, failed, refused>>
      /\ sender' = sender \/ (sender = "load" /\ sender' = "push")
  BY QuietSteps DEF avars, thread, history
<1>2. Pushed' = Pushed
  BY <1>1 DEF Pushed
<1> QED
  BY <1>1, <1>2 DEF OInv, DataKept, DataOutlivesSend, IdsGrow, Grows, Before,
                    UpTo, NothingDisappears

LEMMA OrderStep ==
    ASSUME Store = "outlives"
    PROVE  OInv /\ [ANext]_avars => OInv'
<1> SUFFICES ASSUME OInv, [ANext]_avars PROVE OInv'
  OBVIOUS
<1>1. TInv'
  BY TypeStep DEF OInv
<1>2. DataKept' /\ IdsGrow' /\ NothingDisappears'
  BY ASteps, OrderGet, OrderPush, OrderPop, OrderSend, OrderQuiet
<1> QED
  BY <1>1, <1>2 DEF OInv

\* If messages outlive their sending they are written in the order they were
\* taken, over all connections, and none twice.
THEOREM WireInOrder ==
    ASSUME Store = "outlives"
    PROVE  ASpec => []WireKeepsOrder
<1>1. OInv => WireKeepsOrder
  BY DEF OInv, IdsGrow, Grows, WireKeepsOrder
<1> QED
  BY OrderInit, OrderStep, <1>1, PTL DEF ASpec

\* And each is on its way, written, or noted as refused or failed.
THEOREM NothingLost ==
    ASSUME Store = "outlives"
    PROVE  ASpec => []NothingDisappears
<1>1. OInv => NothingDisappears
  BY DEF OInv
<1> QED
  BY OrderInit, OrderStep, <1>1, PTL DEF ASpec

-----------------------------------------------------------------------------
(* Refinement of LossyFifo.  First what IdsOf does to a queue.             *)

LEMMA IdsOfSeq ==
    ASSUME NEW S, \A e \in S : e.id \in Nat, NEW s \in Seq(S)
    PROVE  /\ IdsOf(s) \in Seq(Nat) /\ Len(IdsOf(s)) = Len(s)
           /\ \A i \in 1..Len(s) : IdsOf(s)[i] = s[i].id
<1>1. /\ Len(s) \in Nat /\ DOMAIN s = 1..Len(s)
      /\ \A i \in 1..Len(s) : s[i] \in S
  BY LenProperties, ElementOfSeq
<1>2. IdsOf(s) \in [1..Len(s) -> Nat]
  BY <1>1 DEF IdsOf
<1>3. IdsOf(s) \in Seq(Nat)
  BY <1>1, <1>2, SeqDef
<1>4. Len(IdsOf(s)) = Len(s)
  BY <1>1, <1>2, <1>3, LenProperties
<1> QED
  BY <1>1, <1>3, <1>4 DEF IdsOf

LEMMA IdsOfEmpty == IdsOf(<<>>) = <<>>
<1>1. <<>> \in Seq({}) /\ Len(<<>>) = 0 /\ \A e \in {} : e.id \in Nat
  BY EmptySeq
<1>2. /\ IdsOf(<<>>) \in Seq(Nat) /\ Len(IdsOf(<<>>)) = 0
  BY <1>1, IdsOfSeq, Zenon
<1> QED
  BY <1>2, EmptySeq

LEMMA IdsOfOne ==
    ASSUME NEW e, e.id \in Nat
    PROVE  IdsOf(<<e>>) = <<e.id>>
<1> DEFINE one == <<e>>
<1>1. /\ one \in Seq({e}) /\ Len(one) = 1 /\ one[1] = e
      /\ \A x \in {e} : x.id \in Nat
  OBVIOUS
<1> HIDE DEF one
<1>2. /\ IdsOf(one) \in Seq(Nat) /\ Len(IdsOf(one)) = Len(one)
      /\ \A i \in 1..Len(one) : IdsOf(one)[i] = one[i].id
  BY <1>1, IdsOfSeq
<1>3. <<e.id>> \in Seq(Nat) /\ Len(<<e.id>>) = 1 /\ <<e.id>>[1] = e.id
  OBVIOUS
<1>4. IdsOf(one) = <<e.id>>
  BY <1>1, <1>2, <1>3, SeqEqual
<1> QED
  BY <1>4 DEF one

LEMMA IdsOfAppend ==
    ASSUME NEW S, \A e \in S : e.id \in Nat, NEW s \in Seq(S), NEW e \in S
    PROVE  IdsOf(Append(s, e)) = Append(IdsOf(s), e.id)
<1>1. /\ Append(s, e) \in Seq(S) /\ Len(Append(s, e)) = Len(s) + 1
      /\ \A i \in 1..Len(s) : Append(s, e)[i] = s[i]
      /\ Append(s, e)[Len(s) + 1] = e
  BY AppendProperties
<1>2. /\ IdsOf(s) \in Seq(Nat) /\ Len(IdsOf(s)) = Len(s)
      /\ \A i \in 1..Len(s) : IdsOf(s)[i] = s[i].id
  BY IdsOfSeq
<1>3. /\ IdsOf(Append(s, e)) \in Seq(Nat)
      /\ Len(IdsOf(Append(s, e))) = Len(s) + 1
      /\ \A i \in 1..(Len(s) + 1) : IdsOf(Append(s, e))[i] = Append(s, e)[i].id
  BY <1>1, IdsOfSeq
<1>4. /\ Append(IdsOf(s), e.id) \in Seq(Nat)
      /\ Len(Append(IdsOf(s), e.id)) = Len(s) + 1
      /\ \A i \in 1..Len(s) : Append(IdsOf(s), e.id)[i] = IdsOf(s)[i]
      /\ Append(IdsOf(s), e.id)[Len(s) + 1] = e.id
  BY <1>2, AppendProperties
<1>5. Len(s) \in Nat
  BY LenProperties
<1>6. \A i \in 1..(Len(s) + 1) :
        IdsOf(Append(s, e))[i] = Append(IdsOf(s), e.id)[i]
  <2>1. \A i \in 1..(Len(s) + 1) : i \in 1..Len(s) \/ i = Len(s) + 1
    BY <1>5
  <2> QED
    BY <1>1, <1>2, <1>3, <1>4, <2>1
<1> QED
  BY <1>3, <1>4, <1>6, SeqEqual

LEMMA IdsOfTail ==
    ASSUME NEW S, \A e \in S : e.id \in Nat, NEW s \in Seq(S), s # <<>>
    PROVE  IdsOf(Tail(s)) = Tail(IdsOf(s)) /\ IdsOf(s) # <<>>
<1>1. /\ Tail(s) \in Seq(S) /\ Len(Tail(s)) = Len(s) - 1
      /\ \A i \in 1..Len(Tail(s)) : Tail(s)[i] = s[i + 1]
      /\ Len(s) \in Nat /\ Len(s) > 0
  BY HeadTailProperties, LenProperties, EmptySeq
<1>2. /\ IdsOf(s) \in Seq(Nat) /\ Len(IdsOf(s)) = Len(s)
      /\ \A i \in 1..Len(s) : IdsOf(s)[i] = s[i].id
  BY IdsOfSeq
<1>3. /\ IdsOf(Tail(s)) \in Seq(Nat) /\ Len(IdsOf(Tail(s))) = Len(s) - 1
      /\ \A i \in 1..(Len(s) - 1) : IdsOf(Tail(s))[i] = Tail(s)[i].id
  BY <1>1, IdsOfSeq
<1>4. IdsOf(s) # <<>>
  BY <1>1, <1>2, EmptySeq
<1>5. /\ Tail(IdsOf(s)) \in Seq(Nat) /\ Len(Tail(IdsOf(s))) = Len(s) - 1
      /\ \A i \in 1..(Len(s) - 1) : Tail(IdsOf(s))[i] = IdsOf(s)[i + 1]
  BY <1>2, <1>4, HeadTailProperties
<1>6. \A i \in 1..(Len(s) - 1) : IdsOf(Tail(s))[i] = Tail(IdsOf(s))[i]
  <2>1. \A i \in 1..(Len(s) - 1) : i + 1 \in 1..Len(s)
    BY <1>1
  <2> QED
    BY <1>1, <1>2, <1>3, <1>5, <2>1
<1> QED
  BY <1>3, <1>4, <1>5, <1>6, SeqEqual

LEMMA HeadThenTail ==
    ASSUME NEW s \in Seq(Nat), s # <<>>
    PROVE  s = <<s[1]>> \o Tail(s)
<1>1. Len(s) \in Nat /\ 1 \in 1..Len(s) /\ Len(s) \in 1..Len(s)
  BY EmptySeq, LenProperties
<1>2. SubSeq(s, 1, Len(s)) = <<s[1]>> \o SubSeq(s, 1 + 1, Len(s))
  BY <1>1, SubSeqRecursiveFirst
<1>3. SubSeq(s, 1, Len(s)) = s
  BY SubSeqFull
<1>4. Tail(s) = SubSeq(s, 2, Len(s))
  BY TailIsSubSeq
<1> QED
  BY <1>2, <1>3, <1>4

LEMMA HeadAndRest ==
    ASSUME NEW n \in Nat, NEW rest \in Seq(Nat), NEW s, s = <<n>> \o rest
    PROVE  s # <<>> /\ Head(s) = n /\ Tail(s) = rest
<1> DEFINE one == <<n>>
<1>1. one \in Seq(Nat) /\ Len(one) = 1 /\ one[1] = n
  OBVIOUS
<1> HIDE DEF one
<1>2. /\ s \in Seq(Nat) /\ Len(s) = 1 + Len(rest)
      /\ \A i \in 1..(1 + Len(rest)) :
           s[i] = IF i <= 1 THEN one[i] ELSE rest[i - 1]
  BY <1>1, ConcatProperties DEF one
<1>3. Len(rest) \in Nat
  BY LenProperties
<1>4. s # <<>> /\ s[1] = n
  BY <1>1, <1>2, <1>3, EmptySeq
<1>5. /\ Tail(s) \in Seq(Nat) /\ Len(Tail(s)) = Len(s) - 1
      /\ \A i \in 1..Len(Tail(s)) : Tail(s)[i] = s[i + 1]
  BY <1>2, <1>4, HeadTailProperties
<1>6. \A i \in 1..Len(rest) : Tail(s)[i] = rest[i]
  <2> SUFFICES ASSUME NEW i \in 1..Len(rest) PROVE Tail(s)[i] = rest[i]
    OBVIOUS
  <2>1. i + 1 \in 1..(1 + Len(rest)) /\ ~(i + 1 <= 1) /\ (i + 1) - 1 = i
    BY <1>3
  <2> QED
    BY <1>2, <1>3, <1>5, <2>1
<1>7. Tail(s) = rest
  BY <1>2, <1>3, <1>5, <1>6, SeqEqual
<1> QED
  BY <1>4, <1>7

LEMMA DropLast ==
    ASSUME NEW n \in Nat, NEW s \in Seq(Nat)
    PROVE  SubSeq(Append(s, n), 1, Len(Append(s, n)) - 1) = s
<1> DEFINE t == Append(s, n)
<1>1. /\ t \in Seq(Nat) /\ Len(t) = Len(s) + 1 /\ Len(s) \in Nat
      /\ \A i \in 1..Len(s) : t[i] = s[i]
  BY AppendProperties, LenProperties
<1> HIDE DEF t
<1>2. \A i \in 1..Len(s) : t[i] \in Nat
  BY <1>1, ElementOfSeq
<1>3. /\ SubSeq(t, 1, Len(s)) \in Seq(Nat)
      /\ Len(SubSeq(t, 1, Len(s))) = IF 1 <= Len(s) THEN Len(s) - 1 + 1 ELSE 0
      /\ \A i \in 1..(Len(s) - 1 + 1) : SubSeq(t, 1, Len(s))[i] = t[1 + i - 1]
  BY <1>1, <1>2, SubSeqProperties
<1>4. /\ Len(SubSeq(t, 1, Len(s))) = Len(s)
      /\ \A i \in 1..Len(s) : SubSeq(t, 1, Len(s))[i] = s[i]
  BY <1>1, <1>3
<1>5. SubSeq(t, 1, Len(s)) = s
  BY <1>3, <1>4, SeqEqual
<1>6. Len(t) - 1 = Len(s)
  BY <1>1
<1> QED
  BY <1>5, <1>6 DEF t

LEMMA WireGrows ==
    ASSUME TInv, NEW n \in Nat, NEW c
    PROVE  IdsOf(Append(wire, [id |-> n, connection |-> c]))
             = Append(IdsOf(wire), n)
<1> DEFINE S == {wire[i] : i \in DOMAIN wire} \cup {[id |-> n, connection |-> c]}
           written == [id |-> n, connection |-> c]
<1>1. \A e \in S : e.id \in Nat
  BY IdFacts
<1>2. wire \in Seq(S)
  <2>1. wire \in Seq([id : Ids, connection : 1..MaxConnections])
    BY DEF TInv, ATypeOK
  <2>2. Len(wire) \in Nat /\ wire \in [1..Len(wire) -> S]
    BY <2>1, LenProperties
  <2> QED
    BY <2>2, SeqDef
<1>3. written \in S /\ written.id = n
  OBVIOUS
<1> HIDE DEF S, written
<1>4. IdsOf(Append(wire, written)) = Append(IdsOf(wire), written.id)
  BY <1>1, <1>2, <1>3, IdsOfAppend
<1> QED
  BY <1>3, <1>4 DEF written

-----------------------------------------------------------------------------
(* The step.                                                               *)

LEMMA ChannelFacts ==
    ASSUME TInv
    PROVE  /\ IdsOf(popped) \in Seq(Nat) /\ IdsOf(queue) \in Seq(Nat)
           /\ Held \in Seq(Nat)
           /\ queue \in Seq(Entries) /\ popped \in Seq(Entries)
           /\ \A e \in Entries : e.id \in Nat
<1>1. queue \in Seq(Entries) /\ popped \in Seq(Entries)
  BY DEF TInv, ATypeOK
<1>2. \A e \in Entries : e.id \in Nat
  BY AsyncAssumption DEF Entries, Ids
<1>3. Held \in Seq(Nat)
  BY IdFacts DEF Held
<1> QED
  BY <1>1, <1>2, <1>3, IdsOfSeq

LEMMA FifoInit == AInit => Fifo!FInit
<1> SUFFICES ASSUME AInit PROVE Fifo!FInit
  OBVIOUS
<1>1. Channel = (<<>> \o <<>>) \o <<>>
  BY IdsOfEmpty DEF AInit, Channel, Held
<1>2. Channel = <<>>
  BY <1>1, EmptySeq, ConcatEmptySeq
<1> QED
  BY <1>2, IdsOfEmpty DEF AInit, Fifo!FInit

LEMMA FifoTake ==
    ASSUME OInv, get_new_order
    PROVE  Fifo!Take
<1> DEFINE p == IdsOf(popped) \o IdsOf(queue)
           n == cl_ord_id + 1
<1>1. p \in Seq(Nat) /\ n \in Nat
  BY ChannelFacts, ConcatProperties, IdFacts DEF OInv
<1>2. cl_ord_id' = n /\ UNCHANGED <<queue, popped, wire, failed, refused>>
  BY DEF get_new_order, history
<1>3. Channel = p \o <<>> /\ Channel' = p \o <<n>>
  BY <1>2 DEF get_new_order, Channel, Held
<1> HIDE DEF p
<1>4. Channel = p /\ Channel' = Append(p, n)
  BY <1>1, <1>3, ConcatEmptySeq, AppendIsConcat
<1> QED
  BY <1>2, <1>4 DEF Fifo!Take

\* A queued message was on its way already; a refused one is the newest.
LEMMA FifoPush ==
    ASSUME OInv, send_data_async
    PROVE  UNCHANGED <<cl_ord_id, Channel, IdsOf(wire), failed \cup refused>>
             \/ Fifo!LoseNewest
<1> DEFINE entry == [fd |-> fd, view |-> view, id |-> cl_ord_id]
           p == IdsOf(popped)
           q == IdsOf(queue)
           n == cl_ord_id
<1>1. /\ sender = "push" /\ sender' = "get"
      /\ UNCHANGED <<cl_ord_id, popped, wire, failed>>
  BY DEF send_data_async
<1>2. p \in Seq(Nat) /\ q \in Seq(Nat) /\ n \in Nat /\ <<n>> \in Seq(Nat)
  BY ChannelFacts, IdFacts DEF OInv
<1>3. Channel = (p \o q) \o <<n>>
  BY <1>1 DEF Channel, Held
<1>4. CASE queue' = Append(queue, entry) /\ UNCHANGED refused
  <2>1. entry \in Entries /\ entry.id = n
    BY <1>1 DEF OInv, TInv, ATypeOK, ViewsAreFilled, Entries
  <2> HIDE DEF entry
  <2>2. IdsOf(queue') = Append(q, n)
    BY <1>4, <2>1, ChannelFacts, IdsOfAppend DEF OInv
  <2>3. Channel' = (p \o Append(q, n)) \o <<>>
    BY <1>1, <2>2 DEF Channel, Held
  <2> HIDE DEF p, q, n
  <2>4. Append(q, n) = q \o <<n>>
    BY <1>2, AppendIsConcat
  <2>5. (p \o q) \o <<n>> = p \o (q \o <<n>>)
    BY <1>2, ConcatAssociative
  <2>6. p \o (q \o <<n>>) \in Seq(Nat)
    BY <1>2, ConcatProperties
  <2>7. Channel' = Channel
    BY <1>3, <2>3, <2>4, <2>5, <2>6, ConcatEmptySeq
  <2> QED
    BY <1>1, <1>4, <2>7
<1>5. CASE refused' = refused \cup {n} /\ UNCHANGED queue
  <2>1. Channel' = (p \o q) \o <<>>
    BY <1>1, <1>5 DEF Channel, Held
  <2> DEFINE r == p \o q
  <2>2. r \in Seq(Nat)
    BY <1>2, ConcatProperties
  <2>3. Channel = r \o <<n>> /\ Channel' = r \o <<>>
    BY <1>3, <2>1
  <2> HIDE DEF r
  <2>4. Channel = Append(r, n) /\ Channel' = r
    BY <1>2, <2>2, <2>3, AppendIsConcat, ConcatEmptySeq
  <2>5. /\ Append(r, n) # <<>> /\ Len(Append(r, n)) = Len(r) + 1
        /\ Append(r, n)[Len(r) + 1] = n /\ Len(r) \in Nat
    BY <1>2, <2>2, AppendProperties, LenProperties
  <2>6. SubSeq(Append(r, n), 1, Len(Append(r, n)) - 1) = r
    BY <1>2, <2>2, DropLast
  <2> QED
    BY <1>1, <1>5, <2>4, <2>5, <2>6 DEF Fifo!LoseNewest
<1> QED
  BY <1>4, <1>5 DEF send_data_async, Push

LEMMA FifoPop ==
    ASSUME OInv, Pop
    PROVE  UNCHANGED <<cl_ord_id, Channel, IdsOf(wire), failed \cup refused>>
<1>1. UNCHANGED <<cl_ord_id, sender, wire, failed, refused>> /\ Held' = Held
  BY DEF Pop, thread, history, Held
<1>2. CASE queue = <<>>
  BY <1>1, <1>2 DEF Pop, Channel
<1>3. CASE queue # <<>>
  <2>1. queue' = Tail(queue) /\ popped' = <<queue[1]>> /\ popped = <<>>
    BY <1>3 DEF Pop
  <2>2. 1 \in 1..Len(queue) /\ queue[1] \in Entries /\ queue[1].id \in Nat
    BY <1>3, ChannelFacts, EmptySeq, ElementOfSeq DEF OInv
  <2> DEFINE q == IdsOf(queue)
  <2>3. q \in Seq(Nat) /\ q[1] = queue[1].id
    BY <2>2, ChannelFacts, IdsOfSeq DEF OInv
  <2>4. IdsOf(queue') = Tail(q) /\ q # <<>>
    BY <1>3, <2>1, ChannelFacts, IdsOfTail DEF OInv
  <2>5. IdsOf(popped) = <<>> /\ IdsOf(popped') = <<q[1]>>
    BY <2>1, <2>2, <2>3, IdsOfEmpty, IdsOfOne
  <2> HIDE DEF q
  <2>6. q = <<q[1]>> \o Tail(q) /\ <<>> \o q = q
    BY <2>3, <2>4, HeadThenTail, ConcatEmptySeq
  <2>7. Channel = q \o Held /\ Channel' = q \o Held
    BY <1>1, <2>4, <2>5, <2>6 DEF Channel, q
  <2> QED
    BY <1>1, <2>7
<1> QED
  BY <1>2, <1>3

\* The message that is sent, or fails, is the oldest on its way.
LEMMA FifoSend ==
    ASSUME OInv, send_data
    PROVE  Fifo!Deliver \/ Fifo!LoseOldest
<1> DEFINE n == popped[1].id
           rest == IdsOf(queue) \o Held
<1>1. /\ UNCHANGED <<cl_ord_id, sender, queue, refused>>
      /\ popped' = <<>> /\ Held' = Held
  BY DEF send_data, SendFails, thread, Held
<1>2. /\ popped = <<popped[1]>> /\ popped[1] \in Entries
      /\ slot[popped[1].view] = n /\ n \in Nat
  <2>1. /\ popped \in Seq(Entries) /\ Len(popped) <= 1
        /\ Len(popped) \in Nat \ {0}
    BY EmptySeq DEF OInv, TInv, ATypeOK, send_data
  <2> DEFINE length == Len(popped)
  <2>2. length = 1 /\ 1 \in 1..length
    <3>1. length \in Nat \ {0} /\ length <= 1
      BY <2>1
    <3> HIDE DEF length
    <3> QED
      BY <3>1
  <2>3. popped[1] \in Entries
    BY <2>1, <2>2, ElementOfSeq
  <2> DEFINE one == <<popped[1]>>
  <2>4. popped = one
    <3>1. one \in Seq(Entries) /\ Len(one) = 1 /\ one[1] = popped[1]
      BY <2>3
    <3> HIDE DEF one
    <3> QED
      BY <2>1, <2>2, <3>1, SeqEqual
  <2>5. 1 \in DOMAIN popped
    BY <2>1, <2>2, LenProperties
  <2> QED
    BY <2>3, <2>4, <2>5, ChannelFacts DEF OInv, DataKept, DataOutlivesSend
<1>3. rest \in Seq(Nat) /\ <<n>> \in Seq(Nat)
  BY <1>2, ChannelFacts, ConcatProperties DEF OInv
<1>4. Channel = (<<n>> \o IdsOf(queue)) \o Held
  BY <1>2, IdsOfOne DEF Channel
<1>5. Channel' = (<<>> \o IdsOf(queue)) \o Held
  BY <1>1, IdsOfEmpty DEF Channel
<1>6. Channel = <<n>> \o rest /\ Channel' = rest
  BY <1>3, <1>4, <1>5, ChannelFacts, ConcatAssociative, ConcatEmptySeq DEF OInv
<1> HIDE DEF n, rest
<1>7. Channel # <<>> /\ Head(Channel) = n /\ Tail(Channel) = Channel'
  BY <1>2, <1>3, <1>6, HeadAndRest
<1>8. CASE SendMeets("up") /\ ~torn
  <2>1. /\ wire' = Append(wire, [id |-> slot[popped[1].view],
                                 connection |-> connection])
        /\ UNCHANGED failed
    BY <1>8 DEF send_data
  <2>2. IdsOf(wire') = Append(IdsOf(wire), n)
    BY <1>2, <2>1, WireGrows DEF OInv, n
  <2> QED
    BY <1>1, <1>7, <2>1, <2>2 DEF Fifo!Deliver
<1>9. CASE ~(SendMeets("up") /\ ~torn)
  <2>1. failed' = failed \cup {n} /\ UNCHANGED wire
    BY <1>9 DEF send_data, SendFails, n
  <2> QED
    BY <1>1, <1>7, <2>1 DEF Fifo!LoseOldest
<1> QED
  BY <1>8, <1>9

LEMMA FifoQuiet ==
    ASSUME Quiet \/ UNCHANGED avars
    PROVE  UNCHANGED <<cl_ord_id, Channel, IdsOf(wire), failed \cup refused>>
<1>1. /\ UNCHANGED <<cl_ord_id, queue, popped, wire, failed, refused>>
      /\ sender' = sender \/ (sender = "load" /\ sender' = "push")
  BY QuietSteps DEF avars, thread, history
<1> QED
  BY <1>1 DEF Channel, Held

\* The sender thread, the queue and the loop are a lossy channel.
THEOREM AsyncIsLossyFifo ==
    ASSUME Store = "outlives"
    PROVE  ASpec => ImplementsLossyFifo
<1>1. OInv /\ [ANext]_avars => [Fifo!FNext]_(Fifo!fvars)
  <2> SUFFICES ASSUME OInv, [ANext]_avars
               PROVE  Fifo!FNext
                        \/ UNCHANGED <<cl_ord_id, Channel, IdsOf(wire),
                                      failed \cup refused>>
    BY DEF Fifo!fvars
  <2> QED
    BY ASteps, FifoTake, FifoPush, FifoPop, FifoSend, FifoQuiet DEF Fifo!FNext
<1> QED
  BY OrderInit, OrderStep, FifoInit, <1>1, PTL
     DEF ASpec, ImplementsLossyFifo, Fifo!FSpec

=============================================================================
