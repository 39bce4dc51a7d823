--------------------------- MODULE MessageRouting ---------------------------
(***************************************************************************)
(* The message path of HyperRoute: a request read from a client goes       *)
(* through SourceSession, a destination router and DestinationSession to a *)
(* venue; a report read from a venue goes back through SourceRouter.  The  *)
(* tables those classes keep are the variables, under their source names.  *)
(*                                                                         *)
(* The program is one thread around epoll_wait that runs one frame's       *)
(* handler to completion, so a handler is one action.  Its stages are the  *)
(* operators below, called in the order the code calls them.               *)
(***************************************************************************)
EXTENDS Naturals, FiniteSets, Sequences

CONSTANTS
    Sources,       \* source sessions (ProtocolA, TCP servers)
    Destinations,  \* destination sessions (ProtocolB, TCP clients)
    ClOrdIds,      \* client order ids the clients use
    Router,        \* Router[s]: the type of s's router in config.xml
    Targets,       \* Targets[s]: the destination_session_id entries of it
    MaxUid,        \* bound on the ids drawn from UIDGenerator
    IdSpace,       \* values of the venue's id field (2^32: an int)
    IdScope,       \* how far clients keep their ids distinct, see IdFree
    Notionals,     \* values of "price * size exceeds the limit"
    None           \* no entry in a table, or field not set

ASSUME RouterAssumption ==
    /\ Router \in [Sources -> {"OneToOne", "RoundRobin"}]
    /\ Targets \in [Sources -> Seq(Destinations)]
    /\ \A s \in Sources : Router[s] = "OneToOne" => Len(Targets[s]) = 1

ASSUME BoundAssumption ==
    /\ MaxUid \in Nat
    /\ IdSpace \in Nat \ {0}
    /\ IdScope \in {"any", "session", "global"}
    /\ Notionals \subseteq BOOLEAN

ASSUME NoneAssumption ==
    /\ None \notin Nat
    /\ None \notin Sources \cup Destinations \cup ClOrdIds
    /\ None \notin [cl_ord_id : ClOrdIds, uid : Nat]

VARIABLES
    uid,                     \* UIDGenerator::uid_, shared by all sessions
    cl_ord_id_to_uid,        \* per source session
    uid_to_source_session,   \* SourceRouter
    index,                   \* DestinationRouterRoundRobin, per source
    uid_to_destination,      \* DestinationRouterRoundRobin, per source
    dest_cl_ord_id_by_src_cl_ord_id,    \* per destination session
    src_routing_info_by_dest_cl_ord_id, \* per destination session
    link,      \* the socket of each destination's transport
    sent,      \* history: what was handed to the venues' transports
    to_client  \* what the last handler handed to the clients' transports

routing == <<cl_ord_id_to_uid, uid_to_source_session, index,
             uid_to_destination, dest_cl_ord_id_by_src_cl_ord_id,
             src_routing_info_by_dest_cl_ord_id>>
vars == <<uid, routing, link, sent, to_client>>

Uids == 0..MaxUid       \* 0 is Message::uid_ of a message nobody stamped
DestIds == 0..(IdSpace - 1)
Kinds == {"NewOrderSingle", "CancelReplaceRequest", "CancelRequest"}
Links == {"connecting", "up", "closed"}

(***************************************************************************)
(* A request inside the router: refused says that a reject has gone back   *)
(* to the client already.                                                  *)
(***************************************************************************)
Messages == [src : Sources, kind : Kinds, cl : ClOrdIds,
             orig : ClOrdIds \cup {None}, over : BOOLEAN,
             uid : Uids, refused : BOOLEAN]

(***************************************************************************)
(* The same request as written to the venue under the ids c and o, the     *)
(* drawn id that c is made of, and the state of that venue's link when it  *)
(* was written.                                                            *)
(***************************************************************************)
SentMessages == [dst : Destinations, c : DestIds, o : DestIds \cup {None},
                 drawn : Uids, link : Links, src : Sources, kind : Kinds,
                 cl : ClOrdIds, over : BOOLEAN, uid : Uids,
                 refused : BOOLEAN]

RoutingInfo == [cl_ord_id : ClOrdIds, uid : Uids]

ClientMessages == [to : Sources, kind : {"ExecutionReport", "CancelReject"},
                   cl : ClOrdIds \cup {None},
                   from : Destinations \cup {None}, c : DestIds \cup {None}]

-----------------------------------------------------------------------------
(* Leaves of the call graph.                                               *)

\* UIDGenerator, at n: every id it returns is one more than the last.
get_next_uid(n) == n + 1

\* Mutant: insert_or_assign, the last entry of a key stays.
Emplace_Overwrites(map, key, value) == [map EXCEPT ![key] = value]

\* unordered_map::emplace and try_emplace: the first entry of a key stays.
Emplace(map, key, value) ==
    IF map[key] = None THEN [map EXCEPT ![key] = value] ELSE map

\* connected_ is initialised to true and nothing assigns it afterwards.
is_connected(d) == TRUE

\* StatelessCheck01::enabled_, likewise.
is_enabled == TRUE

\* ValidatorX runs its check when the check is not enabled.
ValidationFails(m) ==
    /\ ~is_enabled
    /\ m.kind # "CancelRequest"
    /\ m.over

\* Mutant: the venue's id field loses one more bit.
DestClOrdId_Narrow(n) == n % (IdSpace \div 2)

\* dst_msg.msg().c = dest_cl_ord_id: a 64 bit counter stored in an int.
DestClOrdId(n) == n % IdSpace

InvalidOriginal(d, m) ==
    /\ m.kind # "NewOrderSingle"
    /\ dest_cl_ord_id_by_src_cl_ord_id[d][m.orig] = None

RejectKind(m) ==
    IF m.kind = "CancelRequest" THEN "CancelReject" ELSE "ExecutionReport"

\* reject_message_from_transport, n times: a report with default fields.
Rejects(m, n) ==
    [i \in 1..n |-> [to |-> m.src, kind |-> RejectKind(m), cl |-> None,
                     from |-> None, c |-> None]]

-----------------------------------------------------------------------------
(* Destination session and destination routers.                            *)

(***************************************************************************)
(* The request cannot be passed on: procoess_message_from_transport sends  *)
(* a reject for this stage, besides the one of the stage before.           *)
(***************************************************************************)
Refuse(m) ==
    /\ to_client' = Rejects(m, IF m.refused THEN 2 ELSE 1)
    /\ UNCHANGED <<sent, dest_cl_ord_id_by_src_cl_ord_id,
                   src_routing_info_by_dest_cl_ord_id>>

\* The venue id leads back to the client's id, and the client's id to it.
update_destination_routing_info(d, m, c) ==
    /\ src_routing_info_by_dest_cl_ord_id' =
         [src_routing_info_by_dest_cl_ord_id EXCEPT
            ![d] = Emplace(@, c, [cl_ord_id |-> m.cl, uid |-> m.uid])]
    /\ dest_cl_ord_id_by_src_cl_ord_id' =
         [dest_cl_ord_id_by_src_cl_ord_id EXCEPT ![d] = Emplace(@, m.cl, c)]

(***************************************************************************)
(* Encode, send and record the request under the drawn id n, as far as the *)
(* venue's field holds it.  send_data reports success whatever happens on  *)
(* the socket.                                                             *)
(***************************************************************************)
procoess_message_to_transport(d, m, n) ==
    LET c == DestClOrdId(n)
        o == IF m.kind = "NewOrderSingle" THEN None
             ELSE dest_cl_ord_id_by_src_cl_ord_id[d][m.orig]
    IN
    /\ sent' = sent \cup
               {[dst |-> d, c |-> c, o |-> o, drawn |-> n,
                 link |-> link[d], src |-> m.src, kind |-> m.kind,
                 cl |-> m.cl, over |-> m.over, uid |-> m.uid,
                 refused |-> m.refused]}
    /\ update_destination_routing_info(d, m, c)
    /\ to_client' = Rejects(m, IF m.refused THEN 1 ELSE 0)

\* Mutant: the order's uid doubles as the id of all its requests.
on_message_from_peer_UidAsId(d, m, u) ==
    /\ uid' = get_next_uid(u)
    /\ IF InvalidOriginal(d, m) \/ ValidationFails(m)
       THEN Refuse(m)
       ELSE procoess_message_to_transport(d, m, m.uid)

(***************************************************************************)
(* DestinationSessionProtocolB draws an id for the request before it looks *)
(* at it.  u is where UIDGenerator stands when the router gets the request *)
(* (a source session draws from it too).                                   *)
(***************************************************************************)
on_message_from_peer(d, m, u) ==
    /\ uid' = get_next_uid(u)
    /\ IF InvalidOriginal(d, m) \/ ValidationFails(m)
       THEN Refuse(m)
       ELSE procoess_message_to_transport(d, m, get_next_uid(u))

\* No destination session is called and no id is drawn for it.
NotRouted(m, u) == uid' = u /\ Refuse(m)

OneToOne(m, u) ==
    LET d == Targets[m.src][1] IN
    /\ IF is_connected(d) THEN on_message_from_peer(d, m, u)
                          ELSE NotRouted(m, u)
    /\ UNCHANGED <<index, uid_to_destination>>

\* Mutant: reads the session before it moves on.
get_next_session_Stuck(i, k, size) == (i + k - 1) % size

\* index_ (0-based) after k calls that started at i.
get_next_session(i, k, size) == (i + k) % size

(***************************************************************************)
(* Sessions are tried until one is connected or each has been tried once;  *)
(* the destination is cached whether or not the session took the message.  *)
(***************************************************************************)
RoundRobinFirstEvent(m, u) ==
    LET size == Len(Targets[m.src])
        probe(k) == get_next_session(index[m.src], k, size)
        destination(k) == Targets[m.src][probe(k) + 1]
        connected(k) == is_connected(destination(k))
    IN
    \/ \E k \in 1..size :
         /\ connected(k)
         /\ \A j \in 1..(k - 1) : ~connected(j)
         /\ index' = [index EXCEPT ![m.src] = probe(k)]
         /\ on_message_from_peer(destination(k), m, u)
         /\ uid_to_destination' =
              [uid_to_destination EXCEPT
                 ![m.src] = Emplace(@, m.uid, destination(k))]
    \/ /\ \A k \in 1..size : ~connected(k)
       /\ NotRouted(m, u)
       /\ UNCHANGED <<index, uid_to_destination>>

RoundRobinSubsequentEvent(m, u) ==
    LET d == uid_to_destination[m.src][m.uid] IN
    /\ IF d # None THEN on_message_from_peer(d, m, u) ELSE NotRouted(m, u)
    /\ UNCHANGED <<index, uid_to_destination>>

\* Mutant: a cancel or replace goes to the next session like a new order.
send_message_to_peer_AlwaysNext(m, u) ==
    IF Router[m.src] = "OneToOne" THEN OneToOne(m, u)
                                  ELSE RoundRobinFirstEvent(m, u)

send_message_to_peer(m, u) ==
    \/ Router[m.src] = "OneToOne" /\ OneToOne(m, u)
    \/ /\ Router[m.src] = "RoundRobin"
       /\ IF m.kind = "NewOrderSingle" THEN RoundRobinFirstEvent(m, u)
                                       ELSE RoundRobinSubsequentEvent(m, u)

-----------------------------------------------------------------------------
(* Source session: the handler of a request read from a client.            *)

\* Mutant: the ids of cancels and replaces are recorded as well.
update_source_routing_info_EveryKind(m) ==
    /\ uid_to_source_session' =
         IF m.kind = "NewOrderSingle"
         THEN Emplace(uid_to_source_session, m.uid, m.src)
         ELSE uid_to_source_session
    /\ cl_ord_id_to_uid' =
         [cl_ord_id_to_uid EXCEPT ![m.src] = Emplace(@, m.cl, m.uid)]

\* Runs whether or not the request was refused.
update_source_routing_info(m) ==
    IF m.kind = "NewOrderSingle"
    THEN /\ uid_to_source_session' =
              Emplace(uid_to_source_session, m.uid, m.src)
         /\ cl_ord_id_to_uid' =
              [cl_ord_id_to_uid EXCEPT ![m.src] = Emplace(@, m.cl, m.uid)]
    ELSE UNCHANGED <<uid_to_source_session, cl_ord_id_to_uid>>

(***************************************************************************)
(* What the clients do with their ids: nothing is promised ("any"), a      *)
(* client does not reuse its own ("session"), no two clients share one.    *)
(***************************************************************************)
IdFree(s, cl) ==
    \/ IdScope = "any"
    \/ \A m \in sent : m.cl = cl => IdScope = "session" /\ m.src # s

NewOrderSingle(s, cl, over) ==
    LET u == get_next_uid(uid)
        m == [src |-> s, kind |-> "NewOrderSingle", cl |-> cl, orig |-> None,
              over |-> over, uid |-> u, refused |-> FALSE]
    IN
    /\ get_next_uid(u) <= MaxUid
    /\ IdFree(s, cl)
    /\ send_message_to_peer(m, u)
    /\ update_source_routing_info(m)
    /\ UNCHANGED link

\* Mutant: an unknown order keeps the uid of the message before.
transform_uid_from_orig_cl_ord_id_Stale(s, orig) ==
    IF cl_ord_id_to_uid[s][orig] = None THEN uid ELSE cl_ord_id_to_uid[s][orig]

\* The uid a cancel or replace goes on with: 0 for an unknown order.
transform_uid_from_orig_cl_ord_id(s, orig) ==
    IF cl_ord_id_to_uid[s][orig] = None THEN 0 ELSE cl_ord_id_to_uid[s][orig]

(***************************************************************************)
(* A request about an earlier order.  An unknown orig_cl_ord_id is         *)
(* rejected, and the message goes on.                                      *)
(***************************************************************************)
SubsequentEvent(s, kind, cl, orig, over) ==
    LET m == [src |-> s, kind |-> kind, cl |-> cl, orig |-> orig,
              over |-> over,
              uid |-> transform_uid_from_orig_cl_ord_id(s, orig),
              refused |-> cl_ord_id_to_uid[s][orig] = None]
    IN
    /\ get_next_uid(uid) <= MaxUid
    /\ IdFree(s, cl)
    /\ send_message_to_peer(m, uid)
    /\ update_source_routing_info(m)
    /\ UNCHANGED link

CancelReplaceRequest(s, cl, orig, over) ==
    SubsequentEvent(s, "CancelReplaceRequest", cl, orig, over)

CancelRequest(s, cl, orig) ==
    SubsequentEvent(s, "CancelRequest", cl, orig, FALSE)

-----------------------------------------------------------------------------
(* Destination session: the handler of a report read from a venue.         *)

Received(d) == {m \in sent : m.dst = d /\ m.link = "up"}

\* What the table says of a venue id; a report keeps its defaults otherwise.
handle_cl_ord_id_from_destination(d, c) ==
    IF src_routing_info_by_dest_cl_ord_id[d][c] = None
    THEN [cl_ord_id |-> None, uid |-> 0]
    ELSE src_routing_info_by_dest_cl_ord_id[d][c]

\* Mutant: find is not compared with end.
send_message_to_source_Unchecked(kind, cl, u, d, c) ==
    <<[to |-> uid_to_source_session[u], kind |-> kind, cl |-> cl,
       from |-> d, c |-> c]>>

\* SourceRouter passes a report to the session of its uid, or drops it.
send_message_to_source(kind, cl, u, d, c) ==
    IF uid_to_source_session[u] = None
    THEN <<>>
    ELSE <<[to |-> uid_to_source_session[u], kind |-> kind, cl |-> cl,
            from |-> d, c |-> c]>>

(***************************************************************************)
(* A report about an unknown venue id is not stopped: it goes on with      *)
(* uid 0.                                                                  *)
(***************************************************************************)
procoess_message_from_transport(d, kind, c) ==
    LET info == handle_cl_ord_id_from_destination(d, c) IN
    /\ to_client' =
         send_message_to_source(kind, info.cl_ord_id, info.uid, d, c)
    /\ UNCHANGED <<uid, routing, link, sent>>

ExecutionReport(d, c) ==
    /\ link[d] = "up"
    /\ procoess_message_from_transport(d, "ExecutionReport", c)

CancelReject(d, c) ==
    /\ link[d] = "up"
    /\ procoess_message_from_transport(d, "CancelReject", c)

-----------------------------------------------------------------------------
(* Destination sockets.  connect is called once, while the application is  *)
(* built; connect_client treats EINPROGRESS as connected.                  *)

Established(d) ==
    /\ link[d] = "connecting"
    /\ link' = [link EXCEPT ![d] = "up"]
    /\ to_client' = <<>>
    /\ UNCHANGED <<uid, routing, sent>>

\* Refused, or closed by the venue: handle_disconnect; nobody reconnects.
Disconnected(d) ==
    /\ link[d] # "closed"
    /\ link' = [link EXCEPT ![d] = "closed"]
    /\ to_client' = <<>>
    /\ UNCHANGED <<uid, routing, sent>>

-----------------------------------------------------------------------------
\* Empty tables, as the sessions and routers are constructed.
NoClOrdIds == [cl \in ClOrdIds |-> None]
NoUids == [u \in Uids |-> None]
NoDestIds == [c \in DestIds |-> None]

Init ==
    /\ uid = 0
    /\ cl_ord_id_to_uid = [s \in Sources |-> NoClOrdIds]
    /\ uid_to_source_session = NoUids
    /\ index = [s \in Sources |-> 0]
    /\ uid_to_destination = [s \in Sources |-> NoUids]
    /\ dest_cl_ord_id_by_src_cl_ord_id = [d \in Destinations |-> NoClOrdIds]
    /\ src_routing_info_by_dest_cl_ord_id = [d \in Destinations |-> NoDestIds]
    /\ link \in [Destinations -> {"connecting", "closed"}]
    /\ sent = {}
    /\ to_client = <<>>

FromClient(s) ==
    \E cl \in ClOrdIds :
      \/ \E over \in Notionals : NewOrderSingle(s, cl, over)
      \/ \E orig \in ClOrdIds, over \in Notionals :
           CancelReplaceRequest(s, cl, orig, over)
      \/ \E orig \in ClOrdIds : CancelRequest(s, cl, orig)

FromVenue(d) ==
    \E m \in Received(d) : ExecutionReport(d, m.c) \/ CancelReject(d, m.c)

Socket(d) == Established(d) \/ Disconnected(d)

Next ==
    \/ \E s \in Sources : FromClient(s)
    \/ \E d \in Destinations : FromVenue(d) \/ Socket(d)

Spec == Init /\ [][Next]_vars

-----------------------------------------------------------------------------
(* Properties.                                                             *)

TypeOK ==
    /\ uid \in Uids
    /\ cl_ord_id_to_uid \in [Sources -> [ClOrdIds -> Uids \cup {None}]]
    /\ uid_to_source_session \in [Uids -> Sources \cup {None}]
    /\ index \in [Sources -> Nat]
    /\ uid_to_destination \in
         [Sources -> [Uids -> Destinations \cup {None}]]
    /\ dest_cl_ord_id_by_src_cl_ord_id \in
         [Destinations -> [ClOrdIds -> DestIds \cup {None}]]
    /\ src_routing_info_by_dest_cl_ord_id \in
         [Destinations -> [DestIds -> RoutingInfo \cup {None}]]
    /\ link \in [Destinations -> Links]
    /\ sent \subseteq SentMessages
    /\ to_client \in Seq(ClientMessages)

(***************************************************************************)
(* A report handed to a client names the request of that very client that  *)
(* went to that venue under the reported id: the destination session's and *)
(* the source router's tables, filled by different classes at different    *)
(* moments of another handler, compose to the way back.                    *)
(***************************************************************************)
ReportsReturnToOrigin ==
    \A i \in DOMAIN to_client : \A m \in sent :
      (m.dst = to_client[i].from /\ m.c = to_client[i].c) =>
        /\ m.src = to_client[i].to
        /\ m.cl = to_client[i].cl

(***************************************************************************)
(* All requests of one order (one uid) come from one client and go to one  *)
(* venue, whatever index_ has moved to and whatever links have broken in   *)
(* between.                                                                *)
(***************************************************************************)
ChainStaysAtOneDestination ==
    \A m, n \in sent :
      (m.uid = n.uid /\ m.uid # 0) => m.src = n.src /\ m.dst = n.dst

\* The destination a cancel or replace with this uid is passed to.
RouteOf(s, u) ==
    IF Router[s] = "OneToOne" THEN Targets[s][1] ELSE uid_to_destination[s][u]

(***************************************************************************)
(* An order its client can name can be cancelled: the source table leads   *)
(* to a venue whose own table knows the order's id, and reports about it   *)
(* have a way back.  Holds only with a non-empty router configuration.     *)
(***************************************************************************)
OrdersStayAddressable ==
    \A s \in Sources, cl \in ClOrdIds :
      LET u == cl_ord_id_to_uid[s][cl] IN
      (u # None /\ Len(Targets[s]) > 0) =>
        /\ uid_to_source_session[u] = s
        /\ RouteOf(s, u) # None
        /\ dest_cl_ord_id_by_src_cl_ord_id[RouteOf(s, u)][cl] # None

(***************************************************************************)
(* A venue id is used again, at one venue or at two, only when the shared  *)
(* 64 bit generator has gone once around the venue's field: between two    *)
(* requests with one id it has drawn at least IdSpace others.              *)
(***************************************************************************)
IdsRepeatOnlyAfterRound ==
    \A m, n \in sent : (m # n /\ m.c = n.c) =>
      m.drawn + IdSpace <= n.drawn \/ n.drawn + IdSpace <= m.drawn

\* No request before m went to m's venue under m's id.
FirstOfId(m) ==
    \A n \in sent : (n.dst = m.dst /\ n.c = m.c) => m.drawn <= n.drawn

(***************************************************************************)
(* What becomes of reports when ids do repeat: the table keeps the first   *)
(* user of an id, so what a client is told under it goes to that user,     *)
(* about that user's request, however many requests have had the id since: *)
(* one client never gets another's order id.                               *)
(***************************************************************************)
ReportsGoToFirstUser ==
    \A i \in DOMAIN to_client : \A m \in sent :
      (m.dst = to_client[i].from /\ m.c = to_client[i].c /\ FirstOfId(m)) =>
        /\ m.src = to_client[i].to
        /\ m.cl = to_client[i].cl

(***************************************************************************)
(* What a cancel or replace names at the venue (o) is a request of the     *)
(* same chain at that venue: the source found the chain by one table, the  *)
(* destination session found the order by another, keyed by a client id    *)
(* that all clients of the destination share.                              *)
(***************************************************************************)
ReferencesStayInChain ==
    \A m \in sent : (m.kind # "NewOrderSingle" /\ m.uid # 0) =>
      \E n \in sent : n.uid = m.uid /\ n.dst = m.dst /\ n.c = m.o

(***************************************************************************)
(* DestinationRouterOneToOne.h: "Reject the message if destination session *)
(* is disconnected"; DestinationRouterRoundRobin.h: "Attempt the next      *)
(* available session if the current session is not connected".             *)
(***************************************************************************)
DisconnectedDestinationsGetNothing ==
    \A m \in sent : m.link # "closed"

(***************************************************************************)
(* Round robin is fair: the orders of one client differ by at most one     *)
(* between any two of its destinations.                                    *)
(***************************************************************************)
RoundRobinBalanced ==
    \A s \in Sources : Router[s] = "RoundRobin" =>
      LET orders(d) == {m \in sent : m.src = s /\ m.dst = d
                                     /\ m.kind = "NewOrderSingle"}
      IN \A i, j \in DOMAIN Targets[s] :
           Cardinality(orders(Targets[s][i]))
             <= Cardinality(orders(Targets[s][j])) + 1

=============================================================================
