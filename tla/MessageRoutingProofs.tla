------------------------ MODULE MessageRoutingProofs ------------------------
(***************************************************************************)
(* Theorems about MessageRouting, for every set of sessions, every router  *)
(* configuration, every client behaviour and every value of the bounds.    *)
(***************************************************************************)
EXTENDS MessageRouting, FiniteSetTheorems, TLAPS

-----------------------------------------------------------------------------
(* The inductive invariant.                                                *)

\* Nothing is recorded under an id not drawn yet, or under uid 0.
IdsAreFresh ==
    /\ \A u \in Uids : (u = 0 \/ u > uid) =>
         /\ uid_to_source_session[u] = None
         /\ \A s \in Sources : uid_to_destination[s][u] = None
    /\ \A d \in Destinations, c \in DestIds :
         c > uid => src_routing_info_by_dest_cl_ord_id[d][c] = None
    /\ \A m \in sent : m.uid <= uid

\* Every request went out under a drawn id of its own.
DrawnIdsDiffer ==
    /\ \A m \in sent : m.drawn <= uid /\ m.c = DestClOrdId(m.drawn)
    /\ \A m, n \in sent : m.drawn = n.drawn => m = n

\* The order table of a session only holds uids that lead back to it.
OrdersAreOwned ==
    \A s \in Sources, cl \in ClOrdIds :
      cl_ord_id_to_uid[s][cl] # None =>
        uid_to_source_session[cl_ord_id_to_uid[s][cl]] = s

\* What was sent agrees with both routers' tables.
SentIsRouted ==
    \A m \in sent : m.uid # 0 =>
      /\ uid_to_source_session[m.uid] = m.src
      /\ RouteOf(m.src, m.uid) = m.dst

\* The way back is recorded for whatever was sent, and is that of the first
\* request under the id.
InfoIsOfSent ==
    /\ \A m \in sent : src_routing_info_by_dest_cl_ord_id[m.dst][m.c] # None
    /\ \A d \in Destinations, c \in DestIds :
         src_routing_info_by_dest_cl_ord_id[d][c] # None =>
           \E m \in sent :
             /\ m.dst = d /\ m.c = c /\ FirstOfId(m)
             /\ m.cl = src_routing_info_by_dest_cl_ord_id[d][c].cl_ord_id
             /\ m.uid = src_routing_info_by_dest_cl_ord_id[d][c].uid

IInv ==
    /\ TypeOK
    /\ IdsAreFresh
    /\ OrdersAreOwned
    /\ SentIsRouted
    /\ InfoIsOfSent
    /\ DrawnIdsDiffer
    /\ OrdersStayAddressable
    /\ ReportsGoToFirstUser

-----------------------------------------------------------------------------
(* The operators the handlers are built from.                              *)

\* A table stays a table when an entry is added.
LEMMA EmplaceType ==
    ASSUME NEW K, NEW V, NEW map \in [K -> V \cup {None}],
           NEW key \in K, NEW value \in V
    PROVE  Emplace(map, key, value) \in [K -> V \cup {None}]
  BY DEF Emplace

\* Only the entry of the key can change, and only from None to the value.
LEMMA EmplaceEntry ==
    ASSUME NEW K, NEW V, NEW map \in [K -> V \cup {None}],
           NEW key \in K, NEW value \in V, NEW k \in K
    PROVE  /\ k # key => Emplace(map, key, value)[k] = map[k]
           /\ map[k] # None => Emplace(map, key, value)[k] = map[k]
           /\ map[key] = None => Emplace(map, key, value)[key] = value
  BY DEF Emplace

\* The id written into the venue's field fits the field, is no larger than
\* the id drawn, and is that id as long as it fits.
LEMMA DestClOrdIdInField ==
    ASSUME NEW n \in Nat
    PROVE  /\ DestClOrdId(n) \in DestIds
           /\ DestClOrdId(n) <= n
           /\ n < IdSpace => DestClOrdId(n) = n
<1>1. IdSpace \in Nat /\ IdSpace > 0
  BY BoundAssumption
<1>2. n % IdSpace <= n
  BY <1>1
<1> QED
  BY <1>1, <1>2 DEF DestClOrdId, DestIds

LEMMA ModRange ==
    ASSUME NEW a \in Nat, NEW b \in Nat \ {0}
    PROVE  a % b \in 0..(b - 1)
  OBVIOUS

\* A list of rejects is a list of client messages that name no venue id.
LEMMA RejectsType ==
    ASSUME NEW m \in Messages, NEW n \in Nat
    PROVE  /\ Rejects(m, n) \in Seq(ClientMessages)
           /\ \A i \in DOMAIN Rejects(m, n) : Rejects(m, n)[i].from = None
  BY DEF Rejects, Messages, ClientMessages, RejectKind

-----------------------------------------------------------------------------
(* What a router does with a request, whichever router it is.              *)

\* Where a round robin router is after its next session.
NextIndex(s) == (index[s] + 1) % Len(Targets[s])

\* The router passed m to destination d, and the cache agrees.
Passed(d, m) ==
    \/ /\ Router[m.src] = "OneToOne"
       /\ d = Targets[m.src][1]
       /\ index' = index
       /\ uid_to_destination' = uid_to_destination
    \/ /\ Router[m.src] = "RoundRobin"
       /\ m.kind = "NewOrderSingle"
       /\ Len(Targets[m.src]) > 0
       /\ d = Targets[m.src][NextIndex(m.src) + 1]
       /\ index' = [index EXCEPT ![m.src] = NextIndex(m.src)]
       /\ uid_to_destination' =
            [uid_to_destination EXCEPT ![m.src] = Emplace(@, m.uid, d)]
    \/ /\ Router[m.src] = "RoundRobin"
       /\ m.kind # "NewOrderSingle"
       /\ d = uid_to_destination[m.src][m.uid]
       /\ index' = index
       /\ uid_to_destination' = uid_to_destination

\* The request went out, or it was refused; a new order is only refused by a
\* round robin router without destinations.
RequestOutcome(m, n) ==
    /\ index' \in [Sources -> Nat]
    /\ \/ \E d \in Destinations :
            /\ Passed(d, m) /\ uid' = n
            /\ procoess_message_to_transport(d, m, n)
       \/ /\ uid' \in {n - 1, n}
          /\ Refuse(m)
          /\ UNCHANGED <<index, uid_to_destination>>
          /\ m.kind = "NewOrderSingle" => Len(Targets[m.src]) = 0

Request(m) ==
    /\ m \in Messages
    /\ m.kind # "NewOrderSingle" => m.orig \in ClOrdIds

\* A new order that reaches a destination session is sent: the validator
\* rejects nothing and there is no original to look up.
LEMMA SessionOutcome ==
    ASSUME NEW d, NEW m, NEW u, on_message_from_peer(d, m, u)
    PROVE  /\ uid' = get_next_uid(u)
           /\ \/ procoess_message_to_transport(d, m, get_next_uid(u))
              \/ (Refuse(m) /\ m.kind # "NewOrderSingle")
  BY DEF on_message_from_peer, InvalidOriginal, ValidationFails, is_enabled

LEMMA OneToOneOutcome ==
    ASSUME TypeOK, NEW m, Request(m), NEW u \in Nat,
           Router[m.src] = "OneToOne", OneToOne(m, u)
    PROVE  RequestOutcome(m, get_next_uid(u))
<1> DEFINE d == Targets[m.src][1]
<1>1. d \in Destinations /\ Len(Targets[m.src]) = 1
  BY RouterAssumption DEF Request, Messages
<1>2. on_message_from_peer(d, m, u) /\ UNCHANGED <<index, uid_to_destination>>
  BY DEF OneToOne, is_connected
<1>3. /\ uid' = get_next_uid(u)
      /\ \/ procoess_message_to_transport(d, m, get_next_uid(u))
         \/ (Refuse(m) /\ m.kind # "NewOrderSingle")
  BY <1>2, SessionOutcome
<1> QED
  BY <1>1, <1>2, <1>3 DEF RequestOutcome, Passed, TypeOK

LEMMA FirstEventOutcome ==
    ASSUME TypeOK, NEW m, Request(m), NEW u \in Nat,
           Router[m.src] = "RoundRobin", m.kind = "NewOrderSingle",
           RoundRobinFirstEvent(m, u)
    PROVE  RequestOutcome(m, get_next_uid(u))
<1> DEFINE size == Len(Targets[m.src])
           probe(k) == get_next_session(index[m.src], k, size)
           destination(k) == Targets[m.src][probe(k) + 1]
<1>1. Targets[m.src] \in Seq(Destinations) /\ size \in Nat
      /\ index[m.src] \in Nat
  BY RouterAssumption DEF Request, Messages, TypeOK
<1>2. CASE \E k \in 1..size :
             /\ \A j \in 1..(k - 1) : ~is_connected(destination(j))
             /\ index' = [index EXCEPT ![m.src] = probe(k)]
             /\ on_message_from_peer(destination(k), m, u)
             /\ uid_to_destination' =
                  [uid_to_destination EXCEPT
                     ![m.src] = Emplace(@, m.uid, destination(k))]
  <2>1. PICK k \in 1..size :
             /\ \A j \in 1..(k - 1) : ~is_connected(destination(j))
             /\ index' = [index EXCEPT ![m.src] = probe(k)]
             /\ on_message_from_peer(destination(k), m, u)
             /\ uid_to_destination' =
                  [uid_to_destination EXCEPT
                     ![m.src] = Emplace(@, m.uid, destination(k))]
    BY <1>2
  <2>2. probe(k) \in 0..(size - 1)
    <3>1. index[m.src] + k \in Nat /\ size \in Nat \ {0}
      BY <1>1
    <3> QED
      BY <3>1, ModRange DEF get_next_session
  <2>3. destination(k) \in Destinations
    BY <1>1, <2>2
  <2>4. index' \in [Sources -> Nat]
    <3>1. probe(k) \in Nat
      BY <1>1, <2>2
    <3> HIDE DEF probe
    <3> QED
      BY <2>1, <3>1 DEF TypeOK
  <2>5. /\ uid' = get_next_uid(u)
        /\ procoess_message_to_transport(destination(k), m, get_next_uid(u))
    BY <2>1, SessionOutcome
  <2>6. Passed(destination(k), m)
    <3>1. k = 1 /\ size > 0
      BY <1>1, <2>1 DEF is_connected
    <3>2. probe(k) = NextIndex(m.src)
      BY <3>1 DEF get_next_session, NextIndex
    <3> QED
      BY <2>1, <3>1, <3>2 DEF Passed
  <2> QED
    BY <2>3, <2>4, <2>5, <2>6 DEF RequestOutcome
<1>3. CASE /\ \A k \in 1..size : ~is_connected(destination(k))
           /\ NotRouted(m, u)
           /\ UNCHANGED <<index, uid_to_destination>>
  <2>1. size = 0
    BY <1>1, <1>3 DEF is_connected
  <2> QED
    BY <1>3, <2>1 DEF NotRouted, RequestOutcome, TypeOK, get_next_uid
<1> QED
  BY <1>2, <1>3 DEF RoundRobinFirstEvent

LEMMA SubsequentEventOutcome ==
    ASSUME TypeOK, NEW m, Request(m), NEW u \in Nat,
           Router[m.src] = "RoundRobin", m.kind # "NewOrderSingle",
           RoundRobinSubsequentEvent(m, u)
    PROVE  RequestOutcome(m, get_next_uid(u))
<1> DEFINE d == uid_to_destination[m.src][m.uid]
<1>1. UNCHANGED <<index, uid_to_destination>> /\ index \in [Sources -> Nat]
  BY DEF RoundRobinSubsequentEvent, TypeOK
<1>2. CASE d # None
  <2>1. d \in Destinations
    BY <1>2 DEF TypeOK, Request, Messages
  <2>2. /\ uid' = get_next_uid(u)
        /\ \/ procoess_message_to_transport(d, m, get_next_uid(u))
           \/ Refuse(m)
    BY <1>2, SessionOutcome DEF RoundRobinSubsequentEvent
  <2> QED
    BY <1>1, <2>1, <2>2 DEF RequestOutcome, Passed
<1>3. CASE d = None
  BY <1>1, <1>3 DEF RoundRobinSubsequentEvent, NotRouted, RequestOutcome,
                  get_next_uid
<1> QED
  BY <1>2, <1>3

LEMMA PeerOutcome ==
    ASSUME TypeOK, NEW m, Request(m), NEW u \in Nat,
           send_message_to_peer(m, u)
    PROVE  RequestOutcome(m, get_next_uid(u))
<1>1. Router[m.src] \in {"OneToOne", "RoundRobin"}
  BY RouterAssumption DEF Request, Messages
<1>2. CASE Router[m.src] = "OneToOne"
  BY <1>2, OneToOneOutcome DEF send_message_to_peer
<1>3. CASE Router[m.src] = "RoundRobin" /\ m.kind = "NewOrderSingle"
  BY <1>3, FirstEventOutcome DEF send_message_to_peer
<1>4. CASE Router[m.src] = "RoundRobin" /\ m.kind # "NewOrderSingle"
  BY <1>4, SubsequentEventOutcome DEF send_message_to_peer
<1> QED
  BY <1>1, <1>2, <1>3, <1>4

-----------------------------------------------------------------------------
(* One step of the system is a request, a report, or a socket event.       *)

\* The handler of a request from a client, with m as it leaves the handle
\* stage and n the id a destination session would draw.
RequestStep(m, n) ==
    /\ Request(m)
    /\ n \in Nat \ {0}
    /\ n <= MaxUid
    /\ \/ /\ m.kind = "NewOrderSingle"
          /\ m.uid = uid + 1
          /\ n = uid + 2
       \/ /\ m.kind # "NewOrderSingle"
          /\ n = uid + 1
          /\ m.uid = 0 \/ m.uid = cl_ord_id_to_uid[m.src][m.orig]
    /\ IdFree(m.src, m.cl)
    /\ RequestOutcome(m, n)
    /\ update_source_routing_info(m)
    /\ link' = link

ReportStep(d, kind, c) ==
    /\ d \in Destinations
    /\ kind \in {"ExecutionReport", "CancelReject"}
    /\ c \in DestIds
    /\ procoess_message_from_transport(d, kind, c)

SocketStep ==
    /\ link' \in [Destinations -> Links]
    /\ to_client' = <<>>
    /\ UNCHANGED <<uid, routing, sent>>

LEMMA NewOrderStep ==
    ASSUME TypeOK, NEW s \in Sources, NEW cl \in ClOrdIds,
           NEW over \in Notionals, NewOrderSingle(s, cl, over)
    PROVE  \E m, n : RequestStep(m, n)
<1> DEFINE m == [src |-> s, kind |-> "NewOrderSingle", cl |-> cl,
                 orig |-> None, over |-> over, uid |-> uid + 1,
                 refused |-> FALSE]
<1>1. uid \in Nat /\ uid + 2 <= MaxUid
  BY DEF TypeOK, NewOrderSingle, Uids, get_next_uid
<1>2. m.kind = "NewOrderSingle" /\ m.uid = uid + 1 /\ IdFree(m.src, m.cl)
  BY DEF NewOrderSingle
<1>3. Request(m)
  BY <1>1, BoundAssumption DEF Request, Messages, Kinds, Uids
<1>4. send_message_to_peer(m, uid + 1) /\ update_source_routing_info(m)
      /\ link' = link
  BY DEF NewOrderSingle, get_next_uid
<1>5. uid + 2 \in Nat \ {0} /\ uid + 1 \in Nat
  BY <1>1
<1> HIDE DEF m
<1>6. RequestOutcome(m, uid + 2)
  <2>1. get_next_uid(uid + 1) = uid + 2
    BY <1>1 DEF get_next_uid
  <2> QED
    BY <1>3, <1>4, <1>5, <2>1, PeerOutcome
<1>7. RequestStep(m, uid + 2)
  BY <1>1, <1>2, <1>3, <1>4, <1>5, <1>6 DEF RequestStep
<1> QED
  BY <1>7

LEMMA SubsequentEventStep ==
    ASSUME TypeOK, NEW s \in Sources, NEW cl \in ClOrdIds,
           NEW kind \in {"CancelReplaceRequest", "CancelRequest"},
           NEW orig \in ClOrdIds, NEW over \in BOOLEAN,
           SubsequentEvent(s, kind, cl, orig, over)
    PROVE  \E m, n : RequestStep(m, n)
<1> DEFINE known == cl_ord_id_to_uid[s][orig]
           m == [src |-> s, kind |-> kind, cl |-> cl, orig |-> orig,
                 over |-> over,
                 uid |-> transform_uid_from_orig_cl_ord_id(s, orig),
                 refused |-> known = None]
<1>1. uid \in Nat /\ uid + 1 <= MaxUid /\ known \in Uids \cup {None}
  BY DEF TypeOK, SubsequentEvent, Uids, get_next_uid
<1>2. /\ m.kind # "NewOrderSingle" /\ m.orig \in ClOrdIds
      /\ m.uid = 0 \/ m.uid = cl_ord_id_to_uid[m.src][m.orig]
      /\ IdFree(m.src, m.cl)
  BY DEF SubsequentEvent, transform_uid_from_orig_cl_ord_id
<1>3. m \in Messages
  <2>1. transform_uid_from_orig_cl_ord_id(s, orig) \in Uids
    BY <1>1, BoundAssumption DEF Uids, transform_uid_from_orig_cl_ord_id
  <2> QED
    BY <2>1 DEF Messages, Kinds
<1>4. send_message_to_peer(m, uid) /\ update_source_routing_info(m)
      /\ link' = link
  BY DEF SubsequentEvent
<1>5. Request(m) /\ uid + 1 \in Nat \ {0}
  BY <1>1, <1>2, <1>3 DEF Request
<1> HIDE DEF m
<1>6. RequestOutcome(m, uid + 1)
  <2>1. get_next_uid(uid) = uid + 1
    BY DEF get_next_uid
  <2> QED
    BY <1>1, <1>4, <1>5, <2>1, PeerOutcome
<1>7. RequestStep(m, uid + 1)
  BY <1>1, <1>2, <1>4, <1>5, <1>6 DEF RequestStep
<1> QED
  BY <1>7

LEMMA StepCases ==
    ASSUME TypeOK, Next
    PROVE  \/ \E m, n : RequestStep(m, n)
           \/ \E d, kind, c : ReportStep(d, kind, c)
           \/ SocketStep
<1>1. ASSUME NEW s \in Sources, FromClient(s)
      PROVE  \E m, n : RequestStep(m, n)
  <2> PICK cl \in ClOrdIds :
        \/ \E over \in Notionals : NewOrderSingle(s, cl, over)
        \/ \E orig \in ClOrdIds, over \in Notionals :
             CancelReplaceRequest(s, cl, orig, over)
        \/ \E orig \in ClOrdIds : CancelRequest(s, cl, orig)
    BY <1>1 DEF FromClient
  <2>1. CASE \E over \in Notionals : NewOrderSingle(s, cl, over)
    BY <2>1, NewOrderStep
  <2>2. ASSUME NEW orig \in ClOrdIds, NEW over \in Notionals,
               CancelReplaceRequest(s, cl, orig, over)
        PROVE  \E m, n : RequestStep(m, n)
    <3>1. over \in BOOLEAN
      BY BoundAssumption
    <3> QED
      BY <2>2, <3>1, SubsequentEventStep DEF CancelReplaceRequest
  <2>3. ASSUME NEW orig \in ClOrdIds, CancelRequest(s, cl, orig)
        PROVE  \E m, n : RequestStep(m, n)
    BY <2>3, SubsequentEventStep DEF CancelRequest
  <2> QED
    BY <2>1, <2>2, <2>3
<1>2. ASSUME NEW d \in Destinations, FromVenue(d)
      PROVE  \E e, kind, c : ReportStep(e, kind, c)
  <2>1. PICK m \in Received(d) :
          ExecutionReport(d, m.c) \/ CancelReject(d, m.c)
    BY <1>2 DEF FromVenue
  <2>2. m.c \in DestIds
    BY DEF Received, TypeOK, SentMessages
  <2>3. \/ ReportStep(d, "ExecutionReport", m.c)
        \/ ReportStep(d, "CancelReject", m.c)
    BY <2>1, <2>2 DEF ExecutionReport, CancelReject, ReportStep
  <2> QED
    BY <2>3
<1>3. ASSUME NEW d \in Destinations, Socket(d)
      PROVE  SocketStep
  BY <1>3 DEF Socket, Established, Disconnected, SocketStep, TypeOK, Links
<1> QED
  BY <1>1, <1>2, <1>3 DEF Next

-----------------------------------------------------------------------------
(* Type correctness.                                                       *)

LEMMA SendKeepsTypes ==
    ASSUME TypeOK, NEW m, Request(m), NEW d \in Destinations,
           NEW n \in Uids, procoess_message_to_transport(d, m, n)
    PROVE  /\ sent' \subseteq SentMessages
           /\ dest_cl_ord_id_by_src_cl_ord_id' \in
                [Destinations -> [ClOrdIds -> DestIds \cup {None}]]
           /\ src_routing_info_by_dest_cl_ord_id' \in
                [Destinations -> [DestIds -> RoutingInfo \cup {None}]]
           /\ to_client' \in Seq(ClientMessages)
<1> DEFINE c == DestClOrdId(n)
           o == IF m.kind = "NewOrderSingle" THEN None
                ELSE dest_cl_ord_id_by_src_cl_ord_id[d][m.orig]
           new == [dst |-> d, c |-> c, o |-> o, drawn |-> n,
                   link |-> link[d], src |-> m.src, kind |-> m.kind,
                   cl |-> m.cl, over |-> m.over, uid |-> m.uid,
                   refused |-> m.refused]
           info == [cl_ord_id |-> m.cl, uid |-> m.uid]
<1>1. m \in Messages
  BY DEF Request
<1>0. c \in DestIds
  BY DestClOrdIdInField, BoundAssumption DEF Uids
<1>2. sent' \subseteq SentMessages
  <2>1. o \in DestIds \cup {None}
    BY DEF TypeOK, Request
  <2>2. new \in SentMessages
    <3> HIDE DEF o, c
    <3> QED
      BY <1>0, <1>1, <2>1 DEF TypeOK, SentMessages, Messages
  <2> HIDE DEF new
  <2>3. sent' = sent \cup {new}
    BY DEF procoess_message_to_transport, update_destination_routing_info, new
  <2> QED
    BY <2>2, <2>3 DEF TypeOK
<1>3. dest_cl_ord_id_by_src_cl_ord_id' \in
        [Destinations -> [ClOrdIds -> DestIds \cup {None}]]
  <2>1. Emplace(dest_cl_ord_id_by_src_cl_ord_id[d], m.cl, c)
          \in [ClOrdIds -> DestIds \cup {None}]
    BY <1>0, <1>1, EmplaceType DEF TypeOK, Messages
  <2> QED
    BY <2>1
    DEF procoess_message_to_transport, update_destination_routing_info, TypeOK
<1>4. src_routing_info_by_dest_cl_ord_id' \in
        [Destinations -> [DestIds -> RoutingInfo \cup {None}]]
  <2>1. info \in RoutingInfo
    BY <1>1 DEF Messages, RoutingInfo
  <2> HIDE DEF info
  <2>2. Emplace(src_routing_info_by_dest_cl_ord_id[d], c, info)
          \in [DestIds -> RoutingInfo \cup {None}]
    BY <1>0, <2>1, EmplaceType DEF TypeOK
  <2>3. src_routing_info_by_dest_cl_ord_id' =
          [src_routing_info_by_dest_cl_ord_id EXCEPT
             ![d] = Emplace(@, c, info)]
    BY DEF procoess_message_to_transport, update_destination_routing_info, info
  <2> QED
    BY <2>2, <2>3 DEF TypeOK
<1>5. to_client' \in Seq(ClientMessages)
  BY <1>1, RejectsType
  DEF procoess_message_to_transport, update_destination_routing_info
<1> QED
  BY <1>2, <1>3, <1>4, <1>5

LEMMA PassedKeepsTypes ==
    ASSUME TypeOK, NEW m, Request(m), NEW d \in Destinations, Passed(d, m)
    PROVE  uid_to_destination' \in [Sources -> [Uids -> Destinations \cup {None}]]
<1>1. m \in Messages
  BY DEF Request
<1>2. Emplace(uid_to_destination[m.src], m.uid, d)
        \in [Uids -> Destinations \cup {None}]
  BY <1>1, EmplaceType DEF TypeOK, Messages
<1> QED
  BY <1>1, <1>2 DEF Passed, TypeOK

LEMMA UpdateKeepsTypes ==
    ASSUME TypeOK, NEW m, Request(m), update_source_routing_info(m)
    PROVE  /\ cl_ord_id_to_uid' \in [Sources -> [ClOrdIds -> Uids \cup {None}]]
           /\ uid_to_source_session' \in [Uids -> Sources \cup {None}]
<1>1. m \in Messages
  BY DEF Request
<1>2. Emplace(uid_to_source_session, m.uid, m.src)
        \in [Uids -> Sources \cup {None}]
  BY <1>1, EmplaceType DEF TypeOK, Messages
<1>3. Emplace(cl_ord_id_to_uid[m.src], m.cl, m.uid)
        \in [ClOrdIds -> Uids \cup {None}]
  BY <1>1, EmplaceType DEF TypeOK, Messages
<1> QED
  BY <1>1, <1>2, <1>3 DEF update_source_routing_info, TypeOK

LEMMA RequestKeepsTypes ==
    ASSUME TypeOK, NEW m, NEW n, RequestStep(m, n)
    PROVE  TypeOK'
<1>1. Request(m) /\ m \in Messages /\ n \in Nat \ {0} /\ n <= MaxUid
      /\ link' = link /\ update_source_routing_info(m)
      /\ RequestOutcome(m, n)
  BY DEF RequestStep, Request
<1>2. /\ cl_ord_id_to_uid' \in [Sources -> [ClOrdIds -> Uids \cup {None}]]
      /\ uid_to_source_session' \in [Uids -> Sources \cup {None}]
  BY <1>1, UpdateKeepsTypes
<1>3. index' \in [Sources -> Nat]
  BY <1>1 DEF RequestOutcome
<1>4. link' \in [Destinations -> Links]
  BY <1>1 DEF TypeOK
<1>5. CASE \E d \in Destinations :
             /\ Passed(d, m) /\ uid' = n
             /\ procoess_message_to_transport(d, m, n)
  <2>1. PICK d \in Destinations :
             /\ Passed(d, m) /\ uid' = n
             /\ procoess_message_to_transport(d, m, n)
    BY <1>5
  <2>2. uid' \in Uids
    BY <1>1, <2>1, BoundAssumption DEF Uids
  <2>3. n \in Uids
    BY <1>1, BoundAssumption DEF Uids
  <2>4. /\ sent' \subseteq SentMessages
        /\ dest_cl_ord_id_by_src_cl_ord_id' \in
             [Destinations -> [ClOrdIds -> DestIds \cup {None}]]
        /\ src_routing_info_by_dest_cl_ord_id' \in
             [Destinations -> [DestIds -> RoutingInfo \cup {None}]]
        /\ to_client' \in Seq(ClientMessages)
    BY <1>1, <2>1, <2>3, SendKeepsTypes
  <2>5. uid_to_destination' \in [Sources -> [Uids -> Destinations \cup {None}]]
    BY <1>1, <2>1, PassedKeepsTypes
  <2> QED
    BY <1>2, <1>3, <1>4, <2>2, <2>4, <2>5 DEF TypeOK
<1>6. CASE /\ uid' \in {n - 1, n}
           /\ Refuse(m)
           /\ uid_to_destination' = uid_to_destination
  <2>1. uid' \in Uids
    BY <1>1, <1>6, BoundAssumption DEF Uids
  <2>2. to_client' \in Seq(ClientMessages)
    BY <1>1, <1>6, RejectsType DEF Refuse
  <2> QED
    BY <1>2, <1>3, <1>4, <1>6, <2>1, <2>2 DEF TypeOK, Refuse
<1> QED
  BY <1>1, <1>5, <1>6 DEF RequestOutcome

LEMMA ReportKeepsTypes ==
    ASSUME TypeOK, NEW d, NEW kind, NEW c, ReportStep(d, kind, c)
    PROVE  TypeOK'
<1> DEFINE info == src_routing_info_by_dest_cl_ord_id[d][c]
           s == uid_to_source_session[IF info # None THEN info.uid ELSE 0]
           cl == IF info # None THEN info.cl_ord_id ELSE None
           report == [to |-> s, kind |-> kind, cl |-> cl, from |-> d, c |-> c]
<1>1. /\ d \in Destinations /\ c \in DestIds
      /\ kind \in {"ExecutionReport", "CancelReject"}
  BY DEF ReportStep
<1>2. info \in RoutingInfo \cup {None}
  BY <1>1 DEF TypeOK
<1>3. s \in Sources \cup {None} /\ cl \in ClOrdIds \cup {None}
  BY <1>2, BoundAssumption DEF TypeOK, RoutingInfo, Uids
<1>4. to_client' = IF s = None THEN <<>> ELSE <<report>>
  BY DEF ReportStep, procoess_message_from_transport,
     handle_cl_ord_id_from_destination, send_message_to_source
<1>5. s # None => report \in ClientMessages
  <2> HIDE DEF s, cl
  <2> QED
    BY <1>1, <1>3 DEF ClientMessages
<1>6. to_client' \in Seq(ClientMessages)
  <2> HIDE DEF report, s
  <2> QED
    BY <1>4, <1>5
<1> QED
  BY <1>6 DEF ReportStep, procoess_message_from_transport,
     handle_cl_ord_id_from_destination, send_message_to_source, TypeOK, routing

LEMMA SocketKeepsTypes ==
    ASSUME TypeOK, SocketStep
    PROVE  TypeOK'
  BY DEF SocketStep, TypeOK, routing

LEMMA InitTypes ==
    ASSUME Init
    PROVE  TypeOK
  BY BoundAssumption
  DEF Init, TypeOK, NoClOrdIds, NoUids, NoDestIds, Uids, Links

\* Every table keeps its type whatever the clients, the venues and the links
\* do, however the routers are configured.
THEOREM TypeCorrect == Spec => []TypeOK
<1>1. ASSUME TypeOK, [Next]_vars
      PROVE  TypeOK'
  <2>1. CASE Next
    BY <1>1, <2>1, StepCases, RequestKeepsTypes, ReportKeepsTypes,
       SocketKeepsTypes
  <2>2. CASE UNCHANGED vars
    BY <1>1, <2>2 DEF vars, routing, TypeOK
  <2> QED
    BY <1>1, <2>1, <2>2
<1> QED
  BY InitTypes, <1>1, PTL DEF Spec

-----------------------------------------------------------------------------
(* What a request changes in the tables, entry by entry.                   *)

\* The source tables: known entries stay, a new order is recorded under its
\* fresh uid, and nothing else changes.
LEMMA UpdateEntries ==
    ASSUME TypeOK, IdsAreFresh, NEW m, NEW n, RequestStep(m, n)
    PROVE  /\ \A u \in Uids :
                (u # m.uid \/ m.kind # "NewOrderSingle") =>
                  uid_to_source_session'[u] = uid_to_source_session[u]
           /\ m.kind = "NewOrderSingle" =>
                /\ uid_to_source_session[m.uid] = None
                /\ uid_to_source_session'[m.uid] = m.src
           /\ \A s \in Sources, cl \in ClOrdIds :
                \/ cl_ord_id_to_uid'[s][cl] = cl_ord_id_to_uid[s][cl]
                \/ /\ m.kind = "NewOrderSingle"
                   /\ s = m.src /\ cl = m.cl
                   /\ cl_ord_id_to_uid'[s][cl] = m.uid
<1>1. m \in Messages /\ m.uid \in Uids /\ m.src \in Sources
      /\ m.cl \in ClOrdIds /\ update_source_routing_info(m)
  BY DEF RequestStep, Request, Messages
<1>2. CASE m.kind # "NewOrderSingle"
  BY <1>1, <1>2 DEF update_source_routing_info
<1>3. CASE m.kind = "NewOrderSingle"
  <2>1. uid_to_source_session[m.uid] = None
    BY <1>1, <1>3 DEF RequestStep, IdsAreFresh, TypeOK, Uids
  <2>2. uid_to_source_session' = [uid_to_source_session EXCEPT ![m.uid] = m.src]
    BY <1>1, <1>3, <2>1 DEF update_source_routing_info, Emplace
  <2>3. \A s \in Sources, cl \in ClOrdIds :
          \/ cl_ord_id_to_uid'[s][cl] = cl_ord_id_to_uid[s][cl]
          \/ s = m.src /\ cl = m.cl /\ cl_ord_id_to_uid'[s][cl] = m.uid
    BY <1>1, <1>3 DEF update_source_routing_info, Emplace, TypeOK
  <2> QED
    BY <1>1, <1>3, <2>1, <2>2, <2>3 DEF TypeOK
<1> QED
  BY <1>2, <1>3

\* The round robin caches: only the entry of a new order is written, and the
\* route of the request is the destination it was passed to.
LEMMA RouteEntries ==
    ASSUME TypeOK, IdsAreFresh, NEW m, NEW n, RequestStep(m, n),
           NEW d \in Destinations, Passed(d, m)
    PROVE  /\ \A s \in Sources, u \in Uids :
                (u # m.uid \/ m.kind # "NewOrderSingle") =>
                  uid_to_destination'[s][u] = uid_to_destination[s][u]
           /\ \A s \in Sources : s # m.src =>
                uid_to_destination'[s] = uid_to_destination[s]
           /\ RouteOf(m.src, m.uid)' = d
<1>1. m \in Messages /\ m.uid \in Uids /\ m.src \in Sources
  BY DEF RequestStep, Request, Messages
<1>2. CASE /\ uid_to_destination' = uid_to_destination
           /\ d = RouteOf(m.src, m.uid)
  BY <1>1, <1>2 DEF RouteOf
<1>3. CASE /\ Router[m.src] = "RoundRobin"
           /\ m.kind = "NewOrderSingle"
           /\ uid_to_destination' =
                [uid_to_destination EXCEPT ![m.src] = Emplace(@, m.uid, d)]
  <2>1. uid_to_destination[m.src][m.uid] = None
    BY <1>1, <1>3 DEF RequestStep, IdsAreFresh, TypeOK, Uids
  <2>2. Emplace(uid_to_destination[m.src], m.uid, d) =
          [uid_to_destination[m.src] EXCEPT ![m.uid] = d]
    BY <2>1 DEF Emplace
  <2>3. uid_to_destination' =
          [uid_to_destination EXCEPT
             ![m.src] = [uid_to_destination[m.src] EXCEPT ![m.uid] = d]]
    BY <1>3, <2>2
  <2> QED
    BY <1>1, <1>3, <2>3 DEF RouteOf, TypeOK
<1> QED
  BY <1>2, <1>3 DEF Passed, RouteOf

\* The request as procoess_message_to_transport adds it to the history.
Record(d, m, n) ==
    [dst |-> d, c |-> DestClOrdId(n),
     o |-> IF m.kind = "NewOrderSingle" THEN None
           ELSE dest_cl_ord_id_by_src_cl_ord_id[d][m.orig],
     drawn |-> n, link |-> link[d], src |-> m.src, kind |-> m.kind,
     cl |-> m.cl, over |-> m.over, uid |-> m.uid, refused |-> m.refused]

\* The destination tables: the way back is written under the id if it is the
\* first of it, the client id is known afterwards, and nothing known is
\* forgotten.
LEMMA SendEntries ==
    ASSUME TypeOK, NEW m, NEW n, RequestStep(m, n),
           NEW d \in Destinations, procoess_message_to_transport(d, m, n)
    PROVE  /\ n \in Uids /\ uid < n
           /\ DestClOrdId(n) \in DestIds /\ DestClOrdId(n) <= n
           /\ sent' = sent \cup {Record(d, m, n)}
           /\ src_routing_info_by_dest_cl_ord_id[d][DestClOrdId(n)] = None =>
                src_routing_info_by_dest_cl_ord_id'[d][DestClOrdId(n)] =
                  [cl_ord_id |-> m.cl, uid |-> m.uid]
           /\ \A e \in Destinations, c \in DestIds :
                (\/ e # d \/ c # DestClOrdId(n)
                 \/ src_routing_info_by_dest_cl_ord_id[e][c] # None) =>
                  src_routing_info_by_dest_cl_ord_id'[e][c] =
                    src_routing_info_by_dest_cl_ord_id[e][c]
           /\ dest_cl_ord_id_by_src_cl_ord_id'[d][m.cl] # None
           /\ \A e \in Destinations, cl \in ClOrdIds :
                dest_cl_ord_id_by_src_cl_ord_id[e][cl] # None =>
                  dest_cl_ord_id_by_src_cl_ord_id'[e][cl] # None
<1> DEFINE info == [cl_ord_id |-> m.cl, uid |-> m.uid]
           id == DestClOrdId(n)
<1>1. m \in Messages /\ m.cl \in ClOrdIds
  BY DEF RequestStep, Request, Messages
<1>2. n \in Nat /\ n \in Uids /\ uid < n
  BY BoundAssumption DEF RequestStep, TypeOK, Uids
<1>3. id \in DestIds /\ id <= n /\ id # None
  BY <1>2, DestClOrdIdInField, NoneAssumption, BoundAssumption DEF DestIds
<1>4. /\ src_routing_info_by_dest_cl_ord_id' =
           [src_routing_info_by_dest_cl_ord_id EXCEPT
              ![d] = Emplace(src_routing_info_by_dest_cl_ord_id[d], id, info)]
      /\ dest_cl_ord_id_by_src_cl_ord_id' =
           [dest_cl_ord_id_by_src_cl_ord_id EXCEPT
              ![d] = Emplace(dest_cl_ord_id_by_src_cl_ord_id[d], m.cl, id)]
  BY DEF procoess_message_to_transport, update_destination_routing_info
<1>5. sent' = sent \cup {Record(d, m, n)}
  BY DEF procoess_message_to_transport, update_destination_routing_info, Record
<1> HIDE DEF info, id
<1>6. /\ src_routing_info_by_dest_cl_ord_id[d][id] = None =>
           src_routing_info_by_dest_cl_ord_id'[d][id] = info
      /\ \A e \in Destinations, c \in DestIds :
           (\/ e # d \/ c # id
            \/ src_routing_info_by_dest_cl_ord_id[e][c] # None) =>
             src_routing_info_by_dest_cl_ord_id'[e][c] =
               src_routing_info_by_dest_cl_ord_id[e][c]
  BY <1>3, <1>4 DEF TypeOK, Emplace
<1>7. /\ dest_cl_ord_id_by_src_cl_ord_id'[d][m.cl] # None
      /\ \A e \in Destinations, cl \in ClOrdIds :
           dest_cl_ord_id_by_src_cl_ord_id[e][cl] # None =>
             dest_cl_ord_id_by_src_cl_ord_id'[e][cl] # None
  BY <1>1, <1>3, <1>4 DEF Emplace, TypeOK
<1> QED
  BY <1>2, <1>3, <1>5, <1>6, <1>7 DEF info, id

-----------------------------------------------------------------------------
(* The inductive invariant: a request that is sent.                        *)

LEMMA SentKeepsInv ==
    ASSUME IInv, NEW m, NEW n, RequestStep(m, n), NEW d \in Destinations,
           Passed(d, m), uid' = n,
           procoess_message_to_transport(d, m, n),
           TypeOK'
    PROVE  IInv'
<1> DEFINE id == DestClOrdId(n)
<1>0. PICK new : new = Record(d, m, n)
  OBVIOUS
<1>1. /\ m \in Messages /\ m.uid \in Uids /\ m.src \in Sources
      /\ m.cl \in ClOrdIds
  BY DEF RequestStep, Request, Messages
<1>2. /\ uid \in Nat /\ n \in Nat /\ uid < n /\ n <= MaxUid
      /\ id \in DestIds /\ id \in Nat /\ id <= n
      /\ m.uid <= n /\ m.uid # n
      /\ m.kind = "NewOrderSingle" => m.uid = uid + 1
      /\ m.kind # "NewOrderSingle" => m.uid <= uid
  <2>1. /\ uid \in Nat /\ uid <= MaxUid /\ n \in Nat /\ n <= MaxUid
        /\ id \in DestIds /\ id \in Nat /\ id <= n /\ uid < n
    <3>1. uid \in Nat /\ uid <= MaxUid /\ n \in Nat /\ n <= MaxUid
      BY BoundAssumption DEF IInv, TypeOK, Uids, RequestStep
    <3>2. id \in DestIds /\ id <= n /\ uid < n
      BY SendEntries DEF IInv
    <3> QED
      BY <3>1, <3>2, BoundAssumption DEF DestIds
  <2>2. m.kind # "NewOrderSingle" => m.uid <= uid
    <3>1. SUFFICES ASSUME m.kind # "NewOrderSingle", m.uid # 0
                   PROVE  m.uid <= uid
      BY <2>1
    <3>2. PICK cl \in ClOrdIds : m.uid = cl_ord_id_to_uid[m.src][cl]
      BY <3>1 DEF RequestStep, Request
    <3>3. uid_to_source_session[m.uid] = m.src
      BY <1>1, <3>2, BoundAssumption, NoneAssumption
      DEF IInv, OrdersAreOwned, Uids
    <3> QED
      BY <1>1, <2>1, <3>3, NoneAssumption, BoundAssumption
      DEF IInv, IdsAreFresh, Uids
  <2> QED
    BY <1>1, <2>1, <2>2, BoundAssumption DEF RequestStep, Uids
<1>3. /\ \A u \in Uids : (u # m.uid \/ m.kind # "NewOrderSingle") =>
           uid_to_source_session'[u] = uid_to_source_session[u]
      /\ m.kind = "NewOrderSingle" =>
           /\ uid_to_source_session[m.uid] = None
           /\ uid_to_source_session'[m.uid] = m.src
      /\ \A s \in Sources, cl \in ClOrdIds :
           \/ cl_ord_id_to_uid'[s][cl] = cl_ord_id_to_uid[s][cl]
           \/ /\ m.kind = "NewOrderSingle"
              /\ s = m.src /\ cl = m.cl
              /\ cl_ord_id_to_uid'[s][cl] = m.uid
  BY UpdateEntries DEF IInv
<1>4. /\ \A s \in Sources, u \in Uids :
           (u # m.uid \/ m.kind # "NewOrderSingle") =>
             uid_to_destination'[s][u] = uid_to_destination[s][u]
      /\ \A s \in Sources : s # m.src =>
           uid_to_destination'[s] = uid_to_destination[s]
      /\ RouteOf(m.src, m.uid)' = d
  BY RouteEntries DEF IInv
<1>5. /\ sent' = sent \cup {new}
      /\ src_routing_info_by_dest_cl_ord_id[d][id] = None =>
           src_routing_info_by_dest_cl_ord_id'[d][id] =
             [cl_ord_id |-> m.cl, uid |-> m.uid]
      /\ \A e \in Destinations, c \in DestIds :
           (\/ e # d \/ c # id
            \/ src_routing_info_by_dest_cl_ord_id[e][c] # None) =>
             src_routing_info_by_dest_cl_ord_id'[e][c] =
               src_routing_info_by_dest_cl_ord_id[e][c]
      /\ dest_cl_ord_id_by_src_cl_ord_id'[d][m.cl] # None
      /\ \A e \in Destinations, cl \in ClOrdIds :
           dest_cl_ord_id_by_src_cl_ord_id[e][cl] # None =>
             dest_cl_ord_id_by_src_cl_ord_id'[e][cl] # None
  BY <1>0, SendEntries DEF IInv
<1>6. /\ new.dst = d /\ new.c = id /\ new.drawn = n
      /\ new.src = m.src /\ new.cl = m.cl /\ new.uid = m.uid
  BY <1>0 DEF Record
<1>7. m.uid # 0 => uid_to_source_session'[m.uid] = m.src
  <2>1. CASE m.kind = "NewOrderSingle"
    BY <1>3, <2>1
  <2>2. CASE m.kind # "NewOrderSingle" /\ m.uid # 0
    <3>1. PICK cl \in ClOrdIds : m.uid = cl_ord_id_to_uid[m.src][cl]
      BY <2>2 DEF RequestStep, Request
    <3>2. uid_to_source_session[m.uid] = m.src
      BY <1>1, <3>1, BoundAssumption, NoneAssumption
      DEF IInv, OrdersAreOwned, Uids
    <3> QED
      BY <1>1, <1>3, <2>2, <3>2
  <2> QED
    BY <2>1, <2>2
<1> HIDE DEF id
\* A route other than the new order's own is what it was.
<1>8. \A s \in Sources, u \in Uids :
        (u # m.uid \/ m.kind # "NewOrderSingle") =>
          RouteOf(s, u)' = RouteOf(s, u)
  BY <1>4 DEF RouteOf
<1>9. IdsAreFresh'
  <2>1. ASSUME NEW u \in Uids, u = 0 \/ u > uid'
        PROVE  /\ uid_to_source_session'[u] = None
               /\ \A s \in Sources : uid_to_destination'[s][u] = None
    <3>1. (u = 0 \/ u > uid) /\ (u # m.uid \/ m.kind # "NewOrderSingle")
      BY <1>1, <1>2, <2>1, BoundAssumption DEF Uids
    <3>2. /\ uid_to_source_session[u] = None
          /\ \A s \in Sources : uid_to_destination[s][u] = None
      BY <3>1 DEF IInv, IdsAreFresh
    <3> QED
      BY <1>3, <1>4, <3>1, <3>2
  <2>2. ASSUME NEW e \in Destinations, NEW c \in DestIds, c > uid'
        PROVE  src_routing_info_by_dest_cl_ord_id'[e][c] = None
    <3>1. c > uid /\ c # id
      BY <1>2, <2>2, BoundAssumption DEF DestIds
    <3> QED
      BY <1>5, <3>1 DEF IInv, IdsAreFresh
  <2>3. ASSUME NEW k \in sent'
        PROVE  k.uid <= uid'
    <3>1. CASE k = new
      BY <1>2, <1>6, <3>1
    <3>2. CASE k \in sent
      <4>1. k.uid \in Nat /\ k.uid <= uid
        BY <3>2, BoundAssumption
        DEF IInv, IdsAreFresh, TypeOK, SentMessages, Uids
      <4> QED
        BY <1>2, <4>1
    <3> QED
      BY <1>5, <2>3, <3>1, <3>2
  <2> QED
    BY <2>1, <2>2, <2>3 DEF IdsAreFresh
<1>10. OrdersAreOwned'
  <2>1. SUFFICES ASSUME NEW s \in Sources, NEW cl \in ClOrdIds,
                        cl_ord_id_to_uid'[s][cl] # None
                 PROVE  uid_to_source_session'[cl_ord_id_to_uid'[s][cl]] = s
    BY DEF OrdersAreOwned
  <2>2. CASE /\ m.kind = "NewOrderSingle" /\ s = m.src
             /\ cl_ord_id_to_uid'[s][cl] = m.uid
    BY <1>3, <2>2
  <2>3. CASE cl_ord_id_to_uid'[s][cl] = cl_ord_id_to_uid[s][cl]
    <3> DEFINE u == cl_ord_id_to_uid[s][cl]
    <3>1. u \in Uids /\ uid_to_source_session[u] = s
      BY <2>1, <2>3 DEF IInv, TypeOK, OrdersAreOwned
    <3>2. u # m.uid \/ m.kind # "NewOrderSingle"
      BY <1>3, <2>1, <3>1, NoneAssumption
    <3> QED
      BY <1>3, <2>3, <3>1, <3>2
  <2> QED
    BY <1>3, <2>2, <2>3
<1>11. SentIsRouted'
  <2>1. SUFFICES ASSUME NEW k \in sent', k.uid # 0
                 PROVE  /\ uid_to_source_session'[k.uid] = k.src
                        /\ RouteOf(k.src, k.uid)' = k.dst
    BY DEF SentIsRouted, RouteOf
  <2>2. CASE k = new
    BY <1>4, <1>6, <1>7, <2>1, <2>2
  <2>3. CASE k \in sent
    <3>1. /\ k.uid \in Uids /\ k.src \in Sources /\ k.uid <= uid
          /\ uid_to_source_session[k.uid] = k.src
          /\ RouteOf(k.src, k.uid) = k.dst
      BY <2>1, <2>3
      DEF IInv, TypeOK, SentMessages, SentIsRouted, IdsAreFresh
    <3>2. k.uid # m.uid \/ m.kind # "NewOrderSingle"
      BY <1>2, <3>1
    <3> QED
      BY <1>3, <1>8, <3>1, <3>2
  <2> QED
    BY <1>5, <2>1, <2>2, <2>3
<1>12. DrawnIdsDiffer'
  <2>1. \A k \in sent : /\ k.drawn \in Nat /\ k.drawn <= uid
                         /\ k.c = DestClOrdId(k.drawn)
    BY BoundAssumption DEF IInv, DrawnIdsDiffer, TypeOK, SentMessages, Uids
  <2>2. \A k \in sent : k.drawn < n /\ k.drawn <= uid'
    BY <1>2, <2>1
  <2>3. new.drawn <= uid' /\ new.c = DestClOrdId(new.drawn)
    BY <1>2, <1>6 DEF id
  <2>4. \A x, y \in sent' : x.drawn = y.drawn => x = y
    BY <1>2, <1>5, <1>6, <2>1, <2>2 DEF IInv, DrawnIdsDiffer
  <2> QED
    BY <1>5, <2>1, <2>2, <2>3, <2>4 DEF DrawnIdsDiffer
<1>13. InfoIsOfSent'
  <2>1. \A k \in sent : k.dst \in Destinations /\ k.c \in DestIds
    BY DEF IInv, TypeOK, SentMessages
  <2>2. \A k \in sent : k.drawn \in Nat /\ k.drawn < n
    <3>1. \A k \in sent : k.drawn \in Nat /\ k.drawn <= uid
      BY BoundAssumption DEF IInv, DrawnIdsDiffer, TypeOK, SentMessages, Uids
    <3> QED
      BY <1>2, <3>1
  <2>3. ASSUME NEW k \in sent'
        PROVE  src_routing_info_by_dest_cl_ord_id'[k.dst][k.c] # None
    <3>1. CASE k \in sent
      BY <1>5, <2>1, <3>1 DEF IInv, InfoIsOfSent
    <3>2. CASE k = new
      <4>1. [cl_ord_id |-> m.cl, uid |-> m.uid] # None
        <5>1. m.uid \in Nat
          BY <1>1, BoundAssumption DEF Uids
        <5> QED
          BY <1>1, <5>1, NoneAssumption
      <4>2. src_routing_info_by_dest_cl_ord_id'[d][id] # None
        BY <1>2, <1>5, <4>1
      <4> QED
        BY <1>6, <3>2, <4>2
    <3> QED
      BY <1>5, <2>3, <3>1, <3>2
  \* A request of before is the first of its id still.
  <2>4. \A k \in sent : FirstOfId(k) => FirstOfId(k)'
    <3> SUFFICES ASSUME NEW k \in sent, FirstOfId(k), NEW x \in sent',
                        x.dst = k.dst, x.c = k.c
                 PROVE  k.drawn <= x.drawn
      BY DEF FirstOfId
    <3>1. CASE x \in sent
      BY <3>1 DEF FirstOfId
    <3>2. CASE x = new
      BY <1>2, <1>6, <2>2, <3>2
    <3> QED
      BY <1>5, <3>1, <3>2
  <2>5. ASSUME NEW e \in Destinations, NEW c \in DestIds,
               src_routing_info_by_dest_cl_ord_id'[e][c] # None
        PROVE  \E k \in sent' :
          /\ k.dst = e /\ k.c = c /\ FirstOfId(k)'
          /\ k.cl = src_routing_info_by_dest_cl_ord_id'[e][c].cl_ord_id
          /\ k.uid = src_routing_info_by_dest_cl_ord_id'[e][c].uid
    <3>1. CASE /\ e = d /\ c = id
               /\ src_routing_info_by_dest_cl_ord_id[d][id] = None
      <4>1. \A k \in sent : ~(k.dst = d /\ k.c = id)
        BY <3>1 DEF IInv, InfoIsOfSent
      <4>2. FirstOfId(new)'
        <5> SUFFICES ASSUME NEW x \in sent', x.dst = new.dst, x.c = new.c
                     PROVE  new.drawn <= x.drawn
          BY DEF FirstOfId
        <5>1. x = new
          BY <1>5, <1>6, <4>1
        <5> QED
          BY <1>2, <1>6, <5>1
      <4>3. new \in sent'
        BY <1>5
      <4> QED
        BY <1>5, <1>6, <3>1, <4>2, <4>3
    <3>2. CASE \/ e # d \/ c # id
               \/ src_routing_info_by_dest_cl_ord_id[e][c] # None
      <4>1. src_routing_info_by_dest_cl_ord_id'[e][c] =
              src_routing_info_by_dest_cl_ord_id[e][c]
        BY <1>5, <3>2
      <4>2. PICK k \in sent :
              /\ k.dst = e /\ k.c = c /\ FirstOfId(k)
              /\ k.cl = src_routing_info_by_dest_cl_ord_id[e][c].cl_ord_id
              /\ k.uid = src_routing_info_by_dest_cl_ord_id[e][c].uid
        BY <2>5, <4>1 DEF IInv, InfoIsOfSent
      <4> QED
        BY <1>5, <2>4, <4>1, <4>2
    <3> QED
      BY <3>1, <3>2
  <2> QED
    BY <2>3, <2>5 DEF InfoIsOfSent
<1>14. OrdersStayAddressable'
  <2>1. SUFFICES ASSUME NEW s \in Sources, NEW cl \in ClOrdIds,
                        cl_ord_id_to_uid'[s][cl] # None, Len(Targets[s]) > 0
                 PROVE  LET r == RouteOf(s, cl_ord_id_to_uid[s][cl])' IN
                        /\ uid_to_source_session'[cl_ord_id_to_uid'[s][cl]] = s
                        /\ r # None
                        /\ dest_cl_ord_id_by_src_cl_ord_id'[r][cl] # None
    BY DEF OrdersStayAddressable, RouteOf
  <2>2. uid_to_source_session'[cl_ord_id_to_uid'[s][cl]] = s
    BY <1>10, <2>1 DEF OrdersAreOwned
  <2>3. CASE /\ m.kind = "NewOrderSingle" /\ s = m.src /\ cl = m.cl
             /\ cl_ord_id_to_uid'[s][cl] = m.uid
    <3>1. RouteOf(s, cl_ord_id_to_uid[s][cl])' = d
      BY <1>4, <2>3 DEF RouteOf
    <3> QED
      BY <1>5, <2>2, <2>3, <3>1, NoneAssumption
  <2>4. CASE cl_ord_id_to_uid'[s][cl] = cl_ord_id_to_uid[s][cl]
    <3> DEFINE u == cl_ord_id_to_uid[s][cl]
    <3>1. /\ u \in Uids /\ uid_to_source_session[u] = s
          /\ RouteOf(s, u) # None
          /\ dest_cl_ord_id_by_src_cl_ord_id[RouteOf(s, u)][cl] # None
      BY <2>1, <2>4 DEF IInv, TypeOK, OrdersStayAddressable
    <3>2. u # m.uid \/ m.kind # "NewOrderSingle"
      BY <1>3, <2>1, <3>1, NoneAssumption
    <3>3. RouteOf(s, cl_ord_id_to_uid[s][cl])' = RouteOf(s, u)
      BY <1>4, <2>4, <3>1, <3>2 DEF RouteOf
    <3>4. RouteOf(s, u) \in Destinations
      BY <2>1, <3>1, RouterAssumption DEF RouteOf, IInv, TypeOK
    <3> QED
      BY <1>5, <2>2, <3>1, <3>3, <3>4
  <2> QED
    BY <1>3, <2>3, <2>4
<1>15. ReportsGoToFirstUser'
  <2>1. \A i \in DOMAIN to_client' : to_client'[i].from = None
    BY <1>1, RejectsType
    DEF procoess_message_to_transport, update_destination_routing_info
  <2>2. \A k \in sent' : k.dst \in Destinations
    BY DEF TypeOK, SentMessages
  <2> QED
    BY <2>1, <2>2, NoneAssumption DEF ReportsGoToFirstUser
<1> QED
  BY <1>9, <1>10, <1>11, <1>12, <1>13, <1>14, <1>15 DEF IInv

-----------------------------------------------------------------------------
(* The inductive invariant: a request that is refused, a report, a socket. *)

LEMMA RefusedKeepsInv ==
    ASSUME IInv, NEW m, NEW n, RequestStep(m, n),
           uid' \in {n - 1, n}, Refuse(m),
           uid_to_destination' = uid_to_destination,
           m.kind = "NewOrderSingle" => Len(Targets[m.src]) = 0,
           TypeOK'
    PROVE  IInv'
<1>1. /\ m \in Messages /\ m.uid \in Uids /\ m.src \in Sources
      /\ m.cl \in ClOrdIds
  BY DEF RequestStep, Request, Messages
<1>2. /\ uid \in Nat /\ uid' \in Nat /\ uid <= uid'
      /\ m.kind = "NewOrderSingle" => m.uid = uid + 1 /\ m.uid <= uid'
  BY DEF RequestStep, IInv, TypeOK, Uids
<1>3. /\ \A u \in Uids : (u # m.uid \/ m.kind # "NewOrderSingle") =>
           uid_to_source_session'[u] = uid_to_source_session[u]
      /\ m.kind = "NewOrderSingle" =>
           /\ uid_to_source_session[m.uid] = None
           /\ uid_to_source_session'[m.uid] = m.src
      /\ \A s \in Sources, cl \in ClOrdIds :
           \/ cl_ord_id_to_uid'[s][cl] = cl_ord_id_to_uid[s][cl]
           \/ /\ m.kind = "NewOrderSingle"
              /\ s = m.src /\ cl = m.cl
              /\ cl_ord_id_to_uid'[s][cl] = m.uid
  BY UpdateEntries DEF IInv
<1>4. UNCHANGED <<sent, dest_cl_ord_id_by_src_cl_ord_id,
                  src_routing_info_by_dest_cl_ord_id, uid_to_destination>>
  BY DEF Refuse
<1>5. \A u \in Uids : uid_to_source_session[u] # None =>
        uid_to_source_session'[u] = uid_to_source_session[u]
  BY <1>3
<1>6. IdsAreFresh'
  <2>1. ASSUME NEW u \in Uids, u = 0 \/ u > uid'
        PROVE  /\ uid_to_source_session'[u] = None
               /\ \A s \in Sources : uid_to_destination'[s][u] = None
    <3>1. u \in Nat
      BY BoundAssumption DEF Uids
    <3>2. (u = 0 \/ u > uid) /\ (u # m.uid \/ m.kind # "NewOrderSingle")
      BY <1>2, <2>1, <3>1
    <3> QED
      BY <1>3, <1>4, <3>2 DEF IInv, IdsAreFresh
  <2>2. ASSUME NEW e \in Destinations, NEW c \in DestIds, c > uid'
        PROVE  src_routing_info_by_dest_cl_ord_id'[e][c] = None
    <3>1. c > uid
      BY <1>2, <2>2, BoundAssumption DEF DestIds
    <3> QED
      BY <1>4, <3>1 DEF IInv, IdsAreFresh
  <2>3. ASSUME NEW k \in sent'
        PROVE  k.uid <= uid'
    <3>1. k.uid \in Nat /\ k.uid <= uid
      BY <1>4, <2>3, BoundAssumption
      DEF IInv, IdsAreFresh, TypeOK, SentMessages, Uids
    <3> QED
      BY <1>2, <3>1
  <2> QED
    BY <2>1, <2>2, <2>3 DEF IdsAreFresh
<1>7. OrdersAreOwned'
  <2>1. SUFFICES ASSUME NEW s \in Sources, NEW cl \in ClOrdIds,
                        cl_ord_id_to_uid'[s][cl] # None
                 PROVE  uid_to_source_session'[cl_ord_id_to_uid'[s][cl]] = s
    BY DEF OrdersAreOwned
  <2>2. CASE /\ m.kind = "NewOrderSingle" /\ s = m.src
             /\ cl_ord_id_to_uid'[s][cl] = m.uid
    BY <1>3, <2>2
  <2>3. CASE cl_ord_id_to_uid'[s][cl] = cl_ord_id_to_uid[s][cl]
    <3>1. /\ cl_ord_id_to_uid[s][cl] \in Uids
          /\ uid_to_source_session[cl_ord_id_to_uid[s][cl]] = s
      BY <2>1, <2>3 DEF IInv, TypeOK, OrdersAreOwned
    <3> QED
      BY <1>5, <2>3, <3>1, NoneAssumption
  <2> QED
    BY <1>3, <2>2, <2>3
<1>8. SentIsRouted'
  <2>1. SUFFICES ASSUME NEW k \in sent, k.uid # 0
                 PROVE  /\ uid_to_source_session'[k.uid] = k.src
                        /\ RouteOf(k.src, k.uid)' = k.dst
    BY <1>4 DEF SentIsRouted, RouteOf
  <2>2. /\ k.uid \in Uids /\ k.src \in Sources
        /\ uid_to_source_session[k.uid] = k.src
        /\ RouteOf(k.src, k.uid) = k.dst
    BY <2>1 DEF IInv, TypeOK, SentMessages, SentIsRouted
  <2> QED
    BY <1>4, <1>5, <2>2, NoneAssumption DEF RouteOf
<1>9. InfoIsOfSent' /\ DrawnIdsDiffer'
  <2>1. InfoIsOfSent'
    BY <1>4 DEF IInv, InfoIsOfSent, FirstOfId
  <2>2. \A k \in sent : k.drawn \in Nat /\ k.drawn <= uid
    BY BoundAssumption DEF IInv, DrawnIdsDiffer, TypeOK, SentMessages, Uids
  <2>3. \A k \in sent : k.drawn <= uid'
    BY <1>2, <2>2
  <2> QED
    BY <1>4, <2>1, <2>3 DEF IInv, DrawnIdsDiffer
<1>10. OrdersStayAddressable'
  <2>1. SUFFICES ASSUME NEW s \in Sources, NEW cl \in ClOrdIds,
                        cl_ord_id_to_uid'[s][cl] # None, Len(Targets[s]) > 0
                 PROVE  LET r == RouteOf(s, cl_ord_id_to_uid[s][cl])' IN
                        /\ uid_to_source_session'[cl_ord_id_to_uid'[s][cl]] = s
                        /\ r # None
                        /\ dest_cl_ord_id_by_src_cl_ord_id'[r][cl] # None
    BY DEF OrdersStayAddressable, RouteOf
  \* A refused new order comes from a source without destinations.
  <2>2. cl_ord_id_to_uid'[s][cl] = cl_ord_id_to_uid[s][cl]
    BY <1>3, <2>1
  <2>3. uid_to_source_session'[cl_ord_id_to_uid'[s][cl]] = s
    BY <1>7, <2>1 DEF OrdersAreOwned
  <2>4. RouteOf(s, cl_ord_id_to_uid[s][cl])'
          = RouteOf(s, cl_ord_id_to_uid[s][cl])
    BY <1>4, <2>2 DEF RouteOf
  <2> QED
    BY <1>4, <2>1, <2>2, <2>3, <2>4 DEF IInv, OrdersStayAddressable
<1>11. ReportsGoToFirstUser'
  <2>1. \A i \in DOMAIN to_client' : to_client'[i].from = None
    BY <1>1, RejectsType DEF Refuse
  <2>2. \A k \in sent' : k.dst \in Destinations
    BY DEF TypeOK, SentMessages
  <2> QED
    BY <2>1, <2>2, NoneAssumption DEF ReportsGoToFirstUser
<1> QED
  BY <1>6, <1>7, <1>8, <1>9, <1>10, <1>11 DEF IInv

\* Nothing in the invariant but the last conjunct looks at to_client and link.
LEMMA TablesKeepInv ==
    ASSUME IInv, UNCHANGED <<uid, routing, sent>>, TypeOK',
           ReportsGoToFirstUser'
    PROVE  IInv'
  BY DEF IInv, routing, IdsAreFresh, OrdersAreOwned, SentIsRouted,
         InfoIsOfSent, FirstOfId, DrawnIdsDiffer, OrdersStayAddressable,
         RouteOf

LEMMA ReportKeepsInv ==
    ASSUME IInv, NEW d, NEW kind, NEW c, ReportStep(d, kind, c)
    PROVE  IInv'
<1> DEFINE info == src_routing_info_by_dest_cl_ord_id[d][c]
           known == info # None
           s == uid_to_source_session[IF known THEN info.uid ELSE 0]
           cl == IF known THEN info.cl_ord_id ELSE None
           report == [to |-> s, kind |-> kind, cl |-> cl, from |-> d, c |-> c]
<1>1. /\ d \in Destinations /\ c \in DestIds
      /\ UNCHANGED <<uid, routing, sent>>
      /\ to_client' = IF s = None THEN <<>> ELSE <<report>>
  BY DEF ReportStep, procoess_message_from_transport,
     handle_cl_ord_id_from_destination, send_message_to_source
<1>2. TypeOK'
  BY ReportKeepsTypes DEF IInv
<1>3. ReportsGoToFirstUser'
  <2>1. CASE s = None
    BY <1>1, <2>1 DEF ReportsGoToFirstUser
  <2>2. CASE s # None
    \* uid 0 leads nowhere, so the id was known and its uid is an order's.
    <3>1. known /\ info.uid # 0
      BY <2>2, BoundAssumption DEF IInv, IdsAreFresh, Uids
    <3>2. PICK k \in sent : /\ k.dst = d /\ k.c = c /\ FirstOfId(k)
                            /\ k.cl = info.cl_ord_id /\ k.uid = info.uid
      BY <1>1, <3>1 DEF IInv, InfoIsOfSent
    <3>3. k.src = s /\ k.cl = cl
      BY <3>1, <3>2 DEF IInv, SentIsRouted
    <3>4. report.to = k.src /\ report.cl = k.cl /\ report.from = d
          /\ report.c = c
      BY <3>3
    <3>5. to_client' = <<report>> /\ sent' = sent
      BY <1>1, <2>2
    <3> HIDE DEF report
    <3>6. ASSUME NEW x \in sent, x.dst = d, x.c = c, FirstOfId(x)
          PROVE  x = k
      <4>1. x.drawn <= k.drawn /\ k.drawn <= x.drawn
        BY <3>2, <3>6 DEF FirstOfId
      <4>2. x.drawn \in Nat /\ k.drawn \in Nat
        BY BoundAssumption DEF IInv, TypeOK, SentMessages, Uids
      <4>3. x.drawn = k.drawn
        BY <4>1, <4>2
      <4> QED
        BY <4>3 DEF IInv, DrawnIdsDiffer
    <3> QED
      BY <3>4, <3>5, <3>6 DEF ReportsGoToFirstUser, FirstOfId
  <2> QED
    BY <2>1, <2>2
<1> QED
  BY <1>1, <1>2, <1>3, TablesKeepInv

LEMMA RequestKeepsInv ==
    ASSUME IInv, NEW m, NEW n, RequestStep(m, n)
    PROVE  IInv'
<1>1. TypeOK'
  BY RequestKeepsTypes DEF IInv
<1>2. RequestOutcome(m, n)
  BY DEF RequestStep
<1> QED
  BY <1>1, <1>2, SentKeepsInv, RefusedKeepsInv DEF RequestOutcome

LEMMA InitInv ==
    ASSUME Init
    PROVE  IInv
<1>1. TypeOK
  BY InitTypes
<1> QED
  BY <1>1 DEF Init, IInv, IdsAreFresh, OrdersAreOwned, SentIsRouted,
       InfoIsOfSent, DrawnIdsDiffer, OrdersStayAddressable,
       ReportsGoToFirstUser, NoClOrdIds, NoUids, NoDestIds

LEMMA NextKeepsInv ==
    ASSUME IInv, [Next]_vars
    PROVE  IInv'
<1>1. CASE Next
  <2>1. ASSUME SocketStep
        PROVE  IInv'
    <3>1. TypeOK'
      BY <2>1, SocketKeepsTypes DEF IInv
    <3> QED
      BY <2>1, <3>1, TablesKeepInv
      DEF SocketStep, ReportsGoToFirstUser
  <2> QED
    BY <1>1, <2>1, StepCases, RequestKeepsInv, ReportKeepsInv
    DEF IInv
<1>2. CASE UNCHANGED vars
  <2>1. TypeOK' /\ ReportsGoToFirstUser'
    BY <1>2
    DEF vars, routing, IInv, TypeOK, ReportsGoToFirstUser, FirstOfId
  <2> QED
    BY <1>2, <2>1, TablesKeepInv DEF vars
<1> QED
  BY <1>1, <1>2

\* The tables agree with each other and with what was sent, however many ids
\* are drawn.
THEOREM TablesAgree == Spec => []IInv
  BY InitInv, NextKeepsInv, PTL DEF Spec

\* What a client is told goes to the first user of the reported id.
THEOREM ReportsToFirstUser == Spec => []ReportsGoToFirstUser
  BY TablesAgree, PTL DEF IInv

\* All requests of one order come from one client and go to one venue.
THEOREM ChainStays == Spec => []ChainStaysAtOneDestination
<1>1. IInv => ChainStaysAtOneDestination
  BY DEF IInv, SentIsRouted, ChainStaysAtOneDestination
<1> QED
  BY <1>1, TablesAgree, PTL

\* Every order a client can name leads to a venue that knows it and back.
THEOREM OrdersAddressable == Spec => []OrdersStayAddressable
  BY TablesAgree, PTL DEF IInv

-----------------------------------------------------------------------------
(* Venue ids: a 64 bit counter in a field of IdSpace values.               *)

\* Two numbers with one remainder are a whole divisor apart.
LEMMA SameRemainder ==
    ASSUME NEW a \in Nat, NEW b \in Nat, NEW k \in Nat, k > 0,
           a < b, a % k = b % k
    PROVE  a + k <= b
<1>1. PICK p \in Int : p = a \div k
  OBVIOUS
<1>2. PICK q \in Int : q = b \div k
  OBVIOUS
<1>3. PICK r \in Int : a = k * p + r /\ b = k * q + r
  <2>1. a = k * p + (a % k) /\ b = k * q + (b % k) /\ a % k \in Int
    BY <1>1, <1>2
  <2> QED
    BY <2>1
<1>4. PICK e \in Int : e = q - p
  OBVIOUS
<1>5. b - a = k * e
  BY <1>3, <1>4
<1>6. e >= 1
  <2>1. e <= 0 => k * e <= 0
    OBVIOUS
  <2> QED
    BY <1>5, <2>1
<1>7. k * e >= k
  BY <1>6
<1> QED
  BY <1>5, <1>7

LEMMA RoundsApart == IInv => IdsRepeatOnlyAfterRound
<1> SUFFICES ASSUME IInv, NEW m \in sent, NEW n \in sent, m # n, m.c = n.c
             PROVE  \/ m.drawn + IdSpace <= n.drawn
                    \/ n.drawn + IdSpace <= m.drawn
  BY DEF IdsRepeatOnlyAfterRound
<1>1. m.drawn \in Nat /\ n.drawn \in Nat
  BY BoundAssumption DEF IInv, TypeOK, SentMessages, Uids
<1>2. m.drawn # n.drawn /\ m.drawn % IdSpace = n.drawn % IdSpace
  BY DEF IInv, DrawnIdsDiffer, DestClOrdId
<1>3. m.drawn < n.drawn \/ n.drawn < m.drawn
  BY <1>1, <1>2
<1>4. IdSpace \in Nat /\ IdSpace > 0
  BY BoundAssumption
<1>5. CASE m.drawn < n.drawn
  BY <1>1, <1>2, <1>4, <1>5, SameRemainder
<1>6. CASE n.drawn < m.drawn
  BY <1>1, <1>2, <1>4, <1>6, SameRemainder
<1> QED
  BY <1>3, <1>5, <1>6

\* However many ids are drawn, a venue id comes again only after IdSpace
\* others.
THEOREM IdsRepeatAfterRound == Spec => []IdsRepeatOnlyAfterRound
  BY RoundsApart, TablesAgree, PTL

\* Requests have venue ids of their own.
DestIdsUnique ==
    \A m, n \in sent : m.c = n.c => m = n

\* Within the first round the ids differ and each report returns.
LEMMA FirstRound ==
    ASSUME MaxUid < IdSpace
    PROVE  IInv => DestIdsUnique /\ ReportsReturnToOrigin
<1>1. IInv => DestIdsUnique
  <2> SUFFICES ASSUME IInv, NEW m \in sent, NEW n \in sent, m.c = n.c
               PROVE  m = n
    BY DEF DestIdsUnique
  <2>1. /\ m.drawn \in Nat /\ n.drawn \in Nat
        /\ m.drawn < IdSpace /\ n.drawn < IdSpace
    BY BoundAssumption DEF IInv, TypeOK, SentMessages, Uids
  <2> QED
    BY <2>1, RoundsApart, BoundAssumption DEF IdsRepeatOnlyAfterRound
<1>2. IInv /\ DestIdsUnique => \A m \in sent : FirstOfId(m)
  BY BoundAssumption DEF IInv, TypeOK, SentMessages, Uids, DestIdsUnique,
     FirstOfId
<1> QED
  BY <1>1, <1>2 DEF IInv, ReportsGoToFirstUser, ReportsReturnToOrigin

\* A report reaches the client whose request it is about, under the id that
\* client gave it, as long as the generator has not outgrown the field.
THEOREM ReportsReturn ==
    ASSUME MaxUid < IdSpace
    PROVE  Spec => []ReportsReturnToOrigin
  BY FirstRound, TablesAgree, PTL

-----------------------------------------------------------------------------
(* References: clients that never share or reuse an id.                    *)

\* A client id names one request: the destination table gives its venue id,
\* the source table its uid.
References ==
    /\ \A m \in sent : dest_cl_ord_id_by_src_cl_ord_id[m.dst][m.cl] = m.c
    /\ \A d \in Destinations, cl \in ClOrdIds :
         dest_cl_ord_id_by_src_cl_ord_id[d][cl] # None =>
           \E m \in sent : m.cl = cl
    /\ \A s \in Sources, cl \in ClOrdIds :
         (/\ cl_ord_id_to_uid[s][cl] # None
          /\ RouteOf(s, cl_ord_id_to_uid[s][cl]) # None) =>
            \E m \in sent : /\ m.src = s /\ m.cl = cl
                            /\ m.uid = cl_ord_id_to_uid[s][cl]
    /\ ReferencesStayInChain

\* A recorded uid is not the fresh one of a new order.
LEMMA KnownUids ==
    ASSUME IInv, NEW m, NEW n, RequestStep(m, n),
           NEW s \in Sources, NEW cl \in ClOrdIds,
           cl_ord_id_to_uid[s][cl] # None
    PROVE  /\ cl_ord_id_to_uid[s][cl] \in Uids
           /\ m.kind = "NewOrderSingle" => cl_ord_id_to_uid[s][cl] # m.uid
<1>1. uid_to_source_session[cl_ord_id_to_uid[s][cl]] = s
  BY DEF IInv, OrdersAreOwned
<1>2. m.kind = "NewOrderSingle" => uid_to_source_session[m.uid] = None
  BY UpdateEntries DEF IInv
<1> QED
  BY <1>1, <1>2, NoneAssumption DEF IInv, TypeOK

LEMMA SentKeepsReferences ==
    ASSUME IInv, References, NEW m, NEW n, RequestStep(m, n),
           NEW d \in Destinations, Passed(d, m),
           procoess_message_to_transport(d, m, n), IdScope = "global"
    PROVE  References'
<1> DEFINE new == Record(d, m, n)
           id == DestClOrdId(n)
<1>1. /\ m \in Messages /\ m.uid \in Uids /\ m.src \in Sources
      /\ m.cl \in ClOrdIds
  BY DEF RequestStep, Request, Messages
<1>2. \A x \in sent : x.cl # m.cl
  BY DEF RequestStep, IdFree
<1>3. sent' = sent \cup {new}
  BY SendEntries DEF IInv
<1>4. dest_cl_ord_id_by_src_cl_ord_id[d][m.cl] = None
  BY <1>1, <1>2 DEF References
<1>5. dest_cl_ord_id_by_src_cl_ord_id' =
        [dest_cl_ord_id_by_src_cl_ord_id EXCEPT
           ![d] = [dest_cl_ord_id_by_src_cl_ord_id[d] EXCEPT ![m.cl] = id]]
  BY <1>4
  DEF procoess_message_to_transport, update_destination_routing_info, Emplace
<1>6. /\ dest_cl_ord_id_by_src_cl_ord_id'[d][m.cl] = id
      /\ \A e \in Destinations, cl \in ClOrdIds : cl # m.cl =>
           dest_cl_ord_id_by_src_cl_ord_id'[e][cl] =
             dest_cl_ord_id_by_src_cl_ord_id[e][cl]
  BY <1>1, <1>5 DEF IInv, TypeOK
<1>7. /\ new.dst = d /\ new.c = id /\ new.src = m.src /\ new.cl = m.cl
      /\ new.uid = m.uid /\ new.kind = m.kind
      /\ m.kind # "NewOrderSingle" =>
           new.o = dest_cl_ord_id_by_src_cl_ord_id[d][m.orig]
  BY DEF Record
<1> HIDE DEF new, id
<1>8. \A x \in sent : x.dst \in Destinations /\ x.cl \in ClOrdIds
  BY DEF IInv, TypeOK, SentMessages
<1>9. \A x \in sent' : dest_cl_ord_id_by_src_cl_ord_id'[x.dst][x.cl] = x.c
  BY <1>2, <1>3, <1>6, <1>7, <1>8 DEF References
<1>10. \A e \in Destinations, cl \in ClOrdIds :
         dest_cl_ord_id_by_src_cl_ord_id'[e][cl] # None =>
           \E x \in sent' : x.cl = cl
  BY <1>3, <1>6, <1>7 DEF References
<1>11. ASSUME NEW s \in Sources, NEW cl \in ClOrdIds,
              cl_ord_id_to_uid'[s][cl] # None,
              RouteOf(s, cl_ord_id_to_uid[s][cl])' # None
       PROVE  \E x \in sent' : /\ x.src = s /\ x.cl = cl
                               /\ x.uid = cl_ord_id_to_uid'[s][cl]
  <2> DEFINE u == cl_ord_id_to_uid[s][cl]
  <2>1. CASE cl_ord_id_to_uid'[s][cl] = u
    <3>1. /\ u \in Uids /\ u # None
          /\ m.kind = "NewOrderSingle" => u # m.uid
      BY <1>11, <2>1, KnownUids
    <3>2. uid_to_destination'[s][u] = uid_to_destination[s][u]
      BY <3>1, RouteEntries DEF IInv
    <3>3. RouteOf(s, u) # None
      BY <1>11, <2>1, <3>2 DEF RouteOf
    <3> QED
      BY <1>3, <2>1, <3>1, <3>3 DEF References
  <2>2. CASE /\ s = m.src /\ cl = m.cl
             /\ cl_ord_id_to_uid'[s][cl] = m.uid
    BY <1>3, <1>7, <2>2
  <2> QED
    BY <2>1, <2>2, UpdateEntries DEF IInv
<1>12. ReferencesStayInChain'
  <2>1. ASSUME m.kind # "NewOrderSingle", m.uid # 0
        PROVE  \E x \in sent : /\ x.uid = m.uid /\ x.dst = d
                               /\ x.c = new.o
    <3>1. m.orig \in ClOrdIds /\ m.uid = cl_ord_id_to_uid[m.src][m.orig]
      BY <2>1 DEF RequestStep, Request
    <3>2. RouteOf(m.src, m.uid) = d
      BY <2>1 DEF Passed, RouteOf
    <3>3. PICK x \in sent : /\ x.src = m.src /\ x.cl = m.orig
                            /\ x.uid = m.uid
      <4>1. m.uid # None /\ d # None
        BY <1>1, NoneAssumption DEF Uids
      <4> QED
        BY <1>1, <3>1, <3>2, <4>1 DEF References
    <3>4. x.dst = d
      BY <2>1, <3>2, <3>3 DEF IInv, SentIsRouted
    <3>5. x.c = dest_cl_ord_id_by_src_cl_ord_id[d][m.orig]
      BY <3>3, <3>4 DEF References
    <3> QED
      BY <1>7, <2>1, <3>3, <3>4, <3>5
  <2>2. ASSUME NEW x \in sent', x.kind # "NewOrderSingle", x.uid # 0
        PROVE  \E y \in sent' : y.uid = x.uid /\ y.dst = x.dst /\ y.c = x.o
    <3>1. CASE x = new
      BY <1>3, <1>7, <2>1, <2>2, <3>1
    <3>2. CASE x \in sent
      BY <1>3, <2>2, <3>2 DEF References, ReferencesStayInChain
    <3> QED
      BY <1>3, <2>2, <3>1, <3>2
  <2> QED
    BY <2>2 DEF ReferencesStayInChain
<1> QED
  BY <1>9, <1>10, <1>11, <1>12 DEF References

LEMMA RefusedKeepsReferences ==
    ASSUME IInv, References, NEW m, NEW n, RequestStep(m, n), Refuse(m),
           UNCHANGED uid_to_destination,
           m.kind = "NewOrderSingle" => Len(Targets[m.src]) = 0
    PROVE  References'
<1>1. UNCHANGED <<sent, dest_cl_ord_id_by_src_cl_ord_id, uid_to_destination>>
  BY DEF Refuse
<1>2. ASSUME NEW s \in Sources, NEW cl \in ClOrdIds,
             cl_ord_id_to_uid'[s][cl] # None,
             RouteOf(s, cl_ord_id_to_uid[s][cl])' # None
      PROVE  \E x \in sent' : /\ x.src = s /\ x.cl = cl
                              /\ x.uid = cl_ord_id_to_uid'[s][cl]
  <2>1. CASE cl_ord_id_to_uid'[s][cl] = cl_ord_id_to_uid[s][cl]
    <3>1. RouteOf(s, cl_ord_id_to_uid[s][cl]) # None
      BY <1>1, <1>2, <2>1 DEF RouteOf
    <3> QED
      BY <1>1, <1>2, <2>1, <3>1 DEF References
  <2>2. CASE /\ m.kind = "NewOrderSingle" /\ s = m.src
             /\ cl_ord_id_to_uid'[s][cl] = m.uid
    <3>1. Router[s] # "OneToOne"
      <4>1. Len(Targets[s]) = 0
        BY <2>2
      <4>2. Router[s] = "OneToOne" => Len(Targets[s]) = 1
        BY RouterAssumption
      <4> QED
        BY <4>1, <4>2
    <3>2. uid_to_destination[s][m.uid] = None
      <4>1. m.uid \in Uids /\ m.uid = uid + 1 /\ uid \in Nat
        BY <2>2 DEF RequestStep, Request, Messages, IInv, TypeOK, Uids
      <4> QED
        BY <4>1 DEF IInv, IdsAreFresh
    <3> QED
      BY <1>1, <1>2, <2>2, <3>1, <3>2 DEF RouteOf
  <2> QED
    BY <2>1, <2>2, UpdateEntries DEF IInv
<1> QED
  BY <1>1, <1>2 DEF References, ReferencesStayInChain

\* A cancel or replace names, at the venue, a request of its own order, if no
\* two clients share an id and none uses one twice.
THEOREM ReferencesInChain ==
    ASSUME IdScope = "global"
    PROVE  Spec => []ReferencesStayInChain
<1>1. Init => References
  BY DEF Init, References, ReferencesStayInChain, NoClOrdIds
<1>2. ASSUME IInv, References, [Next]_vars
      PROVE  References'
  <2>1. ASSUME UNCHANGED <<routing, sent>>
        PROVE  References'
    BY <1>2, <2>1 DEF References, ReferencesStayInChain, RouteOf, routing
  <2>2. ASSUME NEW m, NEW n, RequestStep(m, n)
        PROVE  References'
    BY <1>2, <2>2, SentKeepsReferences, RefusedKeepsReferences
    DEF RequestStep, RequestOutcome
  <2>3. ASSUME NEW d, NEW kind, NEW c, ReportStep(d, kind, c)
        PROVE  UNCHANGED <<routing, sent>>
    BY <2>3 DEF ReportStep, procoess_message_from_transport
  <2>4. CASE UNCHANGED vars
    BY <2>1, <2>4 DEF vars
  <2>5. CASE Next
    <3>1. SocketStep => UNCHANGED <<routing, sent>>
      BY DEF SocketStep
    <3> QED
      BY <1>2, <2>1, <2>2, <2>3, <2>5, <3>1, StepCases DEF IInv
  <2> QED
    BY <1>2, <2>4, <2>5
<1>3. References => ReferencesStayInChain
  BY DEF References
<1> QED
  BY <1>1, <1>2, <1>3, TablesAgree, PTL DEF Spec


-----------------------------------------------------------------------------
(* Round robin: positions up to the router's index are one order ahead.    *)

Orders(s, d) ==
    {m \in sent : m.src = s /\ m.dst = d /\ m.kind = "NewOrderSingle"}

\* The first target is position 1, and index 0 stands for it.
Dealt(s) ==
    LET ahead(i) == 2 <= i /\ i <= index[s] + 1 IN
    \E b \in Nat : \A i \in 1..Len(Targets[s]) :
      Cardinality(Orders(s, Targets[s][i])) = IF ahead(i) THEN b + 1 ELSE b

DealtRound ==
    /\ IsFiniteSet(sent)
    /\ \A s \in Sources :
         (Router[s] = "RoundRobin" /\ Len(Targets[s]) > 0) =>
           index[s] < Len(Targets[s]) /\ Dealt(s)

\* No source's configuration lists a destination twice.
TargetsDiffer ==
    \A s \in Sources : \A i, j \in 1..Len(Targets[s]) :
      Targets[s][i] = Targets[s][j] => i = j

LEMMA ModStep ==
    ASSUME NEW i \in Nat, NEW l \in Nat, i < l
    PROVE  (i + 1) % l = IF i + 1 = l THEN 0 ELSE i + 1
<1>1. CASE i + 1 = l
  <2>1. l % l = 0
    OBVIOUS
  <2> QED
    BY <1>1, <2>1
<1>2. CASE i + 1 < l
  <2>1. \A a, b \in Nat : a < b => a % b = a
    OBVIOUS
  <2> QED
    BY <1>2, <2>1
<1> QED
  BY <1>1, <1>2

\* Steps that send no order of s leave its deal as it was.
LEMMA DealtKept ==
    ASSUME NEW s \in Sources, index'[s] = index[s], Dealt(s),
           \A d : Orders(s, d)' = Orders(s, d)
    PROVE  Dealt(s)'
  BY DEF Dealt

\* A new order goes to the position after the last one.
LEMMA DealtOn ==
    ASSUME TargetsDiffer, NEW s \in Sources, Targets[s] \in Seq(Destinations),
           Len(Targets[s]) > 0, index[s] \in Nat, index[s] < Len(Targets[s]),
           Dealt(s), IsFiniteSet(sent), NEW new, new \notin sent,
           sent' = sent \cup {new}, new.src = s, new.kind = "NewOrderSingle",
           new.dst = Targets[s][NextIndex(s) + 1], index'[s] = NextIndex(s)
    PROVE  index'[s] < Len(Targets[s]) /\ Dealt(s)'
<1> DEFINE l == Len(Targets[s])
           last == NextIndex(s) + 1
           count(i) == Cardinality(Orders(s, Targets[s][i]))
<1>1. l \in Nat
  OBVIOUS
<1>2. NextIndex(s) = IF index[s] + 1 = l THEN 0 ELSE index[s] + 1
  BY <1>1, ModStep DEF NextIndex
<1>3. last \in 1..l /\ NextIndex(s) \in Nat /\ NextIndex(s) < l
  BY <1>1, <1>2
<1>4. PICK b \in Nat : \A i \in 1..l :
        count(i) = IF 2 <= i /\ i <= index[s] + 1 THEN b + 1 ELSE b
  BY DEF Dealt
<1>5. \A i \in 1..l : count(i)' = IF i = last THEN count(i) + 1 ELSE count(i)
  <2> SUFFICES ASSUME NEW i \in 1..l
               PROVE  count(i)' = IF i = last THEN count(i) + 1 ELSE count(i)
    OBVIOUS
  <2>1. CASE i = last
    <3>1. Orders(s, Targets[s][i])' = Orders(s, Targets[s][i]) \cup {new}
      BY <2>1 DEF Orders
    <3>2. IsFiniteSet(Orders(s, Targets[s][i]))
            /\ new \notin Orders(s, Targets[s][i])
      BY FS_Subset DEF Orders
    <3>3. Cardinality(Orders(s, Targets[s][i]) \cup {new})
            = Cardinality(Orders(s, Targets[s][i])) + 1
      BY <3>2, FS_AddElement
    <3>4. count(i)' = Cardinality(Orders(s, Targets[s][i])')
      OBVIOUS
    <3> QED
      BY <2>1, <3>1, <3>3, <3>4
  <2>2. CASE i # last
    <3>1. Targets[s][i] # new.dst
      BY <1>3, <2>2 DEF TargetsDiffer
    <3>2. Orders(s, Targets[s][i])' = Orders(s, Targets[s][i])
      BY <3>1 DEF Orders
    <3> QED
      BY <2>2, <3>2
  <2> QED
    BY <2>1, <2>2
<1> DEFINE ahead(i) == 2 <= i /\ i <= index[s] + 1
           deals(c) == \A i \in 1..l :
                         count(i)' = IF ahead(i)' THEN c + 1 ELSE c
<1>6. index'[s] < l
  BY <1>3
<1>7. \E c \in Nat : deals(c)
  <2> HIDE DEF count, l
  <2>1. CASE index[s] + 1 = l
    <3>1. index'[s] = 0 /\ last = 1
      BY <1>2, <2>1
    <3>2. \A i \in 1..l : count(i)' = b + 1
      BY <1>1, <1>4, <1>5, <2>1, <3>1
    <3>3. \A i \in 1..l : ~ahead(i)'
      BY <1>1, <3>1
    <3>4. b + 1 \in Nat /\ deals(b + 1)
      BY <3>2, <3>3
    <3> QED
      BY <3>4
  <2>2. CASE index[s] + 1 # l
    <3>1. index'[s] = index[s] + 1 /\ last = index[s] + 2
      BY <1>2, <2>2
    <3>2. deals(b)
      BY <1>1, <1>4, <1>5, <3>1
    <3> QED
      BY <3>2
  <2> QED
    BY <2>1, <2>2
<1>8. PICK c \in Nat : deals(c)
  BY <1>7
<1>9. Dealt(s)'
  BY <1>8 DEF Dealt
<1> QED
  BY <1>6, <1>9

LEMMA RequestKeepsDeal ==
    ASSUME IInv, DealtRound, TargetsDiffer,
           NEW m, NEW n, RequestStep(m, n)
    PROVE  DealtRound'
<1>1. m \in Messages /\ m.src \in Sources
  BY DEF RequestStep, Request, Messages
<1>2. CASE Refuse(m) /\ UNCHANGED <<index, uid_to_destination>>
  <2>1. UNCHANGED <<index, sent>>
    BY <1>2 DEF Refuse
  <2> QED
    BY <2>1 DEF DealtRound, Dealt, Orders
<1>3. ASSUME NEW d \in Destinations, Passed(d, m),
             procoess_message_to_transport(d, m, n)
      PROVE  DealtRound'
  <2> DEFINE new == Record(d, m, n)
  <2>1. sent' = sent \cup {new} /\ new \notin sent
    <3>1. sent' = sent \cup {new} /\ uid < n
      BY <1>3, SendEntries DEF IInv
    <3>2. \A x \in sent : x.drawn <= uid /\ x.drawn \in Nat
      BY BoundAssumption DEF IInv, DrawnIdsDiffer, TypeOK, SentMessages, Uids
    <3>3. uid \in Nat /\ n \in Nat /\ new.drawn = n
      BY DEF IInv, TypeOK, Uids, RequestStep, Record
    <3> QED
      BY <3>1, <3>2, <3>3
  <2>2. new.src = m.src /\ new.dst = d /\ new.kind = m.kind
    BY DEF Record
  <2> HIDE DEF new
  <2>3. IsFiniteSet(sent')
    BY <2>1, FS_AddElement DEF DealtRound
  <2>4. ASSUME NEW s \in Sources, Router[s] = "RoundRobin",
               Len(Targets[s]) > 0
        PROVE  index'[s] < Len(Targets[s]) /\ Dealt(s)'
    <3>1. index[s] \in Nat /\ index[s] < Len(Targets[s]) /\ Dealt(s)
            /\ Targets[s] \in Seq(Destinations)
      BY <2>4, RouterAssumption DEF DealtRound, IInv, TypeOK
    <3>2. CASE s = m.src /\ m.kind = "NewOrderSingle"
      <4>1. /\ d = Targets[s][NextIndex(s) + 1]
            /\ index'[s] = NextIndex(s)
        BY <1>3, <2>4, <3>2 DEF Passed, IInv, TypeOK
      <4> QED
        BY <2>1, <2>2, <2>4, <3>1, <3>2, <4>1, DealtOn DEF DealtRound
    <3>3. CASE s # m.src \/ m.kind # "NewOrderSingle"
      <4>1. index'[s] = index[s]
        BY <1>1, <1>3, <3>3 DEF Passed, IInv, TypeOK
      <4>2. \A e : Orders(s, e)' = Orders(s, e)
        BY <2>1, <2>2, <3>3 DEF Orders
      <4> QED
        BY <3>1, <4>1, <4>2, DealtKept
    <3> QED
      BY <3>2, <3>3
  <2> QED
    BY <2>3, <2>4 DEF DealtRound
<1> QED
  BY <1>2, <1>3 DEF RequestStep, RequestOutcome

\* A round robin deals one order to each session before any gets a second, if
\* no session is listed twice.
THEOREM RoundRobinDeals ==
    ASSUME TargetsDiffer
    PROVE  Spec => []RoundRobinBalanced
<1>1. Init => DealtRound
  <2> SUFFICES ASSUME Init PROVE DealtRound
    OBVIOUS
  <2>1. IsFiniteSet(sent) /\ \A s, d : Cardinality(Orders(s, d)) = 0
    BY FS_EmptySet DEF Init, Orders
  <2>2. ASSUME NEW s \in Sources PROVE Dealt(s)
    <3>1. \A i \in 1..Len(Targets[s]) : ~(2 <= i /\ i <= index[s] + 1)
      BY RouterAssumption DEF Init
    <3> QED
      BY <2>1, <3>1 DEF Dealt
  <2> QED
    BY <2>1, <2>2 DEF DealtRound, Init
<1>2. ASSUME IInv, DealtRound, [Next]_vars
      PROVE  DealtRound'
  <2>1. ASSUME UNCHANGED <<index, sent>>
        PROVE  DealtRound'
    BY <1>2, <2>1 DEF DealtRound, Dealt, Orders
  <2>2. ASSUME NEW d, NEW kind, NEW c, ReportStep(d, kind, c)
        PROVE  UNCHANGED <<index, sent>>
    BY <2>2 DEF ReportStep, procoess_message_from_transport, routing
  <2>3. SocketStep \/ UNCHANGED vars => UNCHANGED <<index, sent>>
    BY DEF SocketStep, vars, routing
  <2> QED
    BY <1>2, <2>1, <2>2, <2>3, RequestKeepsDeal, StepCases DEF IInv
<1>3. IInv /\ DealtRound => RoundRobinBalanced
  <2> SUFFICES ASSUME IInv, DealtRound, NEW s \in Sources,
                      Router[s] = "RoundRobin",
                      NEW i \in DOMAIN Targets[s], NEW j \in DOMAIN Targets[s]
               PROVE  Cardinality(Orders(s, Targets[s][i]))
                        <= Cardinality(Orders(s, Targets[s][j])) + 1
    BY DEF RoundRobinBalanced, Orders
  <2>1. /\ Targets[s] \in Seq(Destinations)
        /\ i \in 1..Len(Targets[s]) /\ j \in 1..Len(Targets[s])
    BY RouterAssumption
  <2>2. Dealt(s)
    BY <2>1 DEF DealtRound
  <2> QED
    BY <2>1, <2>2 DEF Dealt
<1> QED
  BY <1>1, <1>2, <1>3, TablesAgree, PTL DEF Spec

=============================================================================
