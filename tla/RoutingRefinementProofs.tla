----------------------- MODULE RoutingRefinementProofs -----------------------
(***************************************************************************)
(* MessageRouting implements OrderChains for every value of the constants  *)
(* with MaxUid < IdSpace: OrderChains gives each request an id of its own, *)
(* which the router does until the generator has filled the venues' field. *)
(***************************************************************************)
EXTENDS RoutingRefinement, MessageRoutingProofs

\* An order its session knows and has a route for was sent along that route.
OrdersWereSent ==
    \A s \in Sources, cl \in ClOrdIds :
      (/\ cl_ord_id_to_uid[s][cl] # None
       /\ RouteOf(s, cl_ord_id_to_uid[s][cl]) # None) =>
        \E k \in sent : /\ k.kind = "NewOrderSingle"
                        /\ k.uid = cl_ord_id_to_uid[s][cl]
                        /\ k.src = s
                        /\ k.dst = RouteOf(s, cl_ord_id_to_uid[s][cl])

LEMMA SentKeepsOrders ==
    ASSUME IInv, OrdersWereSent, NEW m, NEW n, RequestStep(m, n),
           NEW d \in Destinations, Passed(d, m),
           procoess_message_to_transport(d, m, n)
    PROVE  OrdersWereSent'
<1>1. SUFFICES ASSUME NEW s \in Sources, NEW cl \in ClOrdIds,
                      cl_ord_id_to_uid'[s][cl] # None,
                      RouteOf(s, cl_ord_id_to_uid[s][cl])' # None
               PROVE  \E k \in sent' :
                 /\ k.kind = "NewOrderSingle"
                 /\ k.uid = cl_ord_id_to_uid'[s][cl]
                 /\ k.src = s
                 /\ k.dst = RouteOf(s, cl_ord_id_to_uid[s][cl])'
  BY DEF OrdersWereSent, RouteOf
<1>2. sent' = sent \cup {Record(d, m, n)}
  BY SendEntries DEF IInv
<1>3. \/ cl_ord_id_to_uid'[s][cl] = cl_ord_id_to_uid[s][cl]
      \/ /\ m.kind = "NewOrderSingle" /\ s = m.src /\ cl = m.cl
         /\ cl_ord_id_to_uid'[s][cl] = m.uid
  BY UpdateEntries DEF IInv
<1>4. CASE /\ m.kind = "NewOrderSingle" /\ s = m.src
           /\ cl_ord_id_to_uid'[s][cl] = m.uid
  <2>1. RouteOf(s, cl_ord_id_to_uid[s][cl])' = d
    BY <1>4, RouteEntries DEF IInv, RouteOf
  <2> DEFINE new == Record(d, m, n)
  <2>2. /\ new.kind = m.kind /\ new.uid = m.uid
        /\ new.src = m.src /\ new.dst = d
    BY DEF Record
  <2> HIDE DEF new
  <2>3. new \in sent'
    BY <1>2 DEF new
  <2> QED
    BY <1>4, <2>1, <2>2, <2>3
<1>5. CASE cl_ord_id_to_uid'[s][cl] = cl_ord_id_to_uid[s][cl]
  <2> DEFINE u == cl_ord_id_to_uid[s][cl]
  <2>1. u \in Uids /\ uid_to_source_session[u] = s
    BY <1>1, <1>5 DEF IInv, TypeOK, OrdersAreOwned
  <2>2. u # m.uid \/ m.kind # "NewOrderSingle"
    BY <2>1, UpdateEntries, NoneAssumption DEF IInv
  <2>3. RouteOf(s, cl_ord_id_to_uid[s][cl])' = RouteOf(s, u)
    BY <1>5, <2>1, <2>2, RouteEntries DEF IInv, RouteOf
  <2> QED
    BY <1>1, <1>2, <1>5, <2>3 DEF OrdersWereSent
<1> QED
  BY <1>3, <1>4, <1>5

LEMMA RefusedKeepsOrders ==
    ASSUME IInv, OrdersWereSent, NEW m, NEW n, RequestStep(m, n), Refuse(m),
           uid_to_destination' = uid_to_destination,
           m.kind = "NewOrderSingle" => Len(Targets[m.src]) = 0
    PROVE  OrdersWereSent'
<1>1. SUFFICES ASSUME NEW s \in Sources, NEW cl \in ClOrdIds,
                      cl_ord_id_to_uid'[s][cl] # None,
                      RouteOf(s, cl_ord_id_to_uid[s][cl])' # None
               PROVE  \E k \in sent :
                 /\ k.kind = "NewOrderSingle"
                 /\ k.uid = cl_ord_id_to_uid'[s][cl]
                 /\ k.src = s
                 /\ k.dst = RouteOf(s, cl_ord_id_to_uid[s][cl])'
  BY DEF OrdersWereSent, RouteOf, Refuse
<1>2. \/ cl_ord_id_to_uid'[s][cl] = cl_ord_id_to_uid[s][cl]
      \/ /\ m.kind = "NewOrderSingle" /\ s = m.src
         /\ cl_ord_id_to_uid'[s][cl] = m.uid
  BY UpdateEntries DEF IInv
<1>3. CASE cl_ord_id_to_uid'[s][cl] = cl_ord_id_to_uid[s][cl]
  BY <1>1, <1>3 DEF OrdersWereSent, RouteOf
\* A new order that was refused has no route.
<1>4. CASE /\ m.kind = "NewOrderSingle" /\ s = m.src
           /\ cl_ord_id_to_uid'[s][cl] = m.uid
  <2>1. Router[s] = "RoundRobin"
    <3>1. Router[s] \in {"OneToOne", "RoundRobin"}
      BY <1>1, RouterAssumption
    <3>2. Len(Targets[s]) = 0
      BY ONLY <1>4, m.kind = "NewOrderSingle" => Len(Targets[m.src]) = 0
    <3>3. Router[s] = "OneToOne" => Len(Targets[s]) = 1
      BY <1>1, RouterAssumption
    <3>4. Router[s] = "OneToOne" => 0 = 1
      BY ONLY <3>2, <3>3
    <3> QED
      BY ONLY <3>1, <3>4
  <2>2. uid_to_destination[s][m.uid] = None
    <3>1. m.uid \in Uids /\ m.uid = uid + 1 /\ uid \in Nat
      BY <1>4 DEF RequestStep, Request, Messages, IInv, TypeOK, Uids
    <3> QED
      BY <3>1 DEF IInv, IdsAreFresh
  <2> QED
    BY <1>1, <1>4, <2>1, <2>2 DEF RouteOf
<1> QED
  BY <1>2, <1>3, <1>4

-----------------------------------------------------------------------------
(* Simulation: what a step of the router is in OrderChains.                *)

\* A reject, or nothing at all, is no report.
LEMMA RejectsAreSilent ==
    ASSUME NEW m \in Messages, NEW n \in Nat, to_client' = Rejects(m, n)
    PROVE  report' = None
  BY RejectsType DEF report, Rejects

LEMMA SentIsARequest ==
    ASSUME IInv, OrdersWereSent, NEW m, NEW n, RequestStep(m, n),
           NEW d \in Destinations, Passed(d, m),
           procoess_message_to_transport(d, m, n), MaxUid < IdSpace
    PROVE  Promise!Next
<1> DEFINE new == Record(d, m, n)
           chain == [uid |-> m.uid, src |-> m.src, dst |-> d]
<1>1. /\ m \in Messages /\ m.uid \in Uids /\ m.src \in Sources
      /\ m.cl \in ClOrdIds
  BY DEF RequestStep, Request, Messages
<1>2. n \in DestIds /\ uid < n /\ n = DestClOrdId(n)
      /\ sent' = sent \cup {new}
  <2>1. n < IdSpace /\ n \in Nat
    BY BoundAssumption DEF RequestStep
  <2> QED
    BY <2>1, SendEntries, DestClOrdIdInField DEF IInv
<1>3. /\ ChainOf(new) = chain
      /\ RequestOf(new) = [uid |-> chain.uid, src |-> chain.src,
                           dst |-> chain.dst, c |-> n, cl |-> m.cl]
      /\ new.kind = m.kind
  BY <1>2 DEF Record, ChainOf, RequestOf
<1> HIDE DEF new
<1>4. requests' = requests \cup {RequestOf(new)}
  BY <1>2 DEF requests
<1>5. report' = None
  BY <1>1, RejectsAreSilent
  DEF procoess_message_to_transport, update_destination_routing_info
<1>6. Promise!Ask(chain, n, m.cl)
  BY <1>3, <1>4, <1>5 DEF Promise!Ask
<1>7. n \in Promise!FreshIds
  <2>1. ASSUME NEW k \in sent
        PROVE  k.c # n
    <3>1. k.drawn \in Nat /\ k.drawn <= uid /\ k.c = DestClOrdId(k.drawn)
      BY BoundAssumption DEF IInv, DrawnIdsDiffer, TypeOK, SentMessages, Uids
    <3>2. k.c <= k.drawn /\ k.c \in Nat
      BY <3>1, DestClOrdIdInField, BoundAssumption DEF DestIds
    <3>3. uid \in Nat /\ n \in Nat
      BY <1>2, BoundAssumption DEF IInv, TypeOK, Uids, DestIds
    <3> QED
      BY <1>2, <3>1, <3>2, <3>3
  <2> QED
    BY <1>2, <2>1 DEF Promise!FreshIds, requests, RequestOf
<1>8. chain \in Promise!Chain
  <2>1. m.uid \in DestIds
    BY <1>1, BoundAssumption DEF Uids, DestIds
  <2> QED
    BY <1>1, <2>1 DEF Promise!Chain
<1>9. CASE m.kind = "NewOrderSingle"
  <2>1. /\ m.uid # 0
        /\ \A k \in sent : k.uid # m.uid
    BY <1>1, <1>9, BoundAssumption
    DEF RequestStep, IInv, IdsAreFresh, TypeOK, SentMessages, Uids
  <2>2. \A other \in chains : other.uid # chain.uid
    BY <2>1 DEF chains, ChainOf
  <2>3. chains' = chains \cup {chain}
    BY <1>2, <1>3, <1>9 DEF chains
  <2>4. Promise!Open(chain, n, m.cl)
    BY <1>6, <2>1, <2>2, <2>3 DEF Promise!Open
  <2> QED
    BY <1>1, <1>7, <1>8, <2>4 DEF Promise!Next
<1>10. CASE m.kind # "NewOrderSingle"
  <2>1. UNCHANGED chains
    BY <1>2, <1>3, <1>10 DEF chains
  <2>2. CASE m.uid = 0
    <3>1. Promise!Stray(chain, n, m.cl)
      BY <1>6, <2>1, <2>2 DEF Promise!Stray
    <3> QED
      BY <1>1, <1>7, <1>8, <3>1 DEF Promise!Next
  <2>3. CASE m.uid # 0
    <3>1. PICK cl \in ClOrdIds : m.uid = cl_ord_id_to_uid[m.src][cl]
      BY <1>10, <2>3 DEF RequestStep, Request
    <3>2. RouteOf(m.src, m.uid)' = d /\ RouteOf(m.src, m.uid)' = RouteOf(m.src, m.uid)
      BY <1>1, <1>10, RouteEntries DEF IInv, RouteOf
    <3>3. m.uid # None /\ d # None
      BY <1>1, NoneAssumption, BoundAssumption DEF Uids
    <3>4. PICK k \in sent : /\ k.kind = "NewOrderSingle" /\ k.uid = m.uid
                            /\ k.src = m.src /\ k.dst = d
      BY <1>1, <3>1, <3>2, <3>3 DEF OrdersWereSent
    <3>5. chain \in chains
      BY <3>4 DEF chains, ChainOf
    <3>6. Promise!Continue(chain, n, m.cl)
      BY <1>6, <2>1 DEF Promise!Continue
    <3> QED
      BY <1>1, <1>7, <3>5, <3>6 DEF Promise!Next
  <2> QED
    BY <2>2, <2>3
<1> QED
  BY <1>9, <1>10

LEMMA RequestSimulates ==
    ASSUME IInv, OrdersWereSent, NEW m, NEW n, RequestStep(m, n),
           MaxUid < IdSpace
    PROVE  Promise!Next /\ OrdersWereSent'
<1>1. CASE \E d \in Destinations :
             /\ Passed(d, m) /\ uid' = n
             /\ procoess_message_to_transport(d, m, n)
  BY <1>1, SentIsARequest, SentKeepsOrders
<1>2. CASE /\ Refuse(m)
           /\ uid_to_destination' = uid_to_destination
           /\ m.kind = "NewOrderSingle" => Len(Targets[m.src]) = 0
  <2>1. report' = None
    BY <1>2, RejectsAreSilent DEF Refuse, RequestStep, Request
  <2>2. Promise!Silence
    BY <1>2, <2>1 DEF Promise!Silence, Refuse, chains, requests
  <2> QED
    BY <1>2, <2>2, RefusedKeepsOrders DEF Promise!Next
<1> QED
  BY <1>1, <1>2 DEF RequestStep, RequestOutcome

LEMMA ReportSimulates ==
    ASSUME IInv, OrdersWereSent, NEW d, NEW kind, NEW c,
           ReportStep(d, kind, c)
    PROVE  Promise!Next /\ OrdersWereSent'
<1> DEFINE info == src_routing_info_by_dest_cl_ord_id[d][c]
           known == info # None
           s == uid_to_source_session[IF known THEN info.uid ELSE 0]
           cl == IF known THEN info.cl_ord_id ELSE None
           told == [to |-> s, kind |-> kind, cl |-> cl, from |-> d, c |-> c]
<1>1. /\ d \in Destinations /\ c \in DestIds
      /\ UNCHANGED <<uid, routing, sent>>
      /\ to_client' = IF s = None THEN <<>> ELSE <<told>>
  BY DEF ReportStep, procoess_message_from_transport,
     handle_cl_ord_id_from_destination, send_message_to_source
<1>2. OrdersWereSent'
  BY <1>1 DEF OrdersWereSent, RouteOf, routing
<1>3. UNCHANGED <<chains, requests>>
  BY <1>1 DEF chains, requests
<1>4. CASE s = None
  <2>1. report' = None
    BY <1>1, <1>4 DEF report
  <2> QED
    BY <1>2, <1>3, <2>1 DEF Promise!Next, Promise!Silence
<1>5. CASE s # None
  <2>1. known /\ info.uid # 0
    BY <1>5, BoundAssumption DEF IInv, IdsAreFresh, Uids
  <2>2. PICK k \in sent : /\ k.dst = d /\ k.c = c
                          /\ k.cl = info.cl_ord_id /\ k.uid = info.uid
    BY <1>1, <2>1 DEF IInv, InfoIsOfSent
  <2>3. k.src = s /\ k.cl = cl /\ k.uid # 0
    BY <2>1, <2>2 DEF IInv, SentIsRouted
  <2>4. d # None
    BY <1>1, NoneAssumption
  <2>5. told.to = k.src /\ told.cl = k.cl /\ told.from = k.dst
        /\ told.c = k.c
    BY <2>2, <2>3
  <2>6. to_client' = <<told>>
    BY <1>1, <1>5
  <2> HIDE DEF told
  <2>7. report' = [to |-> k.src, cl |-> k.cl, from |-> k.dst, c |-> k.c]
    BY <2>2, <2>4, <2>5, <2>6 DEF report
  <2>8. Promise!Report(RequestOf(k))
    BY <1>3, <2>3, <2>7 DEF Promise!Report, RequestOf
  <2>9. RequestOf(k) \in requests
    BY DEF requests
  <2> QED
    BY <1>2, <2>8, <2>9 DEF Promise!Next
<1> QED
  BY <1>4, <1>5

LEMMA SocketSimulates ==
    ASSUME OrdersWereSent, SocketStep
    PROVE  Promise!Next /\ OrdersWereSent'
<1>1. OrdersWereSent'
  BY DEF SocketStep, OrdersWereSent, RouteOf, routing
<1>2. Promise!Silence
  BY DEF SocketStep, Promise!Silence, chains, requests, report
<1> QED
  BY <1>1, <1>2 DEF Promise!Next

\* The tables keep the promise: every behaviour of the router is a behaviour
\* of OrderChains, seen through the requests sent and the reports returned.
THEOREM Refinement ==
    ASSUME MaxUid < IdSpace
    PROVE  Spec => ImplementsOrderChains
<1>1. Init => Promise!Init /\ OrdersWereSent
  BY DEF Init, Promise!Init, chains, requests, report, OrdersWereSent,
         NoClOrdIds
<1>2. ASSUME IInv, OrdersWereSent, [Next]_vars
      PROVE  [Promise!Next]_(Promise!cvars) /\ OrdersWereSent'
  <2>1. CASE Next
    BY <1>2, <2>1, StepCases, RequestSimulates, ReportSimulates,
       SocketSimulates DEF IInv
  <2>2. CASE UNCHANGED vars
    BY <1>2, <2>2 DEF vars, routing, Promise!cvars, chains, requests, report,
       OrdersWereSent, RouteOf
  <2> QED
    BY <2>1, <2>2, <1>2
<1>3. Spec => []IInv
  BY TablesAgree
<1> QED
  BY <1>1, <1>2, <1>3, PTL DEF Spec, ImplementsOrderChains, Promise!Spec
=============================================================================
