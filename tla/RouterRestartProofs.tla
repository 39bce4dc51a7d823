------------------------- MODULE RouterRestartProofs -------------------------
(***************************************************************************)
(* A router that restarts any number of times tells no client about an     *)
(* order that is not the client's own: every process starts with empty     *)
(* tables, so the invariant of MessageRouting starts over with it, and a   *)
(* report the tables do not know is dropped for want of a uid.             *)
(***************************************************************************)
EXTENDS RouterRestart, RoutingRefinementProofs

RInv == IInv /\ past \subseteq SentMessages /\ LateReportsAreDropped

\* A report about whatever venue id: known to this process or dropped.
LEMMA ReportIsAboutOwn ==
    ASSUME IInv, NEW d, NEW kind, NEW c, ReportStep(d, kind, c)
    PROVE  LateReportsAreDropped'
<1> DEFINE info == src_routing_info_by_dest_cl_ord_id[d][c]
           known == info # None
           s == uid_to_source_session[IF known THEN info.uid ELSE 0]
           cl == IF known THEN info.cl_ord_id ELSE None
           told == [to |-> s, kind |-> kind, cl |-> cl, from |-> d, c |-> c]
<1>1. /\ d \in Destinations /\ c \in DestIds /\ sent' = sent
      /\ to_client' = IF s = None THEN <<>> ELSE <<told>>
  BY DEF ReportStep, procoess_message_from_transport,
     handle_cl_ord_id_from_destination, send_message_to_source
<1>2. CASE s = None
  BY <1>1, <1>2 DEF LateReportsAreDropped
<1>3. CASE s # None
  <2>1. known /\ info.uid # 0
    BY <1>3, BoundAssumption DEF IInv, IdsAreFresh, Uids
  <2>2. PICK m \in sent : /\ m.dst = d /\ m.c = c
                          /\ m.cl = info.cl_ord_id /\ m.uid = info.uid
    BY <1>1, <2>1 DEF IInv, InfoIsOfSent
  <2>3. m.src = s /\ m.cl = cl
    BY <2>1, <2>2 DEF IInv, SentIsRouted
  <2>4. /\ told.from = m.dst /\ told.c = m.c
        /\ told.to = m.src /\ told.cl = m.cl
    BY <2>2, <2>3
  <2>5. to_client' = <<told>>
    BY <1>1, <1>3
  <2> HIDE DEF told
  <2> QED
    BY <1>1, <2>4, <2>5 DEF LateReportsAreDropped
<1> QED
  BY <1>2, <1>3

\* A request's handler tells its client nothing but rejects.
LEMMA RequestTellsRejects ==
    ASSUME TypeOK, NEW m, NEW n, RequestStep(m, n)
    PROVE  LateReportsAreDropped'
<1>1. \E k \in Nat : to_client' = Rejects(m, k)
  BY DEF RequestStep, RequestOutcome, Refuse, procoess_message_to_transport
<1>2. PICK k \in Nat : to_client' = Rejects(m, k)
  BY <1>1
<1>3. \A i \in DOMAIN Rejects(m, k) : Rejects(m, k)[i].c = None
  BY DEF Rejects
<1> QED
  BY <1>2, <1>3 DEF LateReportsAreDropped

LEMMA HandlerStep ==
    ASSUME RInv, Next, UNCHANGED <<past, restarts>>
    PROVE  RInv'
<1>1. IInv'
  BY NextKeepsInv DEF RInv
<1>2. ASSUME SocketStep
      PROVE  LateReportsAreDropped'
  BY <1>2 DEF SocketStep, LateReportsAreDropped
<1>3. LateReportsAreDropped'
  BY <1>2, StepCases, RequestTellsRejects, ReportIsAboutOwn DEF RInv, IInv
<1> QED
  BY <1>1, <1>3 DEF RInv

LEMMA RestartStep ==
    ASSUME RInv, Restart
    PROVE  RInv'
<1>1. Init'
  BY DEF Restart, RestartDestinations, Init, NoClOrdIds, NoUids, NoDestIds
<1>2. IInv'
  BY <1>1, InitInv, PTL
<1>3. past' \subseteq SentMessages
  BY DEF Restart, RInv, IInv, TypeOK
<1>4. LateReportsAreDropped'
  BY DEF Restart, LateReportsAreDropped
<1> QED
  BY <1>2, <1>3, <1>4 DEF RInv

LEMMA LateStep ==
    ASSUME RInv, NEW d \in Destinations, LateReport(d)
    PROVE  RInv'
<1>1. PICK m \in past : /\ m.dst = d
                        /\ ExecutionReport(d, m.c) \/ CancelReject(d, m.c)
  BY DEF LateReport
<1>2. m.c \in DestIds /\ past' = past
  BY <1>1 DEF RInv, SentMessages, LateReport
<1>3. \E kind : ReportStep(d, kind, m.c)
  BY <1>1, <1>2 DEF ExecutionReport, CancelReject, ReportStep
<1> QED
  BY <1>2, <1>3, ReportKeepsInv, ReportIsAboutOwn DEF RInv

LEMMA RInitInv == RInit => RInv
  BY InitInv DEF RInit, Init, RInv, LateReportsAreDropped

LEMMA RStep ==
    ASSUME RInv, [RNext]_rvars
    PROVE  RInv'
<1>1. CASE Next /\ UNCHANGED <<past, restarts>>
  BY <1>1, HandlerStep
<1>2. CASE Restart
  BY <1>2, RestartStep
<1>3. CASE \E d \in Destinations : LateReport(d)
  BY <1>3, LateStep
<1>4. CASE UNCHANGED rvars
  <2>1. UNCHANGED vars /\ past' = past
    BY <1>4 DEF rvars
  <2>2. IInv'
    BY <2>1, NextKeepsInv DEF RInv
  <2> QED
    BY <2>1, <2>2 DEF RInv, vars, LateReportsAreDropped
<1> QED
  BY <1>1, <1>2, <1>3, <1>4 DEF RNext

(***************************************************************************)
(* Whatever the clients and venues do, however often the router is         *)
(* restarted and however many ids it draws, a client is told only about    *)
(* requests of its own that the running process sent.                      *)
(***************************************************************************)
THEOREM LateReportsDropped == RSpec => []LateReportsAreDropped
  BY RInitInv, RStep, PTL DEF RSpec, RInv

\* What is proved of the tables of one process holds of each: reports go to
\* the first user of their id, chains stay, orders are addressable and ids
\* repeat only after a round.
THEOREM TablesAgreeAfterRestarts ==
    RSpec => [](/\ ReportsGoToFirstUser /\ ChainStaysAtOneDestination
                /\ OrdersStayAddressable /\ IdsRepeatOnlyAfterRound)
<1>1. RInv => /\ ReportsGoToFirstUser /\ ChainStaysAtOneDestination
              /\ OrdersStayAddressable /\ IdsRepeatOnlyAfterRound
  BY RoundsApart DEF RInv, IInv, SentIsRouted, ChainStaysAtOneDestination
<1> QED
  BY RInitInv, RStep, <1>1, PTL DEF RSpec

-----------------------------------------------------------------------------
(* Refinement of OrderChains with Forget.                                  *)

LEMMA RestartForgets ==
    ASSUME Restart
    PROVE  Promise!Forget /\ OrdersWereSent'
<1>1. sent' = {} /\ to_client' = <<>>
  BY DEF Restart
<1>2. Promise!Forget
  BY <1>1 DEF Promise!Forget, chains, requests, report
<1>3. cl_ord_id_to_uid' = [s \in Sources |-> NoClOrdIds]
  BY DEF Restart
<1> QED
  BY <1>2, <1>3 DEF OrdersWereSent, NoClOrdIds

\* To the tables a late report is a report under some id.
LEMMA LateSimulates ==
    ASSUME RInv, OrdersWereSent, NEW d \in Destinations, LateReport(d)
    PROVE  Promise!Next /\ OrdersWereSent'
<1>1. PICK m \in past : /\ m.dst = d
                        /\ ExecutionReport(d, m.c) \/ CancelReject(d, m.c)
  BY DEF LateReport
<1>2. m.c \in DestIds
  BY <1>1 DEF RInv, SentMessages
<1>3. \E kind : ReportStep(d, kind, m.c)
  BY <1>1, <1>2 DEF ExecutionReport, CancelReject, ReportStep
<1> QED
  BY <1>3, ReportSimulates DEF RInv

(***************************************************************************)
(* However often the router is restarted: it keeps the promise of          *)
(* OrderChains in between, and forgets all chains together.                *)
(***************************************************************************)
THEOREM RestartRefinement ==
    ASSUME MaxUid < IdSpace
    PROVE  RSpec => ImplementsForgetfulChains
<1>1. RInit => Promise!Init /\ OrdersWereSent
  BY DEF RInit, Init, Promise!Init, chains, requests, report, OrdersWereSent,
         NoClOrdIds
<1>2. ASSUME RInv, OrdersWereSent, [RNext]_rvars
      PROVE  [Promise!Next \/ Promise!Forget]_(Promise!cvars)
             /\ OrdersWereSent'
  <2>1. CASE Next /\ UNCHANGED <<past, restarts>>
    BY <1>2, <2>1, StepCases, RequestSimulates, ReportSimulates,
       SocketSimulates DEF RInv, IInv
  <2>2. CASE Restart
    BY <2>2, RestartForgets
  <2>3. CASE \E d \in Destinations : LateReport(d)
    BY <1>2, <2>3, LateSimulates
  <2>4. CASE UNCHANGED rvars
    BY <1>2, <2>4 DEF rvars, vars, routing, Promise!cvars, chains, requests,
       report, OrdersWereSent, RouteOf
  <2> QED
    BY <1>2, <2>1, <2>2, <2>3, <2>4 DEF RNext
<1> QED
  BY RInitInv, RStep, <1>1, <1>2, PTL
     DEF RSpec, ImplementsForgetfulChains, Promise!ForgetfulSpec

=============================================================================
