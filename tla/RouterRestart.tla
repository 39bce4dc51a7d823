---------------------------- MODULE RouterRestart ----------------------------
(***************************************************************************)
(* MessageRouting with restarts of the router process.  Nothing that       *)
(* routes is persisted (framework/persistance holds only todo stubs), so a *)
(* restart empties every table and starts UIDGenerator at 0 again, while   *)
(* the venues keep the orders they have and go on reporting about them     *)
(* under the ids the earlier process gave them.                            *)
(***************************************************************************)
EXTENDS RoutingRefinement

CONSTANT MaxRestarts   \* bound on the restarts of one behaviour
ASSUME RestartAssumption == MaxRestarts \in Nat

VARIABLES
    past,     \* what earlier processes sent
    restarts  \* how many there were

rvars == <<vars, past, restarts>>

\* Mutant: the destination sessions' tables are restored, nothing else is.
RestartDestinations_Restored ==
    UNCHANGED <<dest_cl_ord_id_by_src_cl_ord_id,
                src_routing_info_by_dest_cl_ord_id>>

RestartDestinations ==
    /\ dest_cl_ord_id_by_src_cl_ord_id' = [d \in Destinations |-> NoClOrdIds]
    /\ src_routing_info_by_dest_cl_ord_id' = [d \in Destinations |-> NoDestIds]

\* The process ends between two handlers and is started again.
Restart ==
    /\ restarts < MaxRestarts
    /\ restarts' = restarts + 1
    /\ past' = past \cup sent
    /\ uid' = 0
    /\ cl_ord_id_to_uid' = [s \in Sources |-> NoClOrdIds]
    /\ uid_to_source_session' = NoUids
    /\ index' = [s \in Sources |-> 0]
    /\ uid_to_destination' = [s \in Sources |-> NoUids]
    /\ RestartDestinations
    /\ link' \in [Destinations -> {"connecting", "closed"}]
    /\ sent' = {}
    /\ to_client' = <<>>

\* A venue reports about a request of an earlier process.
LateReport(d) ==
    /\ \E m \in past : /\ m.dst = d /\ m.link = "up"
                       /\ ExecutionReport(d, m.c) \/ CancelReject(d, m.c)
    /\ UNCHANGED <<past, restarts>>

RInit == Init /\ past = {} /\ restarts = 0

RNext ==
    \/ Next /\ UNCHANGED <<past, restarts>>
    \/ Restart
    \/ \E d \in Destinations : LateReport(d)

RSpec == RInit /\ [][RNext]_rvars

-----------------------------------------------------------------------------
(***************************************************************************)
(* What a client is told names a request of its own that this process      *)
(* sent: a report under an id that this process has not used at that venue *)
(* is dropped, never passed to whoever owns its uid now.  (A late report   *)
(* under an id that has been drawn again cannot be told from one about the *)
(* request that has it now, and reaches that request's client.)            *)
(***************************************************************************)
LateReportsAreDropped ==
    \A i \in DOMAIN to_client : to_client[i].c # None =>
      \E m \in sent : /\ m.dst = to_client[i].from
                      /\ m.c = to_client[i].c
                      /\ m.src = to_client[i].to
                      /\ m.cl = to_client[i].cl

(***************************************************************************)
(* Between two restarts the router keeps the promise of OrderChains, and a *)
(* restart forgets chains, requests and reports together: none of the      *)
(* tables it empties outlives another.  What venues report about the past  *)
(* reaches a chain of the present only under the id of one of its own      *)
(* requests, which that past had used before, and is taken for a report    *)
(* about that request.                                                     *)
(***************************************************************************)
ImplementsForgetfulChains == Promise!ForgetfulSpec

=============================================================================
