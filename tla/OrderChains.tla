----------------------------- MODULE OrderChains -----------------------------
(***************************************************************************)
(* What the router promises its clients and venues, without its tables.    *)
(* An order opens a chain between one client and one venue; every later    *)
(* request of the chain goes to that venue under an id of its own, and a   *)
(* report about any of them goes back to that client.  Requests outside    *)
(* any chain (the router passes on what it refused) are answered by no     *)
(* report.                                                                 *)
(***************************************************************************)
EXTENDS Naturals

CONSTANTS Sources, Destinations, ClOrdIds,
          Ids,    \* ids of chains and requests; 0 names no chain
          None

VARIABLES
    chains,    \* the orders opened: who, and at which venue
    requests,  \* the requests the venues were sent
    report     \* the report handed to a client by the last step, or None

cvars == <<chains, requests, report>>

Chain == [uid : Ids, src : Sources, dst : Destinations]

FreshIds == {c \in Ids : \A r \in requests : r.c # c}

Ask(chain, c, cl) ==
    /\ requests' = requests \cup
         {[uid |-> chain.uid, src |-> chain.src, dst |-> chain.dst,
           c |-> c, cl |-> cl]}
    /\ report' = None

Open(chain, c, cl) ==
    /\ chain.uid # 0
    /\ \A other \in chains : other.uid # chain.uid
    /\ chains' = chains \cup {chain}
    /\ Ask(chain, c, cl)

Continue(chain, c, cl) ==
    /\ UNCHANGED chains
    /\ Ask(chain, c, cl)

Stray(chain, c, cl) ==
    /\ chain.uid = 0
    /\ UNCHANGED chains
    /\ Ask(chain, c, cl)

Report(r) ==
    /\ r.uid # 0
    /\ report' = [to |-> r.src, cl |-> r.cl, from |-> r.dst, c |-> r.c]
    /\ UNCHANGED <<chains, requests>>

Silence ==
    /\ report' = None
    /\ UNCHANGED <<chains, requests>>

Init == chains = {} /\ requests = {} /\ report = None

Next ==
    \/ Silence
    \/ \E r \in requests : Report(r)
    \/ \E c \in FreshIds, cl \in ClOrdIds :
         \/ \E chain \in chains : Continue(chain, c, cl)
         \/ \E chain \in Chain : Open(chain, c, cl) \/ Stray(chain, c, cl)

Spec == Init /\ [][Next]_cvars

-----------------------------------------------------------------------------
(***************************************************************************)
(* With restarts: everything is forgotten at once.  Reports are about      *)
(* requests made since; that a venue may mean an older request of the same *)
(* id is outside this promise.                                             *)
(***************************************************************************)
Forget ==
    /\ chains' = {}
    /\ requests' = {}
    /\ report' = None

ForgetfulSpec == Init /\ [][Next \/ Forget]_cvars

=============================================================================
