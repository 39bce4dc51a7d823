-------------------------- MODULE RoutingRefinement --------------------------
(***************************************************************************)
(* MessageRouting implements OrderChains: the chains are the new orders    *)
(* that were sent, and the four tables a request or a report is looked up  *)
(* in together never send it anywhere else.                                *)
(***************************************************************************)
EXTENDS MessageRouting

ChainOf(m) == [uid |-> m.uid, src |-> m.src, dst |-> m.dst]

RequestOf(m) == [uid |-> m.uid, src |-> m.src, dst |-> m.dst,
                 c |-> m.c, cl |-> m.cl]

chains == {ChainOf(m) : m \in {x \in sent : x.kind = "NewOrderSingle"}}

requests == {RequestOf(m) : m \in sent}

\* A reject names no venue, so what names one is a report.
report ==
    IF to_client # <<>> /\ to_client[1].from # None
    THEN [to |-> to_client[1].to, cl |-> to_client[1].cl,
          from |-> to_client[1].from, c |-> to_client[1].c]
    ELSE None

Promise == INSTANCE OrderChains WITH Ids <- DestIds

(***************************************************************************)
(* Every step of the router opens a chain, continues one, passes on a      *)
(* stray request, reports to a chain's client, or is silent (as long as    *)
(* the generator has not outgrown the venues' id field).                   *)
(***************************************************************************)
ImplementsOrderChains == Promise!Spec

=============================================================================
