--------------------------- MODULE MCRouterRestart ---------------------------
(***************************************************************************)
(* RouterRestart with both clients routed to one destination (the router   *)
(* that config.xml has commented out), where their ids can meet.           *)
(***************************************************************************)
EXTENDS RouterRestart, TLC

CONSTANTS s1, s2, d1, a, b

MCRouter == s1 :> "OneToOne" @@ s2 :> "OneToOne"
MCTargets == s1 :> <<d1>> @@ s2 :> <<d1>>
ClientIds == Permutations(ClOrdIds) \cup Permutations(Sources)
=============================================================================
