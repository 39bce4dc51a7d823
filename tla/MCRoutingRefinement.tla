------------------------- MODULE MCRoutingRefinement -------------------------
(***************************************************************************)
(* RoutingRefinement on the topology of config.xml.                        *)
(***************************************************************************)
EXTENDS RoutingRefinement, TLC

CONSTANTS s1, s2, d1, d2, a, b

MCRouter == s1 :> "RoundRobin" @@ s2 :> "OneToOne"
MCTargets == s1 :> <<d1, d2>> @@ s2 :> <<d1>>

ClientIds == Permutations(ClOrdIds)
=============================================================================
