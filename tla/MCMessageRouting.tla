-------------------------- MODULE MCMessageRouting --------------------------
(***************************************************************************)
(* Instances of MessageRouting for TLC: the two sources and two            *)
(* destinations of examples/trading_system/config/config.xml.              *)
(***************************************************************************)
EXTENDS MessageRouting, TLC

CONSTANTS s1, s2, d1, d2, a, b, e

\* config.xml: Source1 is RoundRobin over both, Source2 OneToOne to the first.
MCRouter == s1 :> "RoundRobin" @@ s2 :> "OneToOne"
MCTargets == s1 :> <<d1, d2>> @@ s2 :> <<d1>>

\* The router commented out in config.xml: OneToOne for both sources.
OneToOneRouter == s1 :> "OneToOne" @@ s2 :> "OneToOne"
OneToOneTargets == s1 :> <<d1>> @@ s2 :> <<d1>>

ClientIds == Permutations(ClOrdIds)
=============================================================================
