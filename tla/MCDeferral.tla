----------------------------- MODULE MCDeferral -----------------------------
(***************************************************************************)
(* A small instance of Deferral: a run for one netconfig and one system.    *)
(***************************************************************************)
EXTENDS Deferral

OnePush == {"push"}
OneNetconfig == {"gsm"}
OneSystem == {"linux"}

AsksForAllNetconfigs == [r \in Requests |-> NETCONFIGS]
AsksForAllSystems == [r \in Requests |-> OPERATING_SYSTEMS]
=============================================================================
