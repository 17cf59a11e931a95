---------------------------- MODULE MCStoneRidge ----------------------------
(***************************************************************************)
(* Small instances of StoneRidge: two netconfigs and two clients, linux on  *)
(* RabbitMQ and windows on srwebmq.                                         *)
(***************************************************************************)
EXTENDS StoneRidge

(* One pushed run that asks for everything.                                  *)
OnePush == {"push"}
(* One pushed run for one job, and the nightly.                              *)
PushAndNightly == {"push", "nightly"}

BothNetconfigs == {"broadband", "gsm"}
OneNetconfig == {"gsm"}
BothSystems == {"linux", "windows"}
OneSystem == {"linux"}
OneWindows == {"windows"}
NoSystem == {}

AsksForAllNetconfigs == [r \in Requests |-> NETCONFIGS]
AsksForAllSystems == [r \in Requests |-> OPERATING_SYSTEMS]
=============================================================================
