------------------------------ MODULE Pcapper ------------------------------
(***************************************************************************)
(* srpcapper, one on the server of each netconfig, as one client machine    *)
(* sees it.  It keeps at most one capture for a MAC address: start does     *)
(* nothing when there is one, stop leaves it to be retrieved, retrieve      *)
(* removes it.  A start that fails half way leaves an entry without a       *)
(* process, which no later request can use or remove.                       *)
(*                                                                         *)
(* The entries of two clients are independent, so one client is enough.     *)
(***************************************************************************)
EXTENDS Naturals

CONSTANTS
    NETCONFIGS,  \* the servers, one for each netconfig
    Jobs         \* the jobs of this client

VARIABLE pcaps   \* pcaps[nc]: the entry of the client on the server of nc

(* An entry: "none", "empty" (just {}), "running" or "stopped"; and the jobs *)
(* whose packets are in its capture file.                                    *)
Capture == [state : {"none", "empty", "running", "stopped"},
            traffic : SUBSET Jobs]

NoCapture == [state |-> "none", traffic |-> {}]

PcapperTypeOK == pcaps \in [NETCONFIGS -> Capture]
PcapperInit == pcaps = [nc \in NETCONFIGS |-> NoCapture]
-----------------------------------------------------------------------------
(* POST /start: PcapAlreadyRunning, which is reported as ok, or a tcpdump.   *)
Start(nc) ==
    pcaps' = IF pcaps[nc].state = "none"
             THEN [pcaps EXCEPT ![nc].state = "running"]
             ELSE pcaps

(* mkdtemp, the output file or tcpdump raised.                               *)
StartFails(nc) ==
    /\ pcaps[nc].state = "none"
    /\ pcaps' = [pcaps EXCEPT ![nc].state = "empty"]

(* POST /stop: ok for "running" and for "stopped", an error for the others.  *)
Stoppable(nc) == pcaps[nc].state \in {"running", "stopped"}
Stop(nc) == pcaps' = [pcaps EXCEPT ![nc].state = "stopped"]

(* Faulty: keeps the entry.                                                  *)
RetrieveKeeps(nc) == pcaps' = [pcaps EXCEPT ![nc].state = "stopped"]

(* POST /retrieve, after a stop.                                             *)
Retrieve(nc) == pcaps' = [pcaps EXCEPT ![nc] = NoCapture]

(* tcpdump sees the packets that job j sends to the server of nc.            *)
Sniff(nc, j) ==
    pcaps' = IF pcaps[nc].state = "running"
             THEN [pcaps EXCEPT ![nc].traffic = @ \union {j}]
             ELSE pcaps
=============================================================================
