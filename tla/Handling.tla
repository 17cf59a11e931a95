----------------------------- MODULE Handling -----------------------------
(***************************************************************************)
(* What a client machine promises about a job, and all that module Client   *)
(* assumes of it: handle() takes the job, then sends its results once or    *)
(* gives up on them, and returns; and it does return, unless srworker dies  *)
(* first.  The actions are those of the worker in module Client.            *)
(***************************************************************************)
EXTENDS Naturals

CONSTANT Jobs  \* the jobs of one client, 1 .. n

VARIABLES
    job,    \* the job at the head of the inbox
    phase,  \* "idle", "running" or "finished"
    sent    \* sent[j]: how often results of job j were sent

handling == <<job, phase, sent>>

Init ==
    /\ job = 1
    /\ phase = "idle"
    /\ sent = [j \in Jobs |-> 0]

(* WorkerReceive *)
Take ==
    /\ phase = "idle"
    /\ job \in Jobs
    /\ phase' = "running"
    /\ UNCHANGED <<job, sent>>

(* WorkerUploads *)
Upload ==
    /\ phase = "running"
    /\ sent' = [sent EXCEPT ![job] = @ + 1]
    /\ phase' = "finished"
    /\ UNCHANGED job

(* WorkerFailsToUpload *)
FailToUpload ==
    /\ phase = "running"
    /\ phase' = "finished"
    /\ UNCHANGED <<job, sent>>

(* WorkerReturns *)
Return ==
    /\ phase = "finished"
    /\ phase' = "idle"
    /\ job' = job + 1
    /\ UNCHANGED sent

(* WorkerFails *)
Fail ==
    /\ phase # "idle"
    /\ phase' = "idle"
    /\ UNCHANGED <<job, sent>>

Next == Take \/ Upload \/ FailToUpload \/ Return \/ Fail

Returns == phase # "idle" ~> phase = "idle"

Safety == Init /\ [][Next]_handling
Spec == Safety /\ Returns
=============================================================================
