------------------------------ MODULE Reporter ------------------------------
(***************************************************************************)
(* srreporter: it posts the data sets of a result to datazilla, whatever    *)
(* datazilla answers, then save_data() archives the result and emails it to *)
(* who asked for the run.                                                   *)
(***************************************************************************)
EXTENDS Queues

VARIABLES
    reporter,  \* where handle() is
    posted,    \* posted[j]: how often the data of job j went to datazilla
    archived   \* archived[j]: how often job j was archived and emailed

reporterVars == <<reporter, posted, archived>>

ReporterTypeOK ==
    /\ reporter \in {"idle", "posted", "saved"}
    /\ posted \in [Job -> Nat]
    /\ archived \in [Job -> Nat]

ReporterInit ==
    /\ reporter = "idle"
    /\ posted = [j \in Job |-> 0]
    /\ archived = [j \in Job |-> 0]
-----------------------------------------------------------------------------
ReporterPosts ==
    /\ reporter = "idle"
    /\ outgoing # <<>>
    /\ posted' = [posted EXCEPT ![Head(outgoing)] = @ + 1]
    /\ reporter' = "posted"
    /\ UNCHANGED <<queueVars, faultVars, archived>>

(* A second archive of a job gets a directory of its own, and another email. *)
ReporterSaves ==
    /\ reporter = "posted"
    /\ archived' = [archived EXCEPT ![Head(outgoing)] = @ + 1]
    /\ reporter' = "saved"
    /\ UNCHANGED <<queueVars, faultVars, posted>>

ReporterAck ==
    /\ reporter = "saved"
    /\ outgoing' = Tail(outgoing)
    /\ reporter' = "idle"
    /\ UNCHANGED <<incoming, netconfig_queue, client_queue, faultVars,
                   posted, archived>>

(* request.send or makedirs raised, srreporter died, the connection closed.  *)
ReporterFails ==
    /\ reporter # "idle"
    /\ Fails
    /\ reporter' = "idle"
    /\ UNCHANGED <<queueVars, posted, archived>>

ReporterStep == ReporterPosts \/ ReporterSaves \/ ReporterAck
=============================================================================
