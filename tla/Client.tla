------------------------------- MODULE Client -------------------------------
(***************************************************************************)
(* The client machines.  Linux and mac run srworker, a QueueListener.  The  *)
(* windows machine runs srwebworker, which polls srwebmq for the rows that  *)
(* srmqproxy wrote into an sqlite table on the master.  Both workers handle *)
(* a job with the same handle(): a fresh work directory, the test, and an   *)
(* upload of whatever there is to upload, which goes to sr_outgoing.  The   *)
(* stages of the test are the subject of module Worker.                     *)
(***************************************************************************)
EXTENDS Queues

CONSTANT WebClients  \* the operating systems served through srwebmq

ASSUME WebClientsAssumption == WebClients \subseteq OPERATING_SYSTEMS

VARIABLES
    worker,      \* worker[o]: where handle() is
    workdirs,    \* workdirs[o]: work directories on the client
    proxy,       \* proxy[o]: srmqproxy has committed the row of the head
    runs,        \* runs[o]: rows of the sqlite table that are not done
    response,    \* response[o]: the job srwebworker got from srwebmq, if any
    unreported,  \* jobs a worker finished without an upload
    forgotten    \* jobs that died with a reply or with srwebworker

clientVars == <<worker, workdirs, proxy, runs, response,
                unreported, forgotten>>
-----------------------------------------------------------------------------
(* <srid>/<netconfig>, or <srid>/<netconfig>_<tstamp>; a timestamp is not 0. *)
Workdir == [srid : Srid, netconfig : NETCONFIGS, tstamp : Nat]
PlainDir(m) == [m EXCEPT !.tstamp = 0]
StampedDir(m) == m

ClientTypeOK ==
    /\ worker \in [OPERATING_SYSTEMS -> {"idle", "running", "finished"}]
    /\ workdirs \in [OPERATING_SYSTEMS -> SUBSET Workdir]
    /\ proxy \in [OPERATING_SYSTEMS -> BOOLEAN]
    /\ runs \in [OPERATING_SYSTEMS -> Seq(ClientMessage)]
    /\ response \in [OPERATING_SYSTEMS -> Seq(ClientMessage)]
    /\ unreported \subseteq Job
    /\ forgotten \subseteq Job

ClientInit ==
    /\ worker = [o \in OPERATING_SYSTEMS |-> "idle"]
    /\ workdirs = [o \in OPERATING_SYSTEMS |-> {}]
    /\ proxy = [o \in OPERATING_SYSTEMS |-> FALSE]
    /\ runs = [o \in OPERATING_SYSTEMS |-> <<>>]
    /\ response = [o \in OPERATING_SYSTEMS |-> <<>>]
    /\ unreported = {}
    /\ forgotten = {}

(* What the worker of o handles next: the broker's delivery, or the reply.   *)
Inbox(o) == IF o \in WebClients THEN response[o] ELSE client_queue[o]

JobOn(m, o) == JobOf(m.srid.run, m.netconfig, o)
-----------------------------------------------------------------------------
(* handle() begins with a work directory of its own.  os.makedirs raises     *)
(* when the stamped name is taken too: see WorkerSkips for srwebworker; in   *)
(* srworker the exception closes the connection, and the broker hands the    *)
(* message to the next StoneRidgeWorker of main()'s loop, unchanged.         *)
WorkerReceive(o) ==
    /\ worker[o] = "idle"
    /\ Inbox(o) # <<>>
    /\ LET m == Head(Inbox(o))
           dir == IF PlainDir(m) \in workdirs[o] THEN StampedDir(m)
                                                 ELSE PlainDir(m)
       IN  /\ dir \notin workdirs[o]
           /\ workdirs' = [workdirs EXCEPT ![o] = @ \union {dir}]
    /\ worker' = [worker EXCEPT ![o] = "running"]
    /\ UNCHANGED <<queueVars, faultVars, proxy, runs, response,
                   unreported, forgotten>>

(* srwebworker logs the exception of makedirs and asks for the next job.     *)
WorkerSkips(o) ==
    /\ o \in WebClients
    /\ worker[o] = "idle"
    /\ response[o] # <<>>
    /\ LET m == Head(response[o])
       IN  /\ {PlainDir(m), StampedDir(m)} \subseteq workdirs[o]
           /\ unreported' = unreported \union {JobOn(m, o)}
    /\ response' = [response EXCEPT ![o] = <<>>]
    /\ UNCHANGED <<queueVars, faultVars, worker, workdirs, proxy, runs,
                   forgotten>>

(* Faulty: uploads again, as if uploaded were not set before sruploader ran. *)
WorkerUploadsAgain(o) ==
    /\ worker[o] = "running"
    /\ outgoing' = Append(outgoing, JobOn(Head(Inbox(o)), o))
    /\ \E again \in {"running", "finished"} :
            worker' = [worker EXCEPT ![o] = again]
    /\ UNCHANGED <<incoming, netconfig_queue, client_queue, faultVars,
                   workdirs, proxy, runs, response, unreported, forgotten>>

(* The test ran, or failed at some stage: sruploader sends what there is.    *)
WorkerUploads(o) ==
    /\ worker[o] = "running"
    /\ outgoing' = Append(outgoing, JobOn(Head(Inbox(o)), o))
    /\ worker' = [worker EXCEPT ![o] = "finished"]
    /\ UNCHANGED <<incoming, netconfig_queue, client_queue, faultVars,
                   workdirs, proxy, runs, response, unreported, forgotten>>

(* sruploader failed; run_process swallows that, and handle() returns.       *)
WorkerFailsToUpload(o) ==
    /\ worker[o] = "running"
    /\ unreported' = unreported \union {JobOn(Head(Inbox(o)), o)}
    /\ worker' = [worker EXCEPT ![o] = "finished"]
    /\ UNCHANGED <<queueVars, faultVars, workdirs, proxy, runs, response,
                   forgotten>>

(* handle() returned: basic_ack, or srwebworker's loop goes round.           *)
WorkerReturns(o) ==
    /\ worker[o] = "finished"
    /\ IF o \in WebClients
       THEN /\ response' = [response EXCEPT ![o] = <<>>]
            /\ UNCHANGED client_queue
       ELSE /\ client_queue' = Acknowledge(client_queue, o)
            /\ UNCHANGED response
    /\ worker' = [worker EXCEPT ![o] = "idle"]
    /\ UNCHANGED <<incoming, netconfig_queue, outgoing, faultVars, workdirs,
                   proxy, runs, unreported, forgotten>>

(* srworker dies, raises or loses its connection before the acknowledgement. *)
WorkerFails(o) ==
    /\ o \notin WebClients
    /\ worker[o] # "idle"
    /\ Fails
    /\ worker' = [worker EXCEPT ![o] = "idle"]
    /\ UNCHANGED <<queueVars, workdirs, proxy, runs, response,
                   unreported, forgotten>>

(* srwebworker dies with the job: the row is done and nobody has it.         *)
WebWorkerDies(o) ==
    /\ response[o] # <<>>
    /\ Loses
    /\ forgotten' = forgotten \union {JobOn(Head(response[o]), o)}
    /\ response' = [response EXCEPT ![o] = <<>>]
    /\ worker' = [worker EXCEPT ![o] = "idle"]
    /\ UNCHANGED <<queueVars, workdirs, proxy, runs, unreported>>
-----------------------------------------------------------------------------
(* Faulty: the row is not committed.                                         *)
ProxyForgets(o) ==
    /\ o \in WebClients
    /\ ~proxy[o]
    /\ client_queue[o] # <<>>
    /\ proxy' = [proxy EXCEPT ![o] = TRUE]
    /\ UNCHANGED <<queueVars, faultVars, worker, workdirs, runs, response,
                   unreported, forgotten>>

(* srmqproxy: insert and commit, then acknowledge.                           *)
ProxyInsert(o) ==
    /\ o \in WebClients
    /\ ~proxy[o]
    /\ client_queue[o] # <<>>
    /\ runs' = [runs EXCEPT ![o] = Append(@, Head(client_queue[o]))]
    /\ proxy' = [proxy EXCEPT ![o] = TRUE]
    /\ UNCHANGED <<queueVars, faultVars, worker, workdirs, response,
                   unreported, forgotten>>

ProxyAck(o) ==
    /\ proxy[o]
    /\ client_queue' = Acknowledge(client_queue, o)
    /\ proxy' = [proxy EXCEPT ![o] = FALSE]
    /\ UNCHANGED <<incoming, netconfig_queue, outgoing, faultVars, worker,
                   workdirs, runs, response, unreported, forgotten>>

ProxyFails(o) ==
    /\ proxy[o]
    /\ Fails
    /\ proxy' = [proxy EXCEPT ![o] = FALSE]
    /\ UNCHANGED <<queueVars, worker, workdirs, runs, response,
                   unreported, forgotten>>

(* srwebmq get_next: the first row that is not done becomes done, and its    *)
(* config is the reply.  A row that is done is never read again.             *)
GetNext(o) ==
    /\ response[o] = <<>>
    /\ runs[o] # <<>>
    /\ response' = [response EXCEPT ![o] = <<Head(runs[o])>>]
    /\ runs' = [runs EXCEPT ![o] = Tail(@)]
    /\ UNCHANGED <<queueVars, faultVars, worker, workdirs, proxy,
                   unreported, forgotten>>

(* The row is done, but the reply does not reach srwebworker.                *)
ReplyLost(o) ==
    /\ response[o] = <<>>
    /\ runs[o] # <<>>
    /\ Loses
    /\ forgotten' = forgotten \union {JobOn(Head(runs[o]), o)}
    /\ runs' = [runs EXCEPT ![o] = Tail(@)]
    /\ UNCHANGED <<queueVars, worker, workdirs, proxy, response, unreported>>

WorkerStep(o) ==
    \/ WorkerReceive(o)
    \/ WorkerSkips(o)
    \/ WorkerUploads(o)
    \/ WorkerFailsToUpload(o)
    \/ WorkerReturns(o)
=============================================================================
