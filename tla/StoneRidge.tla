----------------------------- MODULE StoneRidge -----------------------------
(***************************************************************************)
(* The whole pipeline: srmaster, the srschedulers, the clients and          *)
(* srreporter, which share nothing but the queues.  Requests go in at one   *)
(* end, and reports come out at the other.                                  *)
(***************************************************************************)
EXTENDS Master, Scheduler, Client, Reporter

vars == <<queueVars, faultVars, masterVars, scheduler, clientVars,
          reporterVars>>

TypeOK ==
    /\ QueuesTypeOK
    /\ MasterTypeOK
    /\ SchedulerTypeOK
    /\ ClientTypeOK
    /\ ReporterTypeOK

Init ==
    /\ QueuesInit
    /\ MasterInit
    /\ SchedulerInit
    /\ ClientInit
    /\ ReporterInit
-----------------------------------------------------------------------------
OnlyMaster == UNCHANGED <<scheduler, clientVars, reporterVars>>
OnlySchedulers == UNCHANGED <<masterVars, clientVars, reporterVars>>
OnlyClients == UNCHANGED <<masterVars, scheduler, reporterVars>>
OnlyReporter == UNCHANGED <<masterVars, scheduler, clientVars>>

(* What the daemons do by themselves.                                        *)
MasterWorks == MasterStep /\ OnlyMaster
DeferrersWork == (\E d \in deferrers : DeferrerWakes(d)) /\ OnlyMaster
SchedulerWorks(nc) == SchedulerStep(nc) /\ OnlySchedulers
WorkerWorks(o) == WorkerStep(o) /\ OnlyClients
ProxyWorks(o) == (ProxyInsert(o) \/ ProxyAck(o)) /\ OnlyClients
WebmqWorks(o) == GetNext(o) /\ OnlyClients
ReporterWorks == ReporterStep /\ OnlyReporter

(* What happens to them.                                                     *)
Asked == (\E r \in Requests : Submit(r)) /\ OnlyMaster

Redelivery ==
    \/ MasterFails /\ OnlyMaster
    \/ \E nc \in NETCONFIGS : SchedulerFails(nc) /\ OnlySchedulers
    \/ \E o \in OPERATING_SYSTEMS :
            (WorkerFails(o) \/ ProxyFails(o)) /\ OnlyClients
    \/ ReporterFails /\ OnlyReporter

Death ==
    \/ (\E d \in deferrers : DeferrerDies(d)) /\ OnlyMaster
    \/ \E o \in OPERATING_SYSTEMS :
            (WebWorkerDies(o) \/ ReplyLost(o)) /\ OnlyClients

Next ==
    \/ Asked
    \/ MasterWorks
    \/ DeferrersWork
    \/ \E nc \in NETCONFIGS : SchedulerWorks(nc)
    \/ \E o \in OPERATING_SYSTEMS :
            WorkerWorks(o) \/ ProxyWorks(o) \/ WebmqWorks(o)
    \/ ReporterWorks
    \/ Redelivery
    \/ Death

(* Every daemon keeps working: it reconnects when its connection closes, and *)
(* somebody restarts it when it died.  Nobody has to ask for a run.          *)
Fairness ==
    /\ WF_vars(MasterWorks)
    /\ WF_vars(DeferrersWork)
    /\ \A nc \in NETCONFIGS : WF_vars(SchedulerWorks(nc))
    /\ \A o \in OPERATING_SYSTEMS :
            WF_vars(WorkerWorks(o)) /\ WF_vars(ProxyWorks(o))
                /\ WF_vars(WebmqWorks(o))
    /\ WF_vars(ReporterWorks)

Spec == Init /\ [][Next]_vars
FairSpec == Spec /\ Fairness
-----------------------------------------------------------------------------
(* Where a job still is, from the reporter back to the master.               *)
Reported(j) == archived[j] > 0
GivenUp == unreported \union forgotten

AtReporter(j) == j \in Range(outgoing) \/ Reported(j) \/ j \in GivenUp

(* The windows jobs that srmqproxy passed on, and all jobs of client o.      *)
Rows(o) == Range(runs[o]) \union Range(response[o])
OnClient(o) == Range(client_queue[o]) \union Rows(o)

AtClient(j) ==
    \/ \E m \in OnClient(j.operating_system) : JobOn(m, j.operating_system) = j
    \/ AtReporter(j)

AtScheduler(j) ==
    \/ \E m \in Range(netconfig_queue[j.netconfig]) : m.srid.run = j.run
    \/ AtClient(j)

AtMaster(r) == \E m \in Range(incoming) : m.srid.run = r
Deferred(r) == \E d \in deferrers : d.srid.run = r
Closed == cancelled \union dropped \union killed

(* Every job of a run that was accepted is somewhere between the master and  *)
(* the archive, however often the consumers of the queues fail, unless the   *)
(* run was cancelled or dropped by srcloner or died with a deferrer, or the  *)
(* job itself was given up on a client.                                      *)
NoJobLost ==
    \A r \in accepted \ Closed :
        AtMaster(r) \/ Deferred(r) \/ \A j \in JobsOf(r) : AtScheduler(j)

(* What each consumer has passed on when it may acknowledge its message.     *)
MasterHandedOn ==
    \A r \in Requests : master.phase = "dispatching" /\ master.srid.run = r =>
        \/ r \in Closed
        \/ Deferred(r)
        \/ \E m \in Range(Tail(incoming)) : m.srid.run = r
        \/ \A j \in JobsOf(r) : j.netconfig \notin master.todo => AtScheduler(j)

SchedulerHandedOn ==
    \A nc \in NETCONFIGS, r \in Requests :
        scheduler[nc].busy /\ Head(netconfig_queue[nc]).srid.run = r =>
            \A o \in Systems(r) :
                o \notin scheduler[nc].todo => AtClient(JobOf(r, nc, o))

WorkerHandedOn ==
    \A o \in OPERATING_SYSTEMS : \A m \in OnClient(o) :
        worker[o] = "finished" /\ Head(Inbox(o)) = m => AtReporter(JobOn(m, o))

ProxyHandedOn ==
    \A o \in OPERATING_SYSTEMS : \A m \in OnClient(o) :
        proxy[o] /\ Head(client_queue[o]) = m =>
            \/ \E n \in Rows(o) : JobOn(n, o) = JobOn(m, o)
            \/ AtReporter(JobOn(m, o))

ReporterHandedOn == reporter = "saved" => Reported(Head(outgoing))

HandedOn ==
    /\ MasterHandedOn
    /\ SchedulerHandedOn
    /\ WorkerHandedOn
    /\ ProxyHandedOn
    /\ ReporterHandedOn

(* A message that is delivered again makes at most one more copy of a job,   *)
(* so the graphs and the mail of a run without failures have it once.        *)
OneCopyPerFailure == \A j \in Job : posted[j] <= 1 + failures

(* The graphs are drawn by timestamp: no two runs that reach a client have   *)
(* the same one (srmaster sleeps a minute "so we don't accidentally have 2   *)
(* different runs show up at the same time").                                *)
TimestampsTellRunsApart ==
    \A p, q \in dispatched : p.tstamp = q.tstamp => p.srid = q.srid

(* "to have the points for each OS/netconfig match up with each other for a  *)
(* particular test run" all jobs of a run carry one timestamp, as long as    *)
(* nothing is delivered again.                                               *)
RunsKeepTheirTimestampWithoutFailures ==
    failures = 0 =>
        \A p, q \in dispatched : p.srid = q.srid => p.tstamp = q.tstamp

(* srcloner runs at most [cloner] attempts times for a run, and at least     *)
(* once, whatever is configured; as often again for each redelivery.  It     *)
(* cancels a run after exactly that many, however soon that is.              *)
AttemptBudget ==
    \A r \in Requests :
        /\ clones[r] <= Attempts * (1 + failures)
        /\ failures = 0 /\ r \in cancelled => clones[r] = Attempts

(* A run srcloner cancelled, dropped or still defers is not tested as well.  *)
UnclonedRunsAreNotTested ==
    failures = 0 =>
        \A r \in Requests : r \in Closed \/ Deferred(r) =>
            \A p \in dispatched : p.srid.run # r

(* A job nobody gave up is reported in the end.                              *)
Settled(j) == Reported(j) \/ j \in GivenUp \/ j.run \in Closed
EveryJobSettles ==
    \A j \in Job :
        (j.run \in accepted /\ j \in JobsOf(j.run)) ~> Settled(j)
-----------------------------------------------------------------------------
(* The pipeline as its users see it.                                         *)
GivenUpJobs == GivenUp \union UNION {JobsOf(r) : r \in Closed}

Ledger == INSTANCE RunLedger WITH
            Wanted <- [r \in Requests |-> JobsOf(r)],
            reported <- {j \in Job : Reported(j)},
            abandoned <- GivenUpJobs

(* Only jobs somebody asked for are reported, no report is taken back, and   *)
(* every job of an accepted run is reported or abandoned in the end.         *)
KeepsTheLedger == Ledger!Spec
=============================================================================
