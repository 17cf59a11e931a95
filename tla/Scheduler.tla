------------------------------ MODULE Scheduler ------------------------------
(***************************************************************************)
(* srscheduler: one daemon for each netconfig.  It takes a run from the     *)
(* queue of its netconfig and puts a job on the queue of each operating     *)
(* system of the run.                                                       *)
(***************************************************************************)
EXTENDS Queues

VARIABLE scheduler  \* scheduler[nc]: busy in handle(), systems still to do

SchedulerTypeOK ==
    scheduler \in [NETCONFIGS ->
                    [busy : BOOLEAN, todo : SUBSET OPERATING_SYSTEMS]]

SchedulerIdle == [busy |-> FALSE, todo |-> {}]

SchedulerInit == scheduler = [nc \in NETCONFIGS |-> SchedulerIdle]
-----------------------------------------------------------------------------
SchedulerReceive(nc) ==
    /\ ~scheduler[nc].busy
    /\ netconfig_queue[nc] # <<>>
    /\ scheduler' = [scheduler EXCEPT ![nc] =
            [busy |-> TRUE,
             todo |-> Systems(Head(netconfig_queue[nc]).srid.run)]]
    /\ UNCHANGED <<queueVars, faultVars>>

(* Faulty: passes the run on without the netconfig.                          *)
SchedulerForwards(nc, o) ==
    /\ scheduler[nc].busy
    /\ o \in scheduler[nc].todo
    /\ client_queue' = Enqueue(client_queue, o, Head(netconfig_queue[nc]))
    /\ scheduler' = [scheduler EXCEPT ![nc].todo = @ \ {o}]
    /\ UNCHANGED <<incoming, netconfig_queue, outgoing, faultVars>>

SchedulerEnqueue(nc, o) ==
    /\ scheduler[nc].busy
    /\ o \in scheduler[nc].todo
    /\ LET m == Head(netconfig_queue[nc])
       IN  client_queue' = Enqueue(client_queue, o,
                [srid |-> m.srid, netconfig |-> nc, tstamp |-> m.tstamp])
    /\ scheduler' = [scheduler EXCEPT ![nc].todo = @ \ {o}]
    /\ UNCHANGED <<incoming, netconfig_queue, outgoing, faultVars>>

SchedulerAck(nc) ==
    /\ scheduler[nc].busy
    /\ scheduler[nc].todo = {}
    /\ netconfig_queue' = Acknowledge(netconfig_queue, nc)
    /\ scheduler' = [scheduler EXCEPT ![nc] = SchedulerIdle]
    /\ UNCHANGED <<incoming, client_queue, outgoing, faultVars>>

SchedulerFails(nc) ==
    /\ scheduler[nc].busy
    /\ Fails
    /\ scheduler' = [scheduler EXCEPT ![nc] = SchedulerIdle]
    /\ UNCHANGED queueVars

SchedulerStep(nc) ==
    \/ SchedulerReceive(nc)
    \/ \E o \in OPERATING_SYSTEMS : SchedulerEnqueue(nc, o)
    \/ SchedulerAck(nc)
=============================================================================
