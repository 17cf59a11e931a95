------------------------------- MODULE Master -------------------------------
(***************************************************************************)
(* srmaster, with the srcloner it runs as a child and the srdeferrers that  *)
(* srcloner leaves behind.                                                  *)
(*                                                                         *)
(* srmaster takes one run at a time from sr_incoming, has srcloner fetch    *)
(* its builds, and, if srcloner exits cleanly, takes a timestamp, sleeps a  *)
(* minute and puts the run on the queue of each of its netconfigs.          *)
(* srcloner exits uncleanly after it forked a deferrer, cancelled the run,  *)
(* or gave it up; a deferrer sleeps and puts the run back on sr_incoming.   *)
(***************************************************************************)
EXTENDS Queues

VARIABLES
    master,     \* srmaster: where handle() is, the run, what is still to do
    deferrers,  \* sleeping srdeferrer processes
    clock,      \* minutes, as far as srmaster sleeps them; never set back
    uuids,      \* how many uuid4() srmaster drew
    clones,     \* how many srcloner ran for each request
    dispatched, \* the runs and timestamps that reached a netconfig queue
    accepted,   \* requests that reached sr_incoming
    cancelled,  \* requests cancelled after the last attempt
    dropped,    \* requests an unclean cloner left without a deferrer
    killed      \* requests whose deferrer died in its sleep

ledgerVars == <<accepted, cancelled, dropped, killed>>
masterVars == <<master, deferrers, clock, uuids, clones, dispatched,
                ledgerVars>>
-----------------------------------------------------------------------------
(* A deferrer is named by the cloner that forked it.                         *)
Deferrer == [srid : Srid, attempt : Nat, cloner : Nat]

(* Where handle() is; its locals mean nothing while srmaster is idle.        *)
MasterState == [phase : {"idle", "cloning", "sleeping", "dispatching"},
                srid : Srid, tstamp : Nat, todo : SUBSET NETCONFIGS]

MasterTypeOK ==
    /\ master \in MasterState
    /\ deferrers \subseteq Deferrer
    /\ clock \in Nat
    /\ uuids \in Nat
    /\ clones \in [Requests -> Nat]
    /\ dispatched \subseteq NetconfigMessage
    /\ accepted \subseteq Requests
    /\ cancelled \subseteq Requests
    /\ dropped \subseteq Requests
    /\ killed \subseteq Requests

Idle(srid) == [phase |-> "idle", srid |-> srid, tstamp |-> 0, todo |-> {}]

(* srcloner has run before anybody looks at the limit.                       *)
Attempts == IF MaxAttempts > 1 THEN MaxAttempts ELSE 1

NoSrid(srid) == srid.run \in Nightlies /\ srid.uuid = 0
FirstSrid(r) == [run |-> r, uuid |-> 0]

MasterInit ==
    /\ master = Idle(FirstSrid(CHOOSE r \in Requests : TRUE))
    /\ deferrers = {}
    /\ clock = 1
    /\ uuids = 0
    /\ clones = [r \in Requests |-> 0]
    /\ dispatched = {}
    /\ accepted = {}
    /\ cancelled = {}
    /\ dropped = {}
    /\ killed = {}
-----------------------------------------------------------------------------
(* stoneridge.enqueue: cron's nightly, or srenqueuer for a pushed run.       *)
Submit(r) ==
    /\ r \notin accepted
    /\ incoming' = Append(incoming, [srid |-> FirstSrid(r), attempt |-> 1])
    /\ accepted' = accepted \union {r}
    /\ UNCHANGED <<netconfig_queue, client_queue, outgoing, faultVars,
                   master, deferrers, clock, uuids, clones, dispatched,
                   cancelled, dropped, killed>>

(* handle() begins: a run without an srid gets one, and srcloner starts.     *)
MasterReceive ==
    /\ master.phase = "idle"
    /\ incoming # <<>>
    /\ LET srid == Head(incoming).srid
       IN  /\ uuids' = IF NoSrid(srid) THEN uuids + 1 ELSE uuids
           /\ master' = [master EXCEPT
                !.phase = "cloning",
                !.srid = IF NoSrid(srid) THEN [srid EXCEPT !.uuid = uuids']
                                         ELSE srid]
           /\ clones' = [clones EXCEPT ![srid.run] = @ + 1]
    /\ UNCHANGED <<queueVars, faultVars, deferrers, clock, dispatched,
                   ledgerVars>>

(* The builds are here; the timestamp of the run is taken.                   *)
CloneSucceeds ==
    /\ master.phase = "cloning"
    /\ master' = [master EXCEPT !.phase = "sleeping", !.tstamp = clock]
    /\ UNCHANGED <<queueVars, faultVars, deferrers, clock, uuids, clones,
                   dispatched, ledgerVars>>

(* Nothing left to enqueue: handle() returns next.                           *)
MasterReturns ==
    master' = [master EXCEPT !.phase = "dispatching", !.todo = {}]

(* Faulty: compares the attempt itself with the limit.                       *)
CloneDefersOnceMore ==
    /\ master.phase = "cloning"
    /\ Head(incoming).attempt <= MaxAttempts
    /\ deferrers' = deferrers \union
            {[srid |-> master.srid, attempt |-> Head(incoming).attempt + 1,
              cloner |-> clones[master.srid.run]]}
    /\ MasterReturns
    /\ UNCHANGED <<queueVars, faultVars, clock, uuids, clones, dispatched,
                   ledgerVars>>

(* Faulty: takes a limit of 0 for no limit.                                  *)
CloneDefersForever ==
    /\ master.phase = "cloning"
    /\ MaxAttempts = 0 \/ Head(incoming).attempt + 1 <= MaxAttempts
    /\ deferrers' = deferrers \union
            {[srid |-> master.srid, attempt |-> Head(incoming).attempt + 1,
              cloner |-> clones[master.srid.run]]}
    /\ MasterReturns
    /\ UNCHANGED <<queueVars, faultVars, clock, uuids, clones, dispatched,
                   ledgerVars>>

(* exit_and_maybe_defer: attempt + 1 is not past the limit, so srcloner      *)
(* forks a deferrer and exits 1.                                             *)
CloneDefers ==
    /\ master.phase = "cloning"
    /\ Head(incoming).attempt + 1 <= MaxAttempts
    /\ deferrers' = deferrers \union
            {[srid |-> master.srid, attempt |-> Head(incoming).attempt + 1,
              cloner |-> clones[master.srid.run]]}
    /\ MasterReturns
    /\ UNCHANGED <<queueVars, faultVars, clock, uuids, clones, dispatched,
                   ledgerVars>>

(* exit_and_maybe_defer past the limit: the requester gets an email.         *)
CloneCancels ==
    /\ master.phase = "cloning"
    /\ Head(incoming).attempt + 1 > MaxAttempts
    /\ cancelled' = cancelled \union {master.srid.run}
    /\ MasterReturns
    /\ UNCHANGED <<queueVars, faultVars, deferrers, clock, uuids, clones,
                   dispatched, accepted, dropped, killed>>

(* Faulty: srmaster does not look at the exit status of srcloner.            *)
CloneDropsAndGoesOn ==
    /\ master.phase = "cloning"
    /\ dropped' = dropped \union {master.srid.run}
    /\ master' = [master EXCEPT !.phase = "sleeping", !.tstamp = clock]
    /\ UNCHANGED <<queueVars, faultVars, deferrers, clock, uuids, clones,
                   dispatched, accepted, cancelled, killed>>

(* srcloner exits 1 and nobody retries: no dist files, no .checksums.asc     *)
(* among them, a download or the cleanup raised, srdeferrer did not start.   *)
CloneDrops ==
    /\ master.phase = "cloning"
    /\ dropped' = dropped \union {master.srid.run}
    /\ MasterReturns
    /\ UNCHANGED <<queueVars, faultVars, deferrers, clock, uuids, clones,
                   dispatched, accepted, cancelled, killed>>

(* Faulty: no sleep.                                                         *)
MasterWakesAtOnce ==
    /\ master.phase = "sleeping"
    /\ master' = [master EXCEPT !.phase = "dispatching",
                                !.todo = Netconfigs(master.srid.run)]
    /\ UNCHANGED <<queueVars, faultVars, deferrers, clock, uuids, clones,
                   dispatched, ledgerVars>>

(* time.sleep(60) is over.                                                   *)
MasterWakes ==
    /\ master.phase = "sleeping"
    /\ clock' = clock + 1
    /\ master' = [master EXCEPT !.phase = "dispatching",
                                !.todo = Netconfigs(master.srid.run)]
    /\ UNCHANGED <<queueVars, faultVars, deferrers, uuids, clones,
                   dispatched, ledgerVars>>

(* Faulty: takes a timestamp for each netconfig.                             *)
MasterEnqueueStampsEach(nc) ==
    /\ master.phase = "dispatching"
    /\ nc \in master.todo
    /\ LET m == [srid |-> master.srid, tstamp |-> clock]
       IN  /\ netconfig_queue' = Enqueue(netconfig_queue, nc, m)
           /\ dispatched' = dispatched \union {m}
    /\ clock' = clock + 1
    /\ master' = [master EXCEPT !.todo = @ \ {nc}]
    /\ UNCHANGED <<incoming, client_queue, outgoing, faultVars, deferrers,
                   uuids, clones, ledgerVars>>

MasterEnqueue(nc) ==
    /\ master.phase = "dispatching"
    /\ nc \in master.todo
    /\ LET m == [srid |-> master.srid, tstamp |-> master.tstamp]
       IN  /\ netconfig_queue' = Enqueue(netconfig_queue, nc, m)
           /\ dispatched' = dispatched \union {m}
    /\ master' = [master EXCEPT !.todo = @ \ {nc}]
    /\ UNCHANGED <<incoming, client_queue, outgoing, faultVars, deferrers,
                   clock, uuids, clones, ledgerVars>>

(* Faulty: acknowledges before the run is on every queue.                    *)
MasterAckEarly ==
    /\ master.phase = "dispatching"
    /\ incoming' = Tail(incoming)
    /\ master' = Idle(master.srid)
    /\ UNCHANGED <<netconfig_queue, client_queue, outgoing, faultVars,
                   deferrers, clock, uuids, clones, dispatched,
                   ledgerVars>>

(* handle() returned: _handle acknowledges the message.                      *)
MasterAck ==
    /\ master.phase = "dispatching"
    /\ master.todo = {}
    /\ incoming' = Tail(incoming)
    /\ master' = Idle(master.srid)
    /\ UNCHANGED <<netconfig_queue, client_queue, outgoing, faultVars,
                   deferrers, clock, uuids, clones, dispatched,
                   ledgerVars>>

MasterFails ==
    /\ master.phase # "idle"
    /\ Fails
    /\ master' = Idle(master.srid)
    /\ UNCHANGED <<queueVars, deferrers, clock, uuids, clones, dispatched,
                   ledgerVars>>
-----------------------------------------------------------------------------
(* Faulty: the last attempt is not made.                                     *)
DeferrerGivesUp(d) ==
    /\ d \in deferrers
    /\ incoming' = IF d.attempt < MaxAttempts
                   THEN Append(incoming,
                               [srid |-> d.srid, attempt |-> d.attempt])
                   ELSE incoming
    /\ deferrers' = deferrers \ {d}
    /\ UNCHANGED <<netconfig_queue, client_queue, outgoing, faultVars,
                   master, clock, uuids, clones, dispatched, ledgerVars>>

(* A deferrer has slept [cloner] interval seconds: run(), then it exits.     *)
DeferrerWakes(d) ==
    /\ d \in deferrers
    /\ incoming' = Append(incoming, [srid |-> d.srid, attempt |-> d.attempt])
    /\ deferrers' = deferrers \ {d}
    /\ UNCHANGED <<netconfig_queue, client_queue, outgoing, faultVars,
                   master, clock, uuids, clones, dispatched, ledgerVars>>

(* A sleeping deferrer dies, with the machine or alone.                      *)
DeferrerDies(d) ==
    /\ d \in deferrers
    /\ Loses
    /\ deferrers' = deferrers \ {d}
    /\ killed' = killed \union {d.srid.run}
    /\ UNCHANGED <<queueVars, master, clock, uuids, clones, dispatched,
                   accepted, cancelled, dropped>>

MasterStep ==
    \/ MasterReceive
    \/ CloneSucceeds
    \/ CloneDefers
    \/ CloneCancels
    \/ CloneDrops
    \/ MasterWakes
    \/ \E nc \in NETCONFIGS : MasterEnqueue(nc)
    \/ MasterAck
=============================================================================
