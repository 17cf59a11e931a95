------------------------------- MODULE Queues -------------------------------
(***************************************************************************)
(* The four families of RabbitMQ queues that connect the Stone Ridge       *)
(* daemons, and the messages on them (stoneridge.py, srmaster.py).          *)
(*                                                                         *)
(* A QueueListener consumes with prefetch 1 and acknowledges a message      *)
(* only after handle() returned, so the message being handled is still at   *)
(* the head of its queue.  The broker gives it out again when the           *)
(* connection closes first: a failure of the consumer leaves the queue as   *)
(* it is.  A QueueWriter appends at the tail.                               *)
(***************************************************************************)
EXTENDS Integers, Sequences, FiniteSets, Functions

CONSTANTS
    Requests,           \* test runs somebody asks for
    Nightlies,          \* those asked for by the nightly cron job
    NETCONFIGS,         \* "broadband", "umts", "gsm"
    OPERATING_SYSTEMS,  \* "linux", "mac", "windows"
    AskedNetconfigs,    \* the netconfigs a pushed run names
    AskedSystems,       \* the operating systems a pushed run names
    MaxAttempts,        \* [cloner] attempts, 0 unless it is configured
    MaxFailures,        \* bound: messages delivered again
    MaxLosses           \* bound: kills of processes holding the only copy

ASSUME RequestsAssumption ==
    /\ Requests # {}
    /\ Nightlies \subseteq Requests
    /\ AskedNetconfigs \in [Requests -> SUBSET NETCONFIGS]
    /\ AskedSystems \in [Requests -> SUBSET OPERATING_SYSTEMS]

(* get_config_int gives any integer back, and 0 without one: nothing checks  *)
(* that the limit is a sensible one.                                         *)
ASSUME BoundsAssumption ==
    /\ MaxAttempts \in Int
    /\ MaxFailures \in Nat
    /\ MaxLosses \in Nat

VARIABLES
    incoming,         \* sr_incoming: runs to be cloned
    netconfig_queue,  \* sr_nc_<netconfig>: runs to be scheduled
    client_queue,     \* sr_ct_<os>: jobs to be run
    outgoing,         \* sr_outgoing: results to be reported
    failures,         \* how many messages were delivered again
    losses            \* how many processes died with the only copy of work

queueVars == <<incoming, netconfig_queue, client_queue, outgoing>>
faultVars == <<failures, losses>>
-----------------------------------------------------------------------------
(* A pushed run comes with its srid, ldap_sha; it is uuid 0 here.  A nightly *)
(* comes without one (uuid 0 too) and srmaster draws a new uuid for it.      *)
Srid == [run : Requests, uuid : Nat]

RunMessage == [srid : Srid, attempt : Nat]
NetconfigMessage == [srid : Srid, tstamp : Nat]
ClientMessage == [srid : Srid, netconfig : NETCONFIGS, tstamp : Nat]
ResultMessage == [run : Requests, netconfig : NETCONFIGS,
                  operating_system : OPERATING_SYSTEMS]

(* One test of one run: what the reporter archives under                     *)
(* <srid>_<netconfig>_<operating system>.                                    *)
Job == ResultMessage

JobOf(r, nc, o) == [run |-> r, netconfig |-> nc, operating_system |-> o]

(* handle() of srmaster replaces the lists of a nightly by the full ones.    *)
Netconfigs(r) == IF r \in Nightlies THEN NETCONFIGS ELSE AskedNetconfigs[r]
Systems(r) == IF r \in Nightlies THEN OPERATING_SYSTEMS ELSE AskedSystems[r]

JobsOf(r) == {JobOf(r, nc, o) : nc \in Netconfigs(r), o \in Systems(r)}

QueuesTypeOK ==
    /\ incoming \in Seq(RunMessage)
    /\ netconfig_queue \in [NETCONFIGS -> Seq(NetconfigMessage)]
    /\ client_queue \in [OPERATING_SYSTEMS -> Seq(ClientMessage)]
    /\ outgoing \in Seq(ResultMessage)
    /\ failures \in 0 .. MaxFailures
    /\ losses \in 0 .. MaxLosses

QueuesInit ==
    /\ incoming = <<>>
    /\ netconfig_queue = [nc \in NETCONFIGS |-> <<>>]
    /\ client_queue = [o \in OPERATING_SYSTEMS |-> <<>>]
    /\ outgoing = <<>>
    /\ failures = 0
    /\ losses = 0

(* The connection closes, or the consumer dies, before basic_ack.            *)
Fails == failures < MaxFailures /\ failures' = failures + 1 /\ UNCHANGED losses

(* A process dies that held the only copy of some work.                      *)
Loses == losses < MaxLosses /\ losses' = losses + 1 /\ UNCHANGED failures

(* QueueWriter.enqueue, and basic_ack of the head.                           *)
Enqueue(queues, name, m) == [queues EXCEPT ![name] = Append(@, m)]
Acknowledge(queues, name) == [queues EXCEPT ![name] = Tail(@)]
=============================================================================
