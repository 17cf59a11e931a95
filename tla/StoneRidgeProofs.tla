-------------------------- MODULE StoneRidgeProofs --------------------------
(***************************************************************************)
(* Proofs about the pipeline of module StoneRidge, for every value of its   *)
(* constants.                                                               *)
(***************************************************************************)
EXTENDS StoneRidge, SequenceTheorems, TLAPS

(* A daemon that is in handle() has a message at the head of its queue.      *)
BusyOnMessage ==
    /\ master.phase # "idle" => incoming # <<>>
    /\ master.phase # "idle" => master.srid.run = Head(incoming).srid.run
    /\ \A nc \in NETCONFIGS : scheduler[nc].busy => netconfig_queue[nc] # <<>>
    /\ \A o \in OPERATING_SYSTEMS : worker[o] # "idle" => Inbox(o) # <<>>
    /\ \A o \in OPERATING_SYSTEMS :
            proxy[o] => o \in WebClients /\ client_queue[o] # <<>>
    /\ reporter # "idle" => outgoing # <<>>

TypeInv == TypeOK /\ BusyOnMessage
-----------------------------------------------------------------------------
(* Sequences: what append, head and tail do to types and ranges.             *)
LEMMA RangeOfAppend ==
    ASSUME NEW S, NEW s \in Seq(S), NEW e \in S
    PROVE  /\ Append(s, e) \in Seq(S)
           /\ Append(s, e) # <<>>
           /\ Range(Append(s, e)) = Range(s) \union {e}
           /\ s # <<>> => Head(Append(s, e)) = Head(s)
<1>1. /\ Append(s, e) \in Seq(S)
      /\ Len(Append(s, e)) = Len(s) + 1
      /\ \A i \in 1 .. Len(s) : Append(s, e)[i] = s[i]
      /\ Append(s, e)[Len(s) + 1] = e
  BY AppendProperties
<1>2. DOMAIN s = 1 .. Len(s) /\ DOMAIN Append(s, e) = 1 .. Len(s) + 1
      /\ Len(s) \in Nat
  BY <1>1
<1>3. Range(Append(s, e)) = Range(s) \union {e}
  BY <1>1, <1>2 DEF Range
<1>4. s # <<>> => Head(Append(s, e)) = Head(s)
  BY <1>1, <1>2
<1>5. Append(s, e) # <<>>
  BY <1>1, <1>2, EmptySeq
<1> QED
  BY <1>1, <1>3, <1>4, <1>5

LEMMA RangeOfTail ==
    ASSUME NEW S, NEW s \in Seq(S), s # <<>>
    PROVE  /\ Head(s) \in S
           /\ Head(s) \in Range(s)
           /\ Tail(s) \in Seq(S)
           /\ Range(s) = Range(Tail(s)) \union {Head(s)}
<1>1. /\ Head(s) \in S
      /\ Tail(s) \in Seq(S)
      /\ Len(Tail(s)) = Len(s) - 1
      /\ \A i \in 1 .. Len(Tail(s)) : Tail(s)[i] = s[i + 1]
  BY HeadTailProperties
<1>2. /\ Len(s) \in Nat \ {0}
      /\ DOMAIN s = 1 .. Len(s)
      /\ DOMAIN Tail(s) = 1 .. Len(s) - 1
  BY <1>1
<1>3. Head(s) = s[1]
  BY <1>2
<1>4. Range(s) \subseteq Range(Tail(s)) \union {Head(s)}
  <2> SUFFICES ASSUME NEW i \in 1 .. Len(s)
               PROVE  s[i] \in Range(Tail(s)) \union {Head(s)}
    BY <1>2 DEF Range
  <2>1. CASE i = 1
    BY <1>3, <2>1
  <2>2. CASE i # 1
    <3>1. i - 1 \in 1 .. Len(s) - 1 /\ Tail(s)[i - 1] = s[i]
      BY <1>1, <1>2, <2>2
    <3> QED BY <1>2, <3>1 DEF Range
  <2> QED BY <2>1, <2>2
<1>5. Range(Tail(s)) \union {Head(s)} \subseteq Range(s)
  BY <1>1, <1>2, <1>3 DEF Range
<1> QED
  BY <1>1, <1>4, <1>5

LEMMA RangeOfEmpty == Range(<<>>) = {}
BY DEF Range
-----------------------------------------------------------------------------
(* Type correctness.                                                         *)
LEMMA InitTypeInv == Init => TypeInv
<1> SUFFICES ASSUME Init PROVE TypeInv
  OBVIOUS
<1>1. TypeOK
  <2>1. QueuesTypeOK
    BY BoundsAssumption, EmptySeq DEF Init, QueuesInit, QueuesTypeOK
  <2>2. MasterTypeOK
    <3>1. (CHOOSE r \in Requests : TRUE) \in Requests
      BY RequestsAssumption
    <3> QED
      BY <3>1 DEF Init, MasterInit, MasterTypeOK, MasterState, Idle, FirstSrid, Srid
  <2>3. SchedulerTypeOK
    BY DEF Init, SchedulerInit, SchedulerTypeOK, SchedulerIdle
  <2>4. ClientTypeOK
    BY EmptySeq DEF Init, ClientInit, ClientTypeOK
  <2>5. ReporterTypeOK
    BY DEF Init, ReporterInit, ReporterTypeOK
  <2> QED BY <2>1, <2>2, <2>3, <2>4, <2>5 DEF TypeOK
<1>2. BusyOnMessage
  BY DEF Init, MasterInit, SchedulerInit, ClientInit, ReporterInit,
         BusyOnMessage, Idle, SchedulerIdle
<1> QED BY <1>1, <1>2 DEF TypeInv

LEMMA SubmitTypeInv ==
    ASSUME TypeInv, NEW r \in Requests, Submit(r), OnlyMaster
    PROVE  TypeInv'
<1> DEFINE m == [srid |-> FirstSrid(r), attempt |-> 1]
<1>1. m \in RunMessage
  BY DEF RunMessage, FirstSrid, Srid
<1>2. /\ incoming' \in Seq(RunMessage)
      /\ incoming' # <<>>
      /\ incoming # <<>> => Head(incoming') = Head(incoming)
  BY <1>1, RangeOfAppend DEF Submit, TypeInv, TypeOK, QueuesTypeOK
<1>3. TypeOK'
  BY <1>2 DEF TypeInv, TypeOK, QueuesTypeOK, MasterTypeOK, SchedulerTypeOK,
     ClientTypeOK, ReporterTypeOK, Submit, OnlyMaster, faultVars, clientVars,
     reporterVars
<1>4. BusyOnMessage'
  BY <1>2 DEF TypeInv, BusyOnMessage, Inbox, Submit, OnlyMaster, clientVars,
     reporterVars
<1> QED BY <1>3, <1>4 DEF TypeInv

(* A request names some of the netconfigs and operating systems there are.   *)
LEMMA SubLists ==
    \A r \in Requests : /\ Netconfigs(r) \subseteq NETCONFIGS
                        /\ Systems(r) \subseteq OPERATING_SYSTEMS
BY RequestsAssumption DEF Netconfigs, Systems

(* A component that does not move keeps its types.                           *)
LEMMA OthersStayForMaster ==
    ASSUME TypeInv, OnlyMaster
    PROVE  SchedulerTypeOK' /\ ClientTypeOK' /\ ReporterTypeOK'
BY DEF TypeInv, TypeOK, SchedulerTypeOK, ClientTypeOK, ReporterTypeOK,
       OnlyMaster, clientVars, reporterVars

LEMMA OthersStayForSchedulers ==
    ASSUME TypeInv, OnlySchedulers
    PROVE  MasterTypeOK' /\ ClientTypeOK' /\ ReporterTypeOK'
BY DEF TypeInv, TypeOK, MasterTypeOK, ClientTypeOK, ReporterTypeOK,
       OnlySchedulers, masterVars, ledgerVars, clientVars, reporterVars

LEMMA OthersStayForClients ==
    ASSUME TypeInv, OnlyClients
    PROVE  MasterTypeOK' /\ SchedulerTypeOK' /\ ReporterTypeOK'
BY DEF TypeInv, TypeOK, MasterTypeOK, SchedulerTypeOK, ReporterTypeOK,
       OnlyClients, masterVars, ledgerVars, reporterVars

LEMMA OthersStayForReporter ==
    ASSUME TypeInv, OnlyReporter
    PROVE  MasterTypeOK' /\ SchedulerTypeOK' /\ ClientTypeOK'
BY DEF TypeInv, TypeOK, MasterTypeOK, SchedulerTypeOK, ClientTypeOK,
       OnlyReporter, masterVars, ledgerVars, clientVars

LEMMA MasterReceiveTypeInv ==
    ASSUME TypeInv, MasterReceive, OnlyMaster
    PROVE  TypeInv'
<1>1. /\ Head(incoming) \in RunMessage
      /\ Head(incoming).srid \in Srid
      /\ Head(incoming).srid.run \in Requests
  <2>1. Head(incoming) \in RunMessage
    BY RangeOfTail DEF MasterReceive, TypeInv, TypeOK, QueuesTypeOK
  <2> QED BY <2>1 DEF RunMessage, Srid
<1>2. uuids' \in Nat
  BY DEF MasterReceive, TypeInv, TypeOK, MasterTypeOK
<1>3. [Head(incoming).srid EXCEPT !.uuid = uuids'] \in Srid
  BY <1>1, <1>2 DEF Srid
<1>4. /\ master'.srid \in Srid
      /\ master'.srid.run = Head(incoming).srid.run
      /\ master' \in MasterState
  BY <1>1, <1>3
  DEF MasterReceive, TypeInv, TypeOK, MasterTypeOK, MasterState, Srid
<1>5. clones' \in [Requests -> Nat]
  BY <1>1 DEF MasterReceive, TypeInv, TypeOK, MasterTypeOK
<1>6. MasterTypeOK'
  BY <1>2, <1>4, <1>5
  DEF MasterReceive, TypeInv, TypeOK, MasterTypeOK, ledgerVars
<1>7. QueuesTypeOK'
  BY DEF MasterReceive, TypeInv, TypeOK, QueuesTypeOK, queueVars, faultVars
<1>8. BusyOnMessage'
  BY <1>4 DEF TypeInv, BusyOnMessage, Inbox, MasterReceive, OnlyMaster,
     queueVars, clientVars, reporterVars
<1> QED
  BY <1>6, <1>7, <1>8, OthersStayForMaster DEF TypeInv, TypeOK

(* srcloner's outcomes, the sleep, and a failure: no queue moves.            *)
LEMMA MasterMovesTypeInv ==
    ASSUME TypeInv, OnlyMaster,
           \/ CloneSucceeds \/ CloneDefers \/ CloneCancels \/ CloneDrops
           \/ MasterWakes \/ MasterFails
    PROVE  TypeInv'
<1>1. incoming # <<>> /\ master.srid.run = Head(incoming).srid.run
  BY DEF TypeInv, BusyOnMessage, CloneSucceeds, CloneDefers, CloneCancels,
     CloneDrops, MasterWakes, MasterFails
<1>2. Head(incoming) \in RunMessage
  BY <1>1, RangeOfTail DEF TypeInv, TypeOK, QueuesTypeOK
<1>3. QueuesTypeOK'
  BY BoundsAssumption DEF TypeInv, TypeOK, QueuesTypeOK, queueVars,
     faultVars, CloneSucceeds, CloneDefers, CloneCancels, CloneDrops,
     MasterWakes, MasterFails, Fails
<1>4. Netconfigs(master.srid.run) \subseteq NETCONFIGS
  BY SubLists DEF TypeInv, TypeOK, MasterTypeOK, MasterState, Srid
<1>5. master \in MasterState
  BY DEF TypeInv, TypeOK, MasterTypeOK
<1>6. master'.srid = master.srid /\ master' \in MasterState
  <2>1. CASE CloneSucceeds
    BY <1>5, <2>1 DEF CloneSucceeds, MasterState, TypeInv, TypeOK, MasterTypeOK
  <2>2. CASE MasterReturns
    BY <1>5, <2>2 DEF MasterReturns, MasterState
  <2>3. CASE MasterWakes
    BY <1>4, <1>5, <2>3 DEF MasterWakes, MasterState
  <2>4. CASE MasterFails
    BY <1>5, <2>4 DEF MasterFails, MasterState, Idle
  <2> QED
    BY <2>1, <2>2, <2>3, <2>4 DEF CloneDefers, CloneCancels, CloneDrops
<1>9. MasterTypeOK'
  <2>1. master.srid.run \in Requests
    BY <1>5 DEF MasterState, Srid
  <2>2. CASE CloneDefers
    <3> DEFINE d == [srid |-> master.srid,
                     attempt |-> Head(incoming).attempt + 1,
                     cloner |-> clones[master.srid.run]]
    <3>1. d \in Deferrer
      BY <1>2, <1>5, <2>1
      DEF Deferrer, RunMessage, MasterState, TypeInv, TypeOK, MasterTypeOK
    <3> QED
      BY <1>6, <2>2, <3>1
      DEF CloneDefers, TypeInv, TypeOK, MasterTypeOK, ledgerVars
  <2>3. CASE ~CloneDefers
    BY <1>6, <2>1, <2>3
    DEF CloneSucceeds, CloneCancels, CloneDrops, MasterWakes, MasterFails,
        TypeInv, TypeOK, MasterTypeOK, ledgerVars
  <2> QED BY <2>2, <2>3
<1>7. UNCHANGED queueVars
  BY DEF CloneSucceeds, CloneDefers, CloneCancels, CloneDrops, MasterWakes,
     MasterFails
<1>8. BusyOnMessage'
  BY <1>1, <1>6, <1>7 DEF TypeInv, BusyOnMessage, Inbox, OnlyMaster,
     queueVars, clientVars, reporterVars
<1> QED
  BY <1>3, <1>8, <1>9, OthersStayForMaster DEF TypeInv, TypeOK

LEMMA MasterEnqueueTypeInv ==
    ASSUME TypeInv, NEW nc \in NETCONFIGS, MasterEnqueue(nc), OnlyMaster
    PROVE  TypeInv'
<1> DEFINE m == [srid |-> master.srid, tstamp |-> master.tstamp]
<1>1. m \in NetconfigMessage
  BY DEF TypeInv, TypeOK, MasterTypeOK, MasterState, NetconfigMessage
<1>2. /\ netconfig_queue' = [netconfig_queue EXCEPT
                               ![nc] = Append(netconfig_queue[nc], m)]
      /\ netconfig_queue \in [NETCONFIGS -> Seq(NetconfigMessage)]
  BY DEF MasterEnqueue, Enqueue, TypeInv, TypeOK, QueuesTypeOK
<1>3. \A k \in NETCONFIGS :
        /\ netconfig_queue'[k] \in Seq(NetconfigMessage)
        /\ netconfig_queue[k] # <<>> => netconfig_queue'[k] # <<>>
  BY <1>1, <1>2, RangeOfAppend
<1>4. QueuesTypeOK'
  BY <1>2, <1>3
  DEF MasterEnqueue, TypeInv, TypeOK, QueuesTypeOK, faultVars
<1>5. MasterTypeOK'
  BY <1>1 DEF MasterEnqueue, TypeInv, TypeOK, MasterTypeOK, MasterState,
     ledgerVars
<1>6. BusyOnMessage'
  BY <1>3 DEF MasterEnqueue, TypeInv, TypeOK, MasterTypeOK, MasterState,
     BusyOnMessage, Inbox, OnlyMaster, clientVars, reporterVars
<1> QED
  BY <1>4, <1>5, <1>6, OthersStayForMaster DEF TypeInv, TypeOK

LEMMA MasterAckTypeInv ==
    ASSUME TypeInv, MasterAck, OnlyMaster
    PROVE  TypeInv'
<1>1. incoming # <<>>
  BY DEF MasterAck, TypeInv, BusyOnMessage
<1>2. incoming' \in Seq(RunMessage)
  BY <1>1, RangeOfTail DEF MasterAck, TypeInv, TypeOK, QueuesTypeOK
<1>3. QueuesTypeOK'
  BY <1>2 DEF MasterAck, TypeInv, TypeOK, QueuesTypeOK, faultVars
<1>4. MasterTypeOK'
  BY DEF MasterAck, TypeInv, TypeOK, MasterTypeOK, MasterState, Idle,
         ledgerVars
<1>5. BusyOnMessage'
  BY DEF MasterAck, TypeInv, BusyOnMessage, Inbox, Idle, OnlyMaster,
         clientVars, reporterVars
<1> QED
  BY <1>3, <1>4, <1>5, OthersStayForMaster DEF TypeInv, TypeOK

LEMMA DeferrerTypeInv ==
    ASSUME TypeInv, NEW d \in deferrers, OnlyMaster,
           DeferrerWakes(d) \/ DeferrerDies(d)
    PROVE  TypeInv'
<1> DEFINE m == [srid |-> d.srid, attempt |-> d.attempt]
<1>1. d \in Deferrer /\ d.srid.run \in Requests
  BY DEF TypeInv, TypeOK, MasterTypeOK, Deferrer, Srid
<1>2. m \in RunMessage
  BY <1>1 DEF RunMessage, Deferrer
<1>3. CASE DeferrerWakes(d)
  <2>1. /\ incoming' \in Seq(RunMessage)
        /\ incoming' # <<>>
        /\ incoming # <<>> => Head(incoming') = Head(incoming)
    BY <1>2, <1>3, RangeOfAppend
    DEF DeferrerWakes, TypeInv, TypeOK, QueuesTypeOK
  <2>2. QueuesTypeOK'
    BY <1>3, <2>1 DEF DeferrerWakes, TypeInv, TypeOK, QueuesTypeOK, faultVars
  <2>3. MasterTypeOK'
    BY <1>3 DEF DeferrerWakes, TypeInv, TypeOK, MasterTypeOK, ledgerVars
  <2>4. BusyOnMessage'
    BY <1>3, <2>1 DEF DeferrerWakes, TypeInv, BusyOnMessage, Inbox,
       OnlyMaster, clientVars, reporterVars
  <2> QED
    BY <2>2, <2>3, <2>4, OthersStayForMaster DEF TypeInv, TypeOK
<1>4. CASE DeferrerDies(d)
  <2>1. QueuesTypeOK'
    BY <1>4, BoundsAssumption
    DEF DeferrerDies, Loses, TypeInv, TypeOK, QueuesTypeOK, queueVars
  <2>2. MasterTypeOK'
    BY <1>1, <1>4 DEF DeferrerDies, TypeInv, TypeOK, MasterTypeOK
  <2>3. BusyOnMessage'
    BY <1>4 DEF DeferrerDies, TypeInv, BusyOnMessage, Inbox, OnlyMaster,
       queueVars, clientVars, reporterVars
  <2> QED
    BY <2>1, <2>2, <2>3, OthersStayForMaster DEF TypeInv, TypeOK
<1> QED BY <1>3, <1>4

LEMMA SchedulerTypeInv ==
    ASSUME TypeInv, NEW nc \in NETCONFIGS, OnlySchedulers,
           SchedulerStep(nc) \/ SchedulerFails(nc)
    PROVE  TypeInv'
<1> USE DEF TypeInv, TypeOK
<1>1. netconfig_queue[nc] # <<>>
  BY DEF BusyOnMessage, SchedulerStep, SchedulerReceive, SchedulerEnqueue,
         SchedulerAck, SchedulerFails
<1>2. /\ Head(netconfig_queue[nc]) \in NetconfigMessage
      /\ Tail(netconfig_queue[nc]) \in Seq(NetconfigMessage)
  BY <1>1, RangeOfTail DEF QueuesTypeOK
<1>3. CASE SchedulerReceive(nc)
  <2>1. Systems(Head(netconfig_queue[nc]).srid.run) \subseteq
            OPERATING_SYSTEMS
    BY <1>2, SubLists DEF NetconfigMessage, Srid
  <2>2. SchedulerTypeOK'
    BY <1>3, <2>1 DEF SchedulerReceive, SchedulerTypeOK
  <2>3. QueuesTypeOK'
    BY <1>3 DEF SchedulerReceive, QueuesTypeOK, queueVars, faultVars
  <2>4. BusyOnMessage'
    BY <1>1, <1>3 DEF SchedulerReceive, SchedulerTypeOK, BusyOnMessage, Inbox,
       OnlySchedulers, queueVars, masterVars, clientVars, reporterVars
  <2> QED BY <2>2, <2>3, <2>4, OthersStayForSchedulers
<1>4. ASSUME NEW o \in OPERATING_SYSTEMS, SchedulerEnqueue(nc, o)
      PROVE  TypeInv'
  <2> DEFINE m == [srid |-> Head(netconfig_queue[nc]).srid, netconfig |-> nc,
                   tstamp |-> Head(netconfig_queue[nc]).tstamp]
  <2>1. m \in ClientMessage
    BY <1>2 DEF NetconfigMessage, ClientMessage
  <2>2. /\ client_queue' = [client_queue EXCEPT
                                ![o] = Append(client_queue[o], m)]
        /\ client_queue \in [OPERATING_SYSTEMS -> Seq(ClientMessage)]
    BY <1>4 DEF SchedulerEnqueue, Enqueue, QueuesTypeOK
  <2>3. \A k \in OPERATING_SYSTEMS :
            /\ client_queue'[k] \in Seq(ClientMessage)
            /\ client_queue[k] # <<>> => client_queue'[k] # <<>>
    BY <2>1, <2>2, RangeOfAppend
  <2>4. QueuesTypeOK'
    BY <1>4, <2>2, <2>3 DEF SchedulerEnqueue, QueuesTypeOK, faultVars
  <2>5. SchedulerTypeOK'
    BY <1>4 DEF SchedulerEnqueue, SchedulerTypeOK
  <2>6. BusyOnMessage'
    BY <1>1, <1>4, <2>3 DEF SchedulerEnqueue, SchedulerTypeOK, BusyOnMessage,
       Inbox, OnlySchedulers, masterVars, clientVars, reporterVars
  <2> QED BY <2>4, <2>5, <2>6, OthersStayForSchedulers
<1>5. CASE SchedulerAck(nc)
  <2>1. QueuesTypeOK'
    BY <1>2, <1>5 DEF SchedulerAck, Acknowledge, QueuesTypeOK, faultVars
  <2>2. SchedulerTypeOK'
    BY <1>5 DEF SchedulerAck, SchedulerTypeOK, SchedulerIdle
  <2>3. BusyOnMessage'
    BY <1>5 DEF SchedulerAck, SchedulerIdle, Acknowledge, SchedulerTypeOK,
       QueuesTypeOK, BusyOnMessage, Inbox, OnlySchedulers, masterVars,
       clientVars, reporterVars
  <2> QED BY <2>1, <2>2, <2>3, OthersStayForSchedulers
<1>6. CASE SchedulerFails(nc)
  <2>1. QueuesTypeOK'
    BY <1>6, BoundsAssumption
    DEF SchedulerFails, Fails, QueuesTypeOK, queueVars
  <2>2. SchedulerTypeOK'
    BY <1>6 DEF SchedulerFails, SchedulerTypeOK, SchedulerIdle
  <2>3. BusyOnMessage'
    BY <1>6 DEF SchedulerFails, SchedulerIdle, SchedulerTypeOK, BusyOnMessage,
       Inbox, OnlySchedulers, queueVars, masterVars, clientVars, reporterVars
  <2> QED BY <2>1, <2>2, <2>3, OthersStayForSchedulers
<1> QED BY <1>3, <1>4, <1>5, <1>6 DEF SchedulerStep

(* The workers, srmqproxy and srwebmq.                                       *)
ClientSteps(o) ==
    \/ WorkerStep(o) \/ WorkerFails(o) \/ WebWorkerDies(o)
    \/ ProxyInsert(o) \/ ProxyAck(o) \/ ProxyFails(o)
    \/ GetNext(o) \/ ReplyLost(o)

LEMMA ClientTypeInv ==
    ASSUME TypeInv, NEW o \in OPERATING_SYSTEMS, OnlyClients, ClientSteps(o)
    PROVE  TypeInv'
<1> USE DEF TypeInv, TypeOK
<1>1. /\ client_queue \in [OPERATING_SYSTEMS -> Seq(ClientMessage)]
      /\ runs \in [OPERATING_SYSTEMS -> Seq(ClientMessage)]
      /\ response \in [OPERATING_SYSTEMS -> Seq(ClientMessage)]
  BY DEF QueuesTypeOK, ClientTypeOK
<1>2. \A m \in ClientMessage : JobOn(m, o) \in Job /\ m \in Workdir
                                /\ PlainDir(m) \in Workdir
  BY DEF ClientMessage, JobOn, JobOf, Job, ResultMessage, Srid, Workdir,
         PlainDir
<1>3. Inbox(o) # <<>> => Head(Inbox(o)) \in ClientMessage
  BY <1>1, RangeOfTail DEF Inbox
<1>4. response[o] # <<>> => Head(response[o]) \in ClientMessage
  BY <1>1, RangeOfTail
<1>5. runs[o] # <<>> => /\ Head(runs[o]) \in ClientMessage
                        /\ Tail(runs[o]) \in Seq(ClientMessage)
                        /\ <<Head(runs[o])>> \in Seq(ClientMessage)
                        /\ <<Head(runs[o])>> # <<>>
  BY <1>1, RangeOfTail
<1>6. <<>> \in Seq(ClientMessage)
  BY EmptySeq
<1>7. worker[o] # "idle" => Inbox(o) # <<>>
  BY DEF BusyOnMessage
<1>8. proxy[o] => o \in WebClients /\ client_queue[o] # <<>>
  BY DEF BusyOnMessage
<1>10. CASE WorkerReceive(o)
  <2>1. ClientTypeOK'
    BY <1>2, <1>3, <1>10 DEF WorkerReceive, StampedDir, ClientTypeOK
  <2>2. QueuesTypeOK'
    BY <1>10 DEF WorkerReceive, QueuesTypeOK, queueVars, faultVars
  <2>3. BusyOnMessage'
    BY <1>10 DEF WorkerReceive, ClientTypeOK, BusyOnMessage, Inbox,
       OnlyClients, queueVars, masterVars, reporterVars
  <2> QED BY <2>1, <2>2, <2>3, OthersStayForClients
<1>11. CASE WorkerSkips(o)
  <2>1. ClientTypeOK'
    BY <1>2, <1>4, <1>6, <1>11 DEF WorkerSkips, ClientTypeOK
  <2>2. QueuesTypeOK'
    BY <1>11 DEF WorkerSkips, QueuesTypeOK, queueVars, faultVars
  <2>3. BusyOnMessage'
    BY <1>11 DEF WorkerSkips, ClientTypeOK, BusyOnMessage, Inbox,
       OnlyClients, queueVars, masterVars, reporterVars
  <2> QED BY <2>1, <2>2, <2>3, OthersStayForClients
<1>12. CASE WorkerUploads(o)
  <2>1. JobOn(Head(Inbox(o)), o) \in ResultMessage
    BY <1>2, <1>3, <1>7, <1>12 DEF WorkerUploads, Job
  <2>2. outgoing' \in Seq(ResultMessage) /\ outgoing' # <<>>
    BY <1>12, <2>1, RangeOfAppend DEF WorkerUploads, QueuesTypeOK
  <2>3. ClientTypeOK'
    BY <1>12 DEF WorkerUploads, ClientTypeOK
  <2>4. QueuesTypeOK'
    BY <1>12, <2>2 DEF WorkerUploads, QueuesTypeOK, faultVars
  <2>5. BusyOnMessage'
    BY <1>7, <1>12, <2>2 DEF WorkerUploads, ClientTypeOK, BusyOnMessage, Inbox,
       OnlyClients, masterVars, reporterVars
  <2> QED BY <2>3, <2>4, <2>5, OthersStayForClients
<1>13. CASE WorkerFailsToUpload(o)
  <2>1. ClientTypeOK'
    BY <1>2, <1>3, <1>7, <1>13 DEF WorkerFailsToUpload, ClientTypeOK
  <2>2. QueuesTypeOK'
    BY <1>13 DEF WorkerFailsToUpload, QueuesTypeOK, queueVars, faultVars
  <2>3. BusyOnMessage'
    BY <1>7, <1>13 DEF WorkerFailsToUpload, ClientTypeOK, BusyOnMessage, Inbox,
       OnlyClients, queueVars, masterVars, reporterVars
  <2> QED BY <2>1, <2>2, <2>3, OthersStayForClients
<1>14. CASE WorkerReturns(o)
  <2>1. CASE o \in WebClients
    <3>1. ClientTypeOK'
      BY <1>6, <1>14, <2>1 DEF WorkerReturns, ClientTypeOK
    <3>2. QueuesTypeOK'
      BY <1>14, <2>1 DEF WorkerReturns, QueuesTypeOK, faultVars
    <3>3. BusyOnMessage'
      BY <1>14, <2>1 DEF WorkerReturns, ClientTypeOK, BusyOnMessage, Inbox,
         OnlyClients, masterVars, reporterVars
    <3> QED BY <3>1, <3>2, <3>3, OthersStayForClients
  <2>2. CASE o \notin WebClients
    <3>1. Tail(client_queue[o]) \in Seq(ClientMessage)
      BY <1>1, <1>7, <1>14, <2>2, RangeOfTail DEF WorkerReturns, Inbox
    <3>2. ClientTypeOK'
      BY <1>14, <2>2 DEF WorkerReturns, ClientTypeOK
    <3>3. QueuesTypeOK'
      BY <1>14, <2>2, <3>1
      DEF WorkerReturns, Acknowledge, QueuesTypeOK, faultVars
    <3>4. BusyOnMessage'
      BY <1>1, <1>14, <2>2 DEF WorkerReturns, Acknowledge, ClientTypeOK,
         BusyOnMessage, Inbox, OnlyClients, masterVars, reporterVars
    <3> QED BY <3>2, <3>3, <3>4, OthersStayForClients
  <2> QED BY <2>1, <2>2
<1>15. CASE WorkerFails(o)
  <2>1. ClientTypeOK'
    BY <1>15 DEF WorkerFails, ClientTypeOK
  <2>2. QueuesTypeOK'
    BY <1>15, BoundsAssumption DEF WorkerFails, Fails, QueuesTypeOK, queueVars
  <2>3. BusyOnMessage'
    BY <1>15 DEF WorkerFails, ClientTypeOK, BusyOnMessage, Inbox,
       OnlyClients, queueVars, masterVars, reporterVars
  <2> QED BY <2>1, <2>2, <2>3, OthersStayForClients
<1>16. CASE WebWorkerDies(o)
  <2>1. ClientTypeOK'
    BY <1>2, <1>4, <1>6, <1>16 DEF WebWorkerDies, ClientTypeOK
  <2>2. QueuesTypeOK'
    BY <1>16, BoundsAssumption
    DEF WebWorkerDies, Loses, QueuesTypeOK, queueVars
  <2>3. BusyOnMessage'
    BY <1>16 DEF WebWorkerDies, ClientTypeOK, BusyOnMessage, Inbox,
       OnlyClients, queueVars, masterVars, reporterVars
  <2> QED BY <2>1, <2>2, <2>3, OthersStayForClients
<1>17. CASE ProxyInsert(o)
  <2>1. Head(client_queue[o]) \in ClientMessage
    BY <1>1, <1>17, RangeOfTail DEF ProxyInsert
  <2>2. Append(runs[o], Head(client_queue[o])) \in Seq(ClientMessage)
    BY <1>1, <2>1, RangeOfAppend
  <2>3. ClientTypeOK'
    BY <1>17, <2>2 DEF ProxyInsert, ClientTypeOK
  <2>4. QueuesTypeOK'
    BY <1>17 DEF ProxyInsert, QueuesTypeOK, queueVars, faultVars
  <2>5. BusyOnMessage'
    BY <1>17 DEF ProxyInsert, ClientTypeOK, BusyOnMessage, Inbox,
       OnlyClients, queueVars, masterVars, reporterVars
  <2> QED BY <2>3, <2>4, <2>5, OthersStayForClients
<1>18. CASE ProxyAck(o)
  <2>1. Tail(client_queue[o]) \in Seq(ClientMessage)
    BY <1>1, <1>8, <1>18, RangeOfTail DEF ProxyAck
  <2>2. ClientTypeOK'
    BY <1>18 DEF ProxyAck, ClientTypeOK
  <2>3. QueuesTypeOK'
    BY <1>18, <2>1 DEF ProxyAck, Acknowledge, QueuesTypeOK, faultVars
  <2>4. BusyOnMessage'
    BY <1>1, <1>8, <1>18 DEF ProxyAck, Acknowledge, ClientTypeOK,
       BusyOnMessage, Inbox, OnlyClients, masterVars, reporterVars
  <2> QED BY <2>2, <2>3, <2>4, OthersStayForClients
<1>19. CASE ProxyFails(o)
  <2>1. ClientTypeOK'
    BY <1>19 DEF ProxyFails, ClientTypeOK
  <2>2. QueuesTypeOK'
    BY <1>19, BoundsAssumption DEF ProxyFails, Fails, QueuesTypeOK, queueVars
  <2>3. BusyOnMessage'
    BY <1>19 DEF ProxyFails, ClientTypeOK, BusyOnMessage, Inbox,
       OnlyClients, queueVars, masterVars, reporterVars
  <2> QED BY <2>1, <2>2, <2>3, OthersStayForClients
<1>20. CASE GetNext(o)
  <2>1. ClientTypeOK'
    BY <1>5, <1>20 DEF GetNext, ClientTypeOK
  <2>2. QueuesTypeOK'
    BY <1>20 DEF GetNext, QueuesTypeOK, queueVars, faultVars
  <2>3. BusyOnMessage'
    BY <1>5, <1>20 DEF GetNext, ClientTypeOK, BusyOnMessage, Inbox,
       OnlyClients, queueVars, masterVars, reporterVars
  <2> QED BY <2>1, <2>2, <2>3, OthersStayForClients
<1>21. CASE ReplyLost(o)
  <2>1. ClientTypeOK'
    BY <1>2, <1>5, <1>21 DEF ReplyLost, ClientTypeOK
  <2>2. QueuesTypeOK'
    BY <1>21, BoundsAssumption DEF ReplyLost, Loses, QueuesTypeOK, queueVars
  <2>3. BusyOnMessage'
    BY <1>21 DEF ReplyLost, ClientTypeOK, BusyOnMessage, Inbox,
       OnlyClients, queueVars, masterVars, reporterVars
  <2> QED BY <2>1, <2>2, <2>3, OthersStayForClients
<1> QED
  BY <1>10, <1>11, <1>12, <1>13, <1>14, <1>15, <1>16, <1>17, <1>18, <1>19,
     <1>20, <1>21 DEF ClientSteps, WorkerStep

LEMMA ReporterTypeInv ==
    ASSUME TypeInv, OnlyReporter, ReporterStep \/ ReporterFails
    PROVE  TypeInv'
<1> USE DEF TypeInv, TypeOK
<1>1. outgoing # <<>>
  BY DEF BusyOnMessage, ReporterStep, ReporterPosts, ReporterSaves,
         ReporterAck, ReporterFails
<1>2. Head(outgoing) \in Job /\ Tail(outgoing) \in Seq(ResultMessage)
  BY <1>1, RangeOfTail DEF QueuesTypeOK, Job
<1>3. CASE ReporterPosts
  <2>1. QueuesTypeOK' /\ BusyOnMessage'
    BY <1>1, <1>3 DEF ReporterPosts, QueuesTypeOK, BusyOnMessage, Inbox,
       OnlyReporter, queueVars, faultVars, masterVars, clientVars
  <2>2. ReporterTypeOK'
    BY <1>2, <1>3 DEF ReporterPosts, ReporterTypeOK
  <2> QED BY <2>1, <2>2, OthersStayForReporter
<1>4. CASE ReporterSaves
  <2>1. QueuesTypeOK' /\ BusyOnMessage'
    BY <1>1, <1>4 DEF ReporterSaves, QueuesTypeOK, BusyOnMessage, Inbox,
       OnlyReporter, queueVars, faultVars, masterVars, clientVars
  <2>2. ReporterTypeOK'
    BY <1>2, <1>4 DEF ReporterSaves, ReporterTypeOK
  <2> QED BY <2>1, <2>2, OthersStayForReporter
<1>5. CASE ReporterAck
  <2>1. QueuesTypeOK' /\ ReporterTypeOK'
    BY <1>2, <1>5 DEF ReporterAck, QueuesTypeOK, ReporterTypeOK, faultVars
  <2>2. BusyOnMessage'
    BY <1>5 DEF ReporterAck, BusyOnMessage, Inbox, OnlyReporter, masterVars,
       clientVars
  <2> QED BY <2>1, <2>2, OthersStayForReporter
<1>6. CASE ReporterFails
  <2>1. QueuesTypeOK'
    BY <1>6, BoundsAssumption DEF ReporterFails, Fails, QueuesTypeOK,
       queueVars
  <2>2. ReporterTypeOK' /\ BusyOnMessage'
    BY <1>6 DEF ReporterFails, ReporterTypeOK, BusyOnMessage, Inbox,
       OnlyReporter, queueVars, masterVars, clientVars
  <2> QED BY <2>1, <2>2, OthersStayForReporter
<1> QED BY <1>3, <1>4, <1>5, <1>6 DEF ReporterStep

LEMMA NextTypeInv == TypeInv /\ [Next]_vars => TypeInv'
<1> SUFFICES ASSUME TypeInv, [Next]_vars PROVE TypeInv'
  OBVIOUS
<1>1. CASE Asked
  BY <1>1, SubmitTypeInv DEF Asked
<1>2. CASE MasterWorks
  BY <1>2, MasterReceiveTypeInv, MasterMovesTypeInv, MasterEnqueueTypeInv,
     MasterAckTypeInv DEF MasterWorks, MasterStep
<1>3. CASE DeferrersWork
  BY <1>3, DeferrerTypeInv DEF DeferrersWork
<1>4. ASSUME NEW nc \in NETCONFIGS, SchedulerWorks(nc) PROVE TypeInv'
  BY <1>4, SchedulerTypeInv DEF SchedulerWorks
<1>5. ASSUME NEW o \in OPERATING_SYSTEMS,
             WorkerWorks(o) \/ ProxyWorks(o) \/ WebmqWorks(o)
      PROVE  TypeInv'
  BY <1>5, ClientTypeInv
  DEF WorkerWorks, ProxyWorks, WebmqWorks, ClientSteps
<1>6. CASE ReporterWorks
  BY <1>6, ReporterTypeInv DEF ReporterWorks
<1>7. CASE Redelivery
  BY <1>7, MasterMovesTypeInv, SchedulerTypeInv, ClientTypeInv,
     ReporterTypeInv DEF Redelivery, ClientSteps
<1>8. CASE Death
  BY <1>8, DeferrerTypeInv, ClientTypeInv DEF Death, ClientSteps
<1>9. CASE UNCHANGED vars
  BY <1>9 DEF TypeInv, TypeOK, QueuesTypeOK, MasterTypeOK, SchedulerTypeOK,
     ClientTypeOK, ReporterTypeOK, BusyOnMessage, Inbox, vars, queueVars,
     faultVars, masterVars, ledgerVars, clientVars, reporterVars
<1> QED
  BY <1>1, <1>2, <1>3, <1>4, <1>5, <1>6, <1>7, <1>8, <1>9 DEF Next

LEMMA TypeInvHolds == Spec => []TypeInv
BY InitTypeInv, NextTypeInv, PTL DEF Spec

(* Every variable keeps its type, however the daemons interleave and fail.   *)
THEOREM TypeCorrect == Spec => []TypeOK
<1>1. TypeInv => TypeOK
  BY DEF TypeInv
<1> QED BY <1>1, TypeInvHolds, PTL
-----------------------------------------------------------------------------
(* Timestamps.  Only srmaster draws them, and it sleeps before it uses one:  *)
(* what was dispatched is older than the clock, except that the run being    *)
(* dispatched may have used its own timestamp already.                       *)
TimestampInv ==
    /\ \A p \in dispatched : p.tstamp < clock
    /\ master.phase = "sleeping" => master.tstamp = clock
    /\ master.phase = "dispatching" /\ master.todo # {} =>
            /\ master.tstamp < clock
            /\ \A p \in dispatched :
                    p.tstamp = master.tstamp => p.srid = master.srid
    /\ TimestampsTellRunsApart

LEMMA InitTimestampInv == Init => TimestampInv
BY DEF Init, MasterInit, Idle, TimestampInv, TimestampsTellRunsApart

LEMMA NextTimestampInv ==
    TypeInv /\ TimestampInv /\ [Next]_vars => TimestampInv'
<1> SUFFICES ASSUME TypeInv, TimestampInv, [Next]_vars
             PROVE  TimestampInv'
  OBVIOUS
<1> USE DEF TimestampInv, TimestampsTellRunsApart
<1>1. /\ master \in MasterState
      /\ clock \in Nat
      /\ \A p \in dispatched : p.tstamp \in Nat
  BY DEF TypeInv, TypeOK, MasterTypeOK, NetconfigMessage
<1>2. CASE UNCHANGED <<master, clock, dispatched>>
  BY <1>2
<1>3. CASE MasterReceive
  BY <1>1, <1>3 DEF MasterReceive, MasterState
<1>4. CASE CloneSucceeds
  BY <1>1, <1>4 DEF CloneSucceeds, MasterState
<1>5. CASE CloneDefers \/ CloneCancels \/ CloneDrops
  <2>1. MasterReturns /\ UNCHANGED <<clock, dispatched>>
    BY <1>5 DEF CloneDefers, CloneCancels, CloneDrops
  <2>2. master'.phase = "dispatching" /\ master'.todo = {}
    BY <1>1, <2>1 DEF MasterReturns, MasterState
  <2> QED BY <2>1, <2>2
<1>6. CASE MasterWakes
  <2>1. /\ master'.tstamp = clock
        /\ clock' = clock + 1
        /\ dispatched' = dispatched
        /\ master'.phase = "dispatching"
    BY <1>1, <1>6 DEF MasterWakes, MasterState
  <2> QED BY <1>1, <2>1
<1>7. ASSUME NEW nc \in NETCONFIGS, MasterEnqueue(nc) PROVE TimestampInv'
  <2>1. /\ master.phase = "dispatching" /\ master.todo # {}
        /\ master'.phase = "dispatching"
        /\ master'.tstamp = master.tstamp
        /\ master'.srid = master.srid
        /\ clock' = clock
        /\ dispatched' = dispatched \union
                {[srid |-> master.srid, tstamp |-> master.tstamp]}
    BY <1>1, <1>7 DEF MasterEnqueue, MasterState
  <2> QED BY <1>1, <2>1
<1>8. CASE MasterAck \/ MasterFails
  BY <1>1, <1>8 DEF MasterAck, MasterFails, Idle
<1>9. CASE DeferrersWork \/ Asked \/ Death
  <2>1. CASE DeferrersWork
    BY <1>2, <2>1 DEF DeferrersWork, DeferrerWakes
  <2>2. CASE Asked
    BY <1>2, <2>2 DEF Asked, Submit
  <2>3. CASE \E d \in deferrers : DeferrerDies(d)
    BY <1>2, <2>3 DEF DeferrerDies
  <2>4. CASE OnlyClients
    BY <1>2, <2>4 DEF OnlyClients, masterVars
  <2> QED BY <1>9, <2>1, <2>2, <2>3, <2>4 DEF Death
<1>10. CASE \E nc \in NETCONFIGS : SchedulerWorks(nc)
  BY <1>2, <1>10 DEF SchedulerWorks, OnlySchedulers, masterVars
<1>11. CASE \E o \in OPERATING_SYSTEMS :
                WorkerWorks(o) \/ ProxyWorks(o) \/ WebmqWorks(o)
  BY <1>2, <1>11 DEF WorkerWorks, ProxyWorks, WebmqWorks, OnlyClients,
     masterVars
<1>12. CASE ReporterWorks
  BY <1>2, <1>12 DEF ReporterWorks, OnlyReporter, masterVars
<1>13. CASE Redelivery
  BY <1>2, <1>8, <1>13 DEF Redelivery, OnlySchedulers, OnlyClients,
     OnlyReporter, masterVars
<1>14. CASE UNCHANGED vars
  BY <1>2, <1>14 DEF vars, masterVars
<1> QED
  BY <1>3, <1>4, <1>5, <1>6, <1>7, <1>8, <1>9, <1>10, <1>11, <1>12, <1>13,
     <1>14 DEF Next, MasterWorks, MasterStep

(* No two runs that reach a client share a timestamp, although srmaster may  *)
(* fail at any step and take the same message again.                         *)
THEOREM TimestampsAreUnique == Spec => []TimestampsTellRunsApart
<1>1. TimestampInv => TimestampsTellRunsApart
  BY DEF TimestampInv
<1>2. Init /\ [][Next]_vars => []TypeInv
  BY TypeInvHolds DEF Spec
<1> QED
  BY <1>1, <1>2, InitTimestampInv, NextTimestampInv, PTL DEF Spec
-----------------------------------------------------------------------------
(* No job is lost.  HandedOn says what a consumer has passed on by the time  *)
(* it acknowledges; with it each stage keeps what it has, or a later stage   *)
(* has it.                                                                   *)
MasterSide ==
    /\ OnlyMaster
    /\ \/ MasterStep \/ MasterFails
       \/ \E r \in Requests : Submit(r)
       \/ \E d \in deferrers : DeferrerWakes(d) \/ DeferrerDies(d)
SchedulerSide(nc) ==
    OnlySchedulers /\ (SchedulerStep(nc) \/ SchedulerFails(nc))
ClientSide(o) == OnlyClients /\ ClientSteps(o)
ReporterSide == OnlyReporter /\ (ReporterStep \/ ReporterFails)

LEMMA StepSides ==
    [Next]_vars => \/ MasterSide
                   \/ \E nc \in NETCONFIGS : SchedulerSide(nc)
                   \/ \E o \in OPERATING_SYSTEMS : ClientSide(o)
                   \/ ReporterSide
                   \/ UNCHANGED vars
BY DEF Next, MasterWorks, DeferrersWork, Asked, SchedulerWorks, WorkerWorks,
   ProxyWorks, WebmqWorks, ReporterWorks, Redelivery, Death, MasterSide,
   SchedulerSide, ClientSide, ClientSteps, ReporterSide

(* What srmaster and its deferrers do to the rest of the pipeline.           *)
LEMMA MasterSideFrame ==
    ASSUME TypeInv, MasterSide
    PROVE  /\ UNCHANGED <<client_queue, outgoing, scheduler, worker, proxy,
                          runs, response, unreported, forgotten, reporter,
                          archived>>
           /\ \A nc \in NETCONFIGS :
                /\ Range(netconfig_queue[nc]) \subseteq
                        Range(netconfig_queue'[nc])
                /\ netconfig_queue[nc] # <<>> =>
                        Head(netconfig_queue'[nc]) = Head(netconfig_queue[nc])
<1>1. UNCHANGED <<client_queue, outgoing, scheduler, worker, proxy, runs,
                  response, unreported, forgotten, reporter, archived>>
  <2>1. UNCHANGED <<client_queue, outgoing>>
    BY DEF MasterSide, MasterStep, MasterReceive, CloneSucceeds, CloneDefers,
       CloneCancels, CloneDrops, MasterWakes, MasterEnqueue, MasterAck,
       MasterFails, Submit, DeferrerWakes, DeferrerDies, queueVars
  <2> QED
    BY <2>1 DEF MasterSide, OnlyMaster, clientVars, reporterVars
<1>2. CASE UNCHANGED netconfig_queue
  BY <1>1, <1>2
<1>3. ASSUME NEW nc \in NETCONFIGS, MasterEnqueue(nc),
             NEW k \in NETCONFIGS
      PROVE  /\ Range(netconfig_queue[k]) \subseteq Range(netconfig_queue'[k])
             /\ netconfig_queue[k] # <<>> =>
                    Head(netconfig_queue'[k]) = Head(netconfig_queue[k])
  <2> DEFINE m == [srid |-> master.srid, tstamp |-> master.tstamp]
  <2>1. m \in NetconfigMessage
    BY DEF TypeInv, TypeOK, MasterTypeOK, MasterState, NetconfigMessage
  <2>2. /\ netconfig_queue' = [netconfig_queue EXCEPT
                                 ![nc] = Append(netconfig_queue[nc], m)]
        /\ netconfig_queue \in [NETCONFIGS -> Seq(NetconfigMessage)]
    BY <1>3 DEF MasterEnqueue, Enqueue, TypeInv, TypeOK, QueuesTypeOK
  <2> HIDE DEF m
  <2>3. CASE k = nc
    <3>1. netconfig_queue'[k] = Append(netconfig_queue[k], m)
      BY <2>2, <2>3
    <3> QED BY <2>1, <2>2, <3>1, RangeOfAppend
  <2>4. CASE k # nc
    BY <2>2, <2>4
  <2> QED BY <2>3, <2>4
<1>4. UNCHANGED netconfig_queue \/ \E nc \in NETCONFIGS : MasterEnqueue(nc)
  BY DEF MasterSide, MasterStep, MasterReceive, CloneSucceeds, CloneDefers,
     CloneCancels, CloneDrops, MasterWakes, MasterAck, MasterFails, Submit,
     DeferrerWakes, DeferrerDies, queueVars
<1> QED BY <1>1, <1>2, <1>3, <1>4

LEMMA SchedulerSideFrame ==
    ASSUME TypeInv, NEW nc \in NETCONFIGS, SchedulerSide(nc)
    PROVE  /\ UNCHANGED <<incoming, outgoing, master, deferrers, ledgerVars,
                          worker, proxy, runs, response, unreported,
                          forgotten, reporter, archived>>
           /\ \A k \in NETCONFIGS \ {nc} :
                /\ netconfig_queue'[k] = netconfig_queue[k]
                /\ scheduler'[k] = scheduler[k]
           /\ \A o \in OPERATING_SYSTEMS :
                /\ Range(client_queue[o]) \subseteq Range(client_queue'[o])
                /\ client_queue[o] # <<>> =>
                        Head(client_queue'[o]) = Head(client_queue[o])
<1>1. UNCHANGED <<incoming, outgoing, master, deferrers, ledgerVars, worker,
                  proxy, runs, response, unreported, forgotten, reporter,
                  archived>>
  BY DEF SchedulerSide, SchedulerStep, SchedulerReceive, SchedulerEnqueue,
     SchedulerAck, SchedulerFails, OnlySchedulers, queueVars, masterVars,
     clientVars, reporterVars
<1>2. \A k \in NETCONFIGS \ {nc} : /\ netconfig_queue'[k] = netconfig_queue[k]
                                   /\ scheduler'[k] = scheduler[k]
  BY DEF SchedulerSide, SchedulerStep, SchedulerReceive, SchedulerEnqueue,
     SchedulerAck, SchedulerFails, Acknowledge, queueVars, TypeInv, TypeOK,
     QueuesTypeOK, SchedulerTypeOK
<1>3. CASE UNCHANGED client_queue
  BY <1>1, <1>2, <1>3
<1>4. ASSUME NEW o \in OPERATING_SYSTEMS, SchedulerEnqueue(nc, o),
             NEW k \in OPERATING_SYSTEMS
      PROVE  /\ Range(client_queue[k]) \subseteq Range(client_queue'[k])
             /\ client_queue[k] # <<>> =>
                    Head(client_queue'[k]) = Head(client_queue[k])
  <2> DEFINE m == [srid |-> Head(netconfig_queue[nc]).srid, netconfig |-> nc,
                   tstamp |-> Head(netconfig_queue[nc]).tstamp]
  <2>1. m \in ClientMessage
    <3>1. Head(netconfig_queue[nc]) \in NetconfigMessage
      BY <1>4, RangeOfTail
      DEF SchedulerEnqueue, TypeInv, TypeOK, QueuesTypeOK, BusyOnMessage
    <3> QED BY <3>1 DEF NetconfigMessage, ClientMessage
  <2>2. /\ client_queue' = [client_queue EXCEPT
                                ![o] = Append(client_queue[o], m)]
        /\ client_queue \in [OPERATING_SYSTEMS -> Seq(ClientMessage)]
    BY <1>4 DEF SchedulerEnqueue, Enqueue, TypeInv, TypeOK, QueuesTypeOK
  <2> HIDE DEF m
  <2>3. CASE k = o
    <3>1. client_queue'[k] = Append(client_queue[k], m)
      BY <2>2, <2>3
    <3> QED BY <2>1, <2>2, <3>1, RangeOfAppend
  <2>4. CASE k # o
    BY <2>2, <2>4
  <2> QED BY <2>3, <2>4
<1>5. \/ UNCHANGED client_queue
      \/ \E o \in OPERATING_SYSTEMS : SchedulerEnqueue(nc, o)
  BY DEF SchedulerSide, SchedulerStep, SchedulerReceive, SchedulerAck,
     SchedulerFails, queueVars
<1> QED BY <1>1, <1>2, <1>3, <1>4, <1>5

LEMMA ClientSideFrame ==
    ASSUME TypeInv, NEW o \in OPERATING_SYSTEMS, ClientSide(o)
    PROVE  /\ UNCHANGED <<incoming, netconfig_queue, master, deferrers,
                          ledgerVars, scheduler, reporter, archived>>
           /\ unreported \subseteq unreported'
           /\ forgotten \subseteq forgotten'
           /\ Range(outgoing) \subseteq Range(outgoing')
           /\ outgoing # <<>> => Head(outgoing') = Head(outgoing)
           /\ \A k \in OPERATING_SYSTEMS \ {o} :
                /\ client_queue'[k] = client_queue[k]
                /\ runs'[k] = runs[k]
                /\ response'[k] = response[k]
                /\ worker'[k] = worker[k]
                /\ proxy'[k] = proxy[k]
<1> USE DEF ClientSide, ClientSteps, WorkerStep
<1>1. UNCHANGED <<incoming, netconfig_queue, master, deferrers, ledgerVars,
                  scheduler, reporter, archived>>
  BY DEF WorkerReceive, WorkerSkips, WorkerUploads, WorkerFailsToUpload,
     WorkerReturns, WorkerFails, WebWorkerDies, ProxyInsert, ProxyAck,
     ProxyFails, GetNext, ReplyLost, OnlyClients, queueVars, masterVars,
     reporterVars
<1>2. unreported \subseteq unreported' /\ forgotten \subseteq forgotten'
  BY DEF WorkerReceive, WorkerSkips, WorkerUploads, WorkerFailsToUpload,
     WorkerReturns, WorkerFails, WebWorkerDies, ProxyInsert, ProxyAck,
     ProxyFails, GetNext, ReplyLost
<1>3. /\ Range(outgoing) \subseteq Range(outgoing')
      /\ outgoing # <<>> => Head(outgoing') = Head(outgoing)
  <2>1. CASE WorkerUploads(o)
    <3>1. Head(Inbox(o)) \in ClientMessage
      BY <2>1, RangeOfTail DEF WorkerUploads, TypeInv, TypeOK, QueuesTypeOK,
         ClientTypeOK, BusyOnMessage, Inbox
    <3>2. JobOn(Head(Inbox(o)), o) \in ResultMessage
      BY <3>1 DEF ClientMessage, Srid, JobOn, JobOf, ResultMessage
    <3> QED
      BY <2>1, <3>2, RangeOfAppend
      DEF WorkerUploads, TypeInv, TypeOK, QueuesTypeOK
  <2>2. CASE UNCHANGED outgoing
    BY <2>2
  <2> QED
    BY <2>1, <2>2 DEF WorkerReceive, WorkerSkips, WorkerFailsToUpload,
       WorkerReturns, WorkerFails, WebWorkerDies, ProxyInsert, ProxyAck,
       ProxyFails, GetNext, ReplyLost, queueVars
<1>4. ASSUME NEW k \in OPERATING_SYSTEMS \ {o}
      PROVE  client_queue'[k] = client_queue[k]
  BY DEF WorkerReceive, WorkerSkips, WorkerUploads, WorkerFailsToUpload,
     WorkerReturns, WorkerFails, WebWorkerDies, ProxyInsert, ProxyAck,
     ProxyFails, GetNext, ReplyLost, Acknowledge, queueVars, TypeInv, TypeOK,
     QueuesTypeOK
<1>5. ASSUME NEW k \in OPERATING_SYSTEMS \ {o}
      PROVE  /\ runs'[k] = runs[k]
             /\ response'[k] = response[k]
  BY DEF WorkerReceive, WorkerSkips, WorkerUploads, WorkerFailsToUpload,
     WorkerReturns, WorkerFails, WebWorkerDies, ProxyInsert, ProxyAck,
     ProxyFails, GetNext, ReplyLost, TypeInv, TypeOK, ClientTypeOK
<1>6. ASSUME NEW k \in OPERATING_SYSTEMS \ {o}
      PROVE  /\ worker'[k] = worker[k]
             /\ proxy'[k] = proxy[k]
  BY DEF WorkerReceive, WorkerSkips, WorkerUploads, WorkerFailsToUpload,
     WorkerReturns, WorkerFails, WebWorkerDies, ProxyInsert, ProxyAck,
     ProxyFails, GetNext, ReplyLost, TypeInv, TypeOK, ClientTypeOK
<1> QED BY <1>1, <1>2, <1>3, <1>4, <1>5, <1>6

LEMMA ReporterSideFrame ==
    ASSUME TypeInv, ReporterSide
    PROVE  /\ UNCHANGED <<incoming, netconfig_queue, client_queue, master,
                          deferrers, ledgerVars, scheduler, worker, proxy,
                          runs, response, unreported, forgotten>>
           /\ \A j \in Job : Reported(j) => Reported(j)'
<1>1. UNCHANGED <<incoming, netconfig_queue, client_queue, master, deferrers,
                  ledgerVars, scheduler, worker, proxy, runs, response,
                  unreported, forgotten>>
  BY DEF ReporterSide, ReporterStep, ReporterPosts, ReporterSaves,
     ReporterAck, ReporterFails, OnlyReporter, queueVars, masterVars,
     clientVars
<1>2. CASE ReporterSaves
  <2>1. archived' = [archived EXCEPT ![Head(outgoing)] = @ + 1]
        /\ archived \in [Job -> Nat]
    BY <1>2 DEF ReporterSaves, TypeInv, TypeOK, ReporterTypeOK
  <2> QED BY <1>1, <2>1 DEF Reported
<1>3. CASE UNCHANGED archived
  BY <1>1, <1>3 DEF Reported
<1> QED
  BY <1>2, <1>3
  DEF ReporterSide, ReporterStep, ReporterPosts, ReporterAck, ReporterFails

(* What reached the reporter stays there until it is reported.               *)
LEMMA AtReporterStays ==
    ASSUME TypeInv, HandedOn, [Next]_vars, NEW j \in Job, AtReporter(j)
    PROVE  AtReporter(j)'
<1> USE DEF AtReporter, GivenUp
<1>1. CASE MasterSide
  BY <1>1, MasterSideFrame DEF Reported
<1>2. CASE \E nc \in NETCONFIGS : SchedulerSide(nc)
  BY <1>2, SchedulerSideFrame DEF Reported
<1>3. CASE \E o \in OPERATING_SYSTEMS : ClientSide(o)
  BY <1>3, ClientSideFrame DEF Reported
<1>4. CASE ReporterSide
  <2>1. CASE UNCHANGED outgoing
    BY <1>4, <2>1, ReporterSideFrame
  <2>2. CASE ReporterAck
    <3>1. /\ outgoing # <<>>
          /\ outgoing \in Seq(ResultMessage)
          /\ outgoing' = Tail(outgoing)
          /\ Reported(Head(outgoing))
      BY <2>2 DEF ReporterAck, TypeInv, TypeOK, QueuesTypeOK, BusyOnMessage,
         HandedOn, ReporterHandedOn
    <3>2. j = Head(outgoing) \/ j \in Range(outgoing') \/ Reported(j)
            \/ j \in GivenUp
      BY <3>1, RangeOfTail
    <3> QED BY <1>4, <3>1, <3>2, ReporterSideFrame
  <2> QED
    BY <1>4, <2>1, <2>2 DEF ReporterSide, ReporterStep, ReporterPosts,
       ReporterSaves, ReporterFails, queueVars
<1>5. CASE UNCHANGED vars
  BY <1>5 DEF vars, queueVars, clientVars, reporterVars, Reported
<1> QED BY <1>1, <1>2, <1>3, <1>4, <1>5, StepSides

LEMMA RangeOfTailAppend ==
    ASSUME NEW S, NEW s \in Seq(S), NEW e \in S, s # <<>>
    PROVE  Range(Tail(Append(s, e))) = Range(Tail(s)) \union {e}
<1>1. Tail(s) \in Seq(S) /\ Append(s, e) \in Seq(S)
  BY RangeOfTail, RangeOfAppend
<1>2. Tail(Append(s, e)) = Append(Tail(s), e)
  BY HeadTailAppend
<1>3. Range(Append(Tail(s), e)) = Range(Tail(s)) \union {e}
  <2> DEFINE t == Tail(s)
  <2>1. t \in Seq(S)
    BY <1>1
  <2> HIDE DEF t
  <2>2. Range(Append(t, e)) = Range(t) \union {e}
    BY <2>1, RangeOfAppend
  <2> QED BY <2>2 DEF t
<1> QED BY <1>2, <1>3

(* srwebworker holds one reply at a time.                                    *)
OneReply ==
    \A o \in OPERATING_SYSTEMS :
        response[o] # <<>> => Range(response[o]) = {Head(response[o])}

LEMMA RangeOfSingle ==
    ASSUME NEW x PROVE Range(<<x>>) = {x} /\ Head(<<x>>) = x
BY DEF Range

LEMMA InitOneReply == Init => OneReply
BY DEF Init, ClientInit, OneReply

LEMMA NextOneReply == TypeInv /\ OneReply /\ [Next]_vars => OneReply'
<1> SUFFICES ASSUME TypeInv, OneReply, [Next]_vars PROVE OneReply'
  OBVIOUS
<1>1. CASE UNCHANGED response
  BY <1>1 DEF OneReply
<1>2. ASSUME NEW o \in OPERATING_SYSTEMS, ClientSide(o) PROVE OneReply'
  <2>1. response \in [OPERATING_SYSTEMS -> Seq(ClientMessage)]
    BY DEF TypeInv, TypeOK, ClientTypeOK
  <2>2. \/ response'[o] = response[o]
        \/ response'[o] = <<>>
        \/ response'[o] = <<Head(runs[o])>>
    BY <1>2, <2>1 DEF ClientSide, ClientSteps, WorkerStep, WorkerReceive,
       WorkerSkips, WorkerUploads, WorkerFailsToUpload, WorkerReturns,
       WorkerFails, WebWorkerDies, ProxyInsert, ProxyAck, ProxyFails, GetNext,
       ReplyLost
  <2>3. response'[o] # <<>> => Range(response'[o]) = {Head(response'[o])}
    BY <2>2, RangeOfSingle DEF OneReply
  <2> QED BY <1>2, <2>3, ClientSideFrame DEF OneReply
<1> QED
  BY <1>1, <1>2, StepSides, MasterSideFrame, SchedulerSideFrame,
     ReporterSideFrame DEF vars, clientVars

LEMMA ClientJob ==
    ASSUME TypeInv, NEW o \in OPERATING_SYSTEMS
    PROVE  /\ client_queue[o] \in Seq(ClientMessage)
           /\ runs[o] \in Seq(ClientMessage)
           /\ response[o] \in Seq(ClientMessage)
           /\ \A m \in OnClient(o) : m \in ClientMessage /\ JobOn(m, o) \in Job
<1>1. /\ client_queue[o] \in Seq(ClientMessage)
      /\ runs[o] \in Seq(ClientMessage)
      /\ response[o] \in Seq(ClientMessage)
  BY DEF TypeInv, TypeOK, QueuesTypeOK, ClientTypeOK
<1>2. OnClient(o) \subseteq ClientMessage
  BY <1>1 DEF OnClient, Rows, Range
<1>3. \A m \in ClientMessage : JobOn(m, o) \in Job
  BY DEF ClientMessage, Srid, JobOn, JobOf, Job, ResultMessage
<1> QED BY <1>1, <1>2, <1>3

(* A row, or the reply made of it, ends in a report or is given up.          *)
LEMMA RowsStay ==
    ASSUME TypeInv, OneReply, HandedOn, NEW o \in OPERATING_SYSTEMS,
           ClientSide(o), NEW m \in Rows(o)
    PROVE  \/ \E n \in Rows(o)' : JobOn(n, o) = JobOn(m, o)
           \/ AtReporter(JobOn(m, o))'
<1> USE DEF ClientSide, ClientSteps, WorkerStep
<1>1. /\ client_queue[o] \in Seq(ClientMessage)
      /\ runs[o] \in Seq(ClientMessage)
      /\ JobOn(m, o) \in Job
  BY ClientJob DEF OnClient
<1>2. [Next]_vars
  BY DEF Next, WorkerWorks, ProxyWorks, WebmqWorks, Redelivery, Death
<1>3. AtReporter(JobOn(m, o)) => AtReporter(JobOn(m, o))'
  BY <1>1, <1>2, AtReporterStays
<1>4. runs \in [OPERATING_SYSTEMS -> Seq(ClientMessage)]
      /\ response \in [OPERATING_SYSTEMS -> Seq(ClientMessage)]
  BY DEF TypeInv, TypeOK, ClientTypeOK
<1>5. CASE UNCHANGED <<runs, response>>
  BY <1>5 DEF Rows
<1>6. CASE WorkerSkips(o) \/ WebWorkerDies(o)
  <2>1. /\ response[o] # <<>>
        /\ UNCHANGED runs
        /\ JobOn(Head(response[o]), o) \in GivenUp'
    BY <1>6 DEF WorkerSkips, WebWorkerDies, GivenUp
  <2> QED BY <2>1 DEF OneReply, Rows, AtReporter
<1>7. CASE WorkerReturns(o) /\ o \in WebClients
  <2>1. /\ AtReporter(JobOn(Head(response[o]), o))
        /\ response[o] # <<>>
        /\ UNCHANGED runs
    <3>1. response[o] # <<>> /\ UNCHANGED runs
      BY <1>7 DEF WorkerReturns, TypeInv, BusyOnMessage, Inbox
    <3>2. Head(response[o]) \in OnClient(o)
      BY <3>1 DEF OneReply, OnClient, Rows
    <3> QED
      BY <1>7, <3>1, <3>2
      DEF WorkerReturns, HandedOn, WorkerHandedOn, Inbox
  <2> QED BY <1>3, <2>1 DEF OneReply, Rows
<1>8. CASE ProxyInsert(o)
  <2>1. /\ runs'[o] = Append(runs[o], Head(client_queue[o]))
        /\ UNCHANGED response
        /\ Head(client_queue[o]) \in ClientMessage
    BY <1>1, <1>4, <1>8, RangeOfTail DEF ProxyInsert
  <2>2. Range(runs[o]) \subseteq Range(runs'[o])
    BY <1>1, <2>1, RangeOfAppend
  <2> QED BY <2>1, <2>2 DEF Rows
<1>9. CASE GetNext(o)
  <2>1. /\ runs[o] # <<>>
        /\ runs'[o] = Tail(runs[o])
        /\ response[o] = <<>>
        /\ response'[o] = <<Head(runs[o])>>
    BY <1>4, <1>9 DEF GetNext
  <2>2. /\ Range(runs[o]) = Range(runs'[o]) \union {Head(runs[o])}
        /\ Range(response'[o]) = {Head(runs[o])}
    BY <1>1, <2>1, RangeOfTail, RangeOfSingle
  <2> QED BY <2>1, <2>2, RangeOfEmpty DEF Rows
<1>10. CASE ReplyLost(o)
  <2>1. /\ runs[o] # <<>>
        /\ runs'[o] = Tail(runs[o])
        /\ UNCHANGED response
        /\ JobOn(Head(runs[o]), o) \in GivenUp'
    BY <1>4, <1>10 DEF ReplyLost, GivenUp
  <2>2. Range(runs[o]) = Range(runs'[o]) \union {Head(runs[o])}
    BY <1>1, <2>1, RangeOfTail
  <2> QED BY <2>1, <2>2 DEF Rows, AtReporter
<1> QED
  BY <1>5, <1>6, <1>7, <1>8, <1>9, <1>10
  DEF WorkerReceive, WorkerUploads, WorkerFailsToUpload, WorkerReturns,
      WorkerFails, ProxyAck, ProxyFails

(* A job that leaves a client went to the reporter or was given up.          *)
LEMMA OnClientStays ==
    ASSUME TypeInv, OneReply, HandedOn, NEW o \in OPERATING_SYSTEMS,
           ClientSide(o), NEW m \in OnClient(o)
    PROVE  \/ \E n \in OnClient(o)' : JobOn(n, o) = JobOn(m, o)
           \/ AtReporter(JobOn(m, o))'
<1> USE DEF ClientSide, ClientSteps, WorkerStep
<1>1. JobOn(m, o) \in Job /\ client_queue[o] \in Seq(ClientMessage)
  BY ClientJob
<1>2. [Next]_vars
  BY DEF Next, WorkerWorks, ProxyWorks, WebmqWorks, Redelivery, Death
<1>3. AtReporter(JobOn(m, o)) => AtReporter(JobOn(m, o))'
  BY <1>1, <1>2, AtReporterStays
<1>4. client_queue \in [OPERATING_SYSTEMS -> Seq(ClientMessage)]
  BY DEF TypeInv, TypeOK, QueuesTypeOK
<1>5. CASE m \in Rows(o)
  BY <1>5, RowsStay DEF OnClient
<1>6. CASE m \in Range(client_queue'[o])
  BY <1>6 DEF OnClient
<1>7. CASE WorkerReturns(o) /\ o \notin WebClients
           /\ m \in Range(client_queue[o])
  <2>1. /\ client_queue[o] # <<>>
        /\ client_queue'[o] = Tail(client_queue[o])
        /\ AtReporter(JobOn(Head(client_queue[o]), o))
    <3>1. /\ client_queue[o] # <<>>
          /\ client_queue'[o] = Tail(client_queue[o])
      BY <1>4, <1>7 DEF WorkerReturns, Acknowledge, TypeInv, BusyOnMessage,
         Inbox
    <3>2. Head(client_queue[o]) \in OnClient(o)
      BY <1>1, <3>1, RangeOfTail DEF OnClient
    <3> QED
      BY <1>7, <3>1, <3>2
      DEF WorkerReturns, HandedOn, WorkerHandedOn, Inbox
  <2>2. Range(client_queue[o]) = Range(client_queue'[o])
                                        \union {Head(client_queue[o])}
    BY <1>1, <2>1, RangeOfTail
  <2> QED BY <1>3, <1>6, <1>7, <2>1, <2>2
<1>8. CASE ProxyAck(o) /\ m \in Range(client_queue[o])
  <2>1. /\ client_queue[o] # <<>>
        /\ client_queue'[o] = Tail(client_queue[o])
        /\ UNCHANGED <<runs, response>>
    BY <1>4, <1>8 DEF ProxyAck, Acknowledge, TypeInv, BusyOnMessage
  <2>2. Range(client_queue[o]) = Range(client_queue'[o])
                                        \union {Head(client_queue[o])}
    BY <1>1, <2>1, RangeOfTail
  <2>3. CASE m = Head(client_queue[o])
    <3>1. \/ \E n \in Rows(o) : JobOn(n, o) = JobOn(m, o)
          \/ AtReporter(JobOn(m, o))
      BY <1>8, <2>3 DEF ProxyAck, HandedOn, ProxyHandedOn
    <3> QED BY <1>3, <2>1, <3>1 DEF OnClient, Rows
  <2> QED BY <1>6, <1>8, <2>2, <2>3
<1>9. CASE UNCHANGED client_queue
  BY <1>5, <1>9 DEF OnClient
<1> QED
  BY <1>5, <1>7, <1>8, <1>9
  DEF OnClient, WorkerReceive, WorkerSkips, WorkerUploads,
      WorkerFailsToUpload, WorkerReturns, WorkerFails, WebWorkerDies,
      ProxyInsert, ProxyFails, GetNext, ReplyLost, queueVars

LEMMA AtClientStays ==
    ASSUME TypeInv, OneReply, HandedOn, [Next]_vars, NEW j \in Job,
           AtClient(j)
    PROVE  AtClient(j)'
<1> DEFINE k == j.operating_system
<1>1. k \in OPERATING_SYSTEMS
  BY DEF Job, ResultMessage
<1>2. CASE AtReporter(j)
  BY <1>2, AtReporterStays DEF AtClient
<1>3. ASSUME ~AtReporter(j) PROVE AtClient(j)'
  <2>1. PICK m \in OnClient(k) : JobOn(m, k) = j
    BY <1>3 DEF AtClient, OnClient, Rows
  <2>2. CASE OnClient(k) \subseteq OnClient(k)'
    BY <2>1, <2>2 DEF AtClient, OnClient, Rows
  <2>3. CASE MasterSide \/ ReporterSide \/ UNCHANGED vars
    BY <2>2, <2>3, MasterSideFrame, ReporterSideFrame
    DEF OnClient, Rows, vars, queueVars, clientVars
  <2>4. ASSUME NEW nc \in NETCONFIGS, SchedulerSide(nc) PROVE AtClient(j)'
    BY <1>1, <2>2, <2>4, SchedulerSideFrame DEF OnClient, Rows
  <2>5. ASSUME NEW o \in OPERATING_SYSTEMS, ClientSide(o) PROVE AtClient(j)'
    <3>1. CASE o # k
      BY <1>1, <2>2, <2>5, <3>1, ClientSideFrame DEF OnClient, Rows
    <3>2. CASE o = k
      <4>1. \/ \E n \in OnClient(k)' : JobOn(n, k) = j
            \/ AtReporter(j)'
        BY <2>1, <2>5, <3>2, OnClientStays
      <4> QED BY <4>1 DEF AtClient, OnClient, Rows
    <3> QED BY <3>1, <3>2
  <2> QED BY <2>3, <2>4, <2>5, StepSides
<1> QED BY <1>2, <1>3

(* A job its run asks for leaves a scheduler only for a client.              *)
LEMMA AtSchedulerStays ==
    ASSUME TypeInv, OneReply, HandedOn, [Next]_vars, NEW j \in Job,
           j.operating_system \in Systems(j.run), AtScheduler(j)
    PROVE  AtScheduler(j)'
<1> DEFINE k == j.netconfig
<1>1. k \in NETCONFIGS /\ j.run \in Requests
      /\ j = JobOf(j.run, k, j.operating_system)
  BY DEF Job, ResultMessage, JobOf
<1>2. CASE AtClient(j)
  BY <1>2, AtClientStays DEF AtScheduler
<1>3. ASSUME ~AtClient(j) PROVE AtScheduler(j)'
  <2>1. PICK m \in Range(netconfig_queue[k]) : m.srid.run = j.run
    BY <1>3 DEF AtScheduler
  <2>2. CASE m \in Range(netconfig_queue'[k])
    BY <2>1, <2>2 DEF AtScheduler
  <2>3. CASE MasterSide \/ ReporterSide \/ UNCHANGED vars
    BY <1>1, <2>2, <2>3, MasterSideFrame, ReporterSideFrame
    DEF vars, queueVars
  <2>4. ASSUME NEW o \in OPERATING_SYSTEMS, ClientSide(o)
        PROVE  AtScheduler(j)'
    BY <2>2, <2>4, ClientSideFrame
  <2>5. ASSUME NEW nc \in NETCONFIGS, SchedulerSide(nc)
        PROVE  AtScheduler(j)'
    <3>1. CASE nc # k
      BY <1>1, <2>2, <2>5, <3>1, SchedulerSideFrame
    <3>2. CASE UNCHANGED netconfig_queue
      BY <2>2, <3>2
    <3>3. CASE nc = k /\ SchedulerAck(nc)
      <4>1. /\ netconfig_queue[k] # <<>>
            /\ netconfig_queue[k] \in Seq(NetconfigMessage)
            /\ netconfig_queue'[k] = Tail(netconfig_queue[k])
        BY <1>1, <3>3 DEF SchedulerAck, Acknowledge, TypeInv, TypeOK,
           QueuesTypeOK, BusyOnMessage
      <4>2. Range(netconfig_queue[k]) = Range(netconfig_queue'[k])
                                    \union {Head(netconfig_queue[k])}
        BY <4>1, RangeOfTail
      <4>3. CASE m = Head(netconfig_queue[k])
        <5>1. \A o \in Systems(j.run) : AtClient(JobOf(j.run, k, o))
          BY <1>1, <2>1, <3>3, <4>3
          DEF SchedulerAck, HandedOn, SchedulerHandedOn
        <5> QED BY <1>1, <1>3, <5>1
      <4> QED BY <2>2, <4>2, <4>3
    <3> QED
      BY <2>5, <3>1, <3>2, <3>3 DEF SchedulerSide, SchedulerStep,
         SchedulerReceive, SchedulerEnqueue, SchedulerFails, queueVars
  <2> QED BY <2>3, <2>4, <2>5, StepSides
<1> QED BY <1>2, <1>3

LEMMA InitHandedOn == Init => HandedOn
BY DEF Init, MasterInit, SchedulerInit, ClientInit, ReporterInit, Idle,
   SchedulerIdle, HandedOn, MasterHandedOn, SchedulerHandedOn,
   WorkerHandedOn, ProxyHandedOn, ReporterHandedOn

(* A job of the run that srmaster handles.                                   *)
LEMMA JobOfRun ==
    ASSUME NEW r \in Requests, NEW nc \in Netconfigs(r), NEW o \in Systems(r)
    PROVE  /\ JobOf(r, nc, o) \in Job
           /\ JobOf(r, nc, o).run = r
           /\ JobOf(r, nc, o).netconfig = nc
           /\ JobOf(r, nc, o).operating_system = o
           /\ nc \in NETCONFIGS
           /\ o \in OPERATING_SYSTEMS
BY SubLists DEF JobOf, Job, ResultMessage

LEMMA NextReporterHandedOn ==
    ASSUME TypeInv, HandedOn, [Next]_vars PROVE ReporterHandedOn'
<1> USE DEF ReporterHandedOn
<1>1. (reporter = "saved" => Reported(Head(outgoing)))
      /\ (reporter = "saved" => outgoing # <<>>)
  BY DEF HandedOn, TypeInv, BusyOnMessage
<1>2. CASE MasterSide
  BY <1>1, <1>2, MasterSideFrame DEF Reported
<1>3. CASE \E nc \in NETCONFIGS : SchedulerSide(nc)
  BY <1>1, <1>3, SchedulerSideFrame DEF Reported
<1>4. CASE \E o \in OPERATING_SYSTEMS : ClientSide(o)
  BY <1>1, <1>4, ClientSideFrame DEF Reported
<1>5. CASE ReporterSide
  <2>1. CASE ReporterSaves
    <3>1. /\ Head(outgoing) \in Job
          /\ archived \in [Job -> Nat]
          /\ outgoing' = outgoing
      BY <2>1, RangeOfTail DEF ReporterSaves, TypeInv, TypeOK, QueuesTypeOK,
         ReporterTypeOK, BusyOnMessage, Job, queueVars
    <3> QED BY <2>1, <3>1 DEF ReporterSaves, Reported
  <2>2. CASE ~ReporterSaves
    BY <1>5, <2>2 DEF ReporterSide, ReporterStep, ReporterPosts, ReporterAck,
       ReporterFails
  <2> QED BY <2>1, <2>2
<1>6. CASE UNCHANGED vars
  BY <1>1, <1>6 DEF vars, queueVars, reporterVars, Reported
<1> QED BY <1>2, <1>3, <1>4, <1>5, <1>6, StepSides

LEMMA NextSchedulerHandedOn ==
    ASSUME TypeInv, OneReply, HandedOn, [Next]_vars
    PROVE  SchedulerHandedOn'
<1> SUFFICES ASSUME NEW k \in NETCONFIGS, NEW r \in Requests,
                    scheduler'[k].busy,
                    Head(netconfig_queue'[k]).srid.run = r,
                    NEW o \in Systems(r), o \notin scheduler'[k].todo
             PROVE  AtClient(JobOf(r, k, o))'
  BY DEF SchedulerHandedOn
<1> DEFINE j == JobOf(r, k, o)
<1>1. o \in OPERATING_SYSTEMS /\ j \in Job
  BY SubLists DEF JobOf, Job, ResultMessage
<1>2. ASSUME scheduler[k].busy, o \notin scheduler[k].todo,
             Head(netconfig_queue'[k]) = Head(netconfig_queue[k])
      PROVE  AtClient(j)'
  <2>1. AtClient(j)
    BY <1>2 DEF HandedOn, SchedulerHandedOn
  <2> QED BY <1>1, <2>1, AtClientStays
<1>3. scheduler[k].busy => netconfig_queue[k] # <<>>
  BY DEF TypeInv, BusyOnMessage
<1>4. CASE MasterSide
  BY <1>2, <1>3, <1>4, MasterSideFrame
<1>5. CASE ReporterSide \/ UNCHANGED vars
  BY <1>2, <1>5, ReporterSideFrame DEF vars, queueVars
<1>6. CASE \E c \in OPERATING_SYSTEMS : ClientSide(c)
  BY <1>2, <1>6, ClientSideFrame
<1>7. ASSUME NEW nc \in NETCONFIGS, SchedulerSide(nc) PROVE AtClient(j)'
  <2>1. CASE nc # k
    BY <1>2, <1>7, <2>1, SchedulerSideFrame
  <2>2. CASE nc = k /\ SchedulerReceive(k)
    BY <2>2 DEF SchedulerReceive, TypeInv, TypeOK, SchedulerTypeOK, queueVars
  <2>3. ASSUME nc = k, NEW c \in OPERATING_SYSTEMS, SchedulerEnqueue(k, c)
        PROVE  AtClient(j)'
    <3>1. /\ scheduler[k].busy
          /\ scheduler'[k].todo = scheduler[k].todo \ {c}
          /\ netconfig_queue' = netconfig_queue
      BY <2>3 DEF SchedulerEnqueue, TypeInv, TypeOK, SchedulerTypeOK
    <3>2. CASE o # c
      BY <1>2, <3>1, <3>2
    <3>3. CASE o = c
      <4> DEFINE m == [srid |-> Head(netconfig_queue[k]).srid, netconfig |-> k,
                       tstamp |-> Head(netconfig_queue[k]).tstamp]
      <4>1. Head(netconfig_queue[k]) \in NetconfigMessage
        BY <1>3, <3>1, RangeOfTail DEF TypeInv, TypeOK, QueuesTypeOK
      <4>2. m \in ClientMessage
        BY <4>1 DEF NetconfigMessage, ClientMessage
      <4>3. client_queue'[c] = Append(client_queue[c], m)
            /\ client_queue[c] \in Seq(ClientMessage)
        BY <2>3 DEF SchedulerEnqueue, Enqueue, TypeInv, TypeOK, QueuesTypeOK
      <4>4. JobOn(m, c) = j /\ j.operating_system = c
        BY <3>1, <3>3 DEF JobOn, JobOf
      <4> HIDE DEF m
      <4>5. m \in Range(client_queue'[c])
        BY <4>2, <4>3, RangeOfAppend
      <4> QED BY <4>4, <4>5 DEF AtClient, OnClient
    <3> QED BY <3>2, <3>3
  <2>4. CASE nc = k /\ (SchedulerAck(k) \/ SchedulerFails(k))
    BY <2>4 DEF SchedulerAck, SchedulerFails, SchedulerIdle, TypeInv, TypeOK,
       SchedulerTypeOK
  <2> QED
    BY <1>7, <2>1, <2>2, <2>3, <2>4 DEF SchedulerSide, SchedulerStep
<1> QED BY <1>4, <1>5, <1>6, <1>7, StepSides

(* The message a worker handles stays at the head of its inbox.              *)
LEMMA InboxStays ==
    ASSUME TypeInv, [Next]_vars, NEW k \in OPERATING_SYSTEMS,
           worker[k] = "finished", worker'[k] = "finished"
    PROVE  /\ Inbox(k)' # <<>>
           /\ Inbox(k) # <<>>
           /\ Head(Inbox(k))' = Head(Inbox(k))
<1>1. Inbox(k) # <<>>
  BY DEF TypeInv, BusyOnMessage
<1>2. Inbox(k)' # <<>>
  BY NextTypeInv DEF TypeInv, BusyOnMessage
<1>3. CASE MasterSide
  BY <1>1, <1>2, <1>3, MasterSideFrame DEF Inbox
<1>4. CASE \E nc \in NETCONFIGS : SchedulerSide(nc)
  BY <1>1, <1>2, <1>4, SchedulerSideFrame DEF Inbox
<1>5. CASE ReporterSide \/ UNCHANGED vars
  BY <1>1, <1>2, <1>5, ReporterSideFrame
  DEF Inbox, vars, queueVars, clientVars
<1>6. ASSUME NEW o \in OPERATING_SYSTEMS, ClientSide(o)
      PROVE  Head(Inbox(k))' = Head(Inbox(k))
  <2>1. CASE o # k
    BY <1>6, <2>1, ClientSideFrame DEF Inbox
  <2>2. CASE o = k
    <3>1. proxy[k] => k \in WebClients
      BY DEF TypeInv, BusyOnMessage
    <3>2. worker \in [OPERATING_SYSTEMS -> {"idle", "running", "finished"}]
      BY DEF TypeInv, TypeOK, ClientTypeOK
    <3>3. CASE ProxyInsert(k) \/ ProxyAck(k) \/ ProxyFails(k)
      BY <3>1, <3>3 DEF ProxyInsert, ProxyAck, ProxyFails, Inbox, queueVars
    <3>4. CASE GetNext(k) \/ ReplyLost(k)
      BY <1>1, <3>4 DEF GetNext, ReplyLost, Inbox, queueVars
    <3>5. CASE WorkerStep(k) \/ WorkerFails(k) \/ WebWorkerDies(k)
      BY <3>2, <3>5 DEF WorkerStep, WorkerReceive, WorkerSkips, WorkerUploads,
         WorkerFailsToUpload, WorkerReturns, WorkerFails, WebWorkerDies
    <3> QED BY <1>6, <2>2, <3>3, <3>4, <3>5 DEF ClientSide, ClientSteps
  <2> QED BY <2>1, <2>2
<1> QED BY <1>1, <1>2, <1>3, <1>4, <1>5, <1>6, StepSides

(* The head of a worker's inbox is a job on its client.                      *)
LEMMA InboxOnClient ==
    ASSUME TypeInv, OneReply, NEW k \in OPERATING_SYSTEMS, Inbox(k) # <<>>
    PROVE  Head(Inbox(k)) \in OnClient(k)
BY ClientJob, RangeOfTail DEF OneReply, Inbox, OnClient, Rows

LEMMA NextWorkerHandedOn ==
    ASSUME TypeInv, OneReply, HandedOn, [Next]_vars
    PROVE  WorkerHandedOn'
<1> SUFFICES ASSUME NEW k \in OPERATING_SYSTEMS, NEW m \in OnClient(k)',
                    worker'[k] = "finished", Head(Inbox(k))' = m
             PROVE  AtReporter(JobOn(m, k))'
  BY DEF WorkerHandedOn
<1>1. CASE worker[k] = "finished"
  <2>1. Inbox(k) # <<>> /\ Head(Inbox(k)) = m
    BY <1>1, InboxStays
  <2>2. m \in OnClient(k)
    BY <2>1, InboxOnClient
  <2>3. AtReporter(JobOn(m, k)) /\ JobOn(m, k) \in Job
    BY <1>1, <2>1, <2>2, ClientJob DEF HandedOn, WorkerHandedOn
  <2> QED BY <2>3, AtReporterStays
<1>2. CASE worker[k] # "finished"
  <2>1. ClientSide(k)
    BY <1>2, StepSides, MasterSideFrame, SchedulerSideFrame, ClientSideFrame,
       ReporterSideFrame DEF vars, clientVars
  <2>2. worker \in [OPERATING_SYSTEMS -> {"idle", "running", "finished"}]
    BY DEF TypeInv, TypeOK, ClientTypeOK
  <2>3. WorkerUploads(k) \/ WorkerFailsToUpload(k)
    BY <1>2, <2>1, <2>2 DEF ClientSide, ClientSteps, WorkerStep,
       WorkerReceive, WorkerSkips, WorkerReturns, WorkerFails, WebWorkerDies,
       ProxyInsert, ProxyAck, ProxyFails, GetNext, ReplyLost
  <2>4. Inbox(k) # <<>> /\ Head(Inbox(k)) = m
    BY <2>3 DEF WorkerUploads, WorkerFailsToUpload, Inbox, queueVars, TypeInv,
       BusyOnMessage
  <2>5. JobOn(m, k) \in ResultMessage
    BY <2>4, InboxOnClient, ClientJob DEF Job
  <2>6. CASE WorkerUploads(k)
    <3>1. outgoing' = Append(outgoing, JobOn(m, k))
          /\ outgoing \in Seq(ResultMessage)
      BY <2>4, <2>6 DEF WorkerUploads, TypeInv, TypeOK, QueuesTypeOK
    <3>2. JobOn(m, k) \in Range(outgoing')
      BY <2>5, <3>1, RangeOfAppend
    <3> QED BY <3>2 DEF AtReporter
  <2>7. CASE WorkerFailsToUpload(k)
    BY <2>4, <2>7 DEF WorkerFailsToUpload, AtReporter, GivenUp
  <2> QED BY <2>3, <2>6, <2>7
<1> QED BY <1>1, <1>2

LEMMA NextProxyHandedOn ==
    ASSUME TypeInv, OneReply, HandedOn, [Next]_vars
    PROVE  ProxyHandedOn'
<1> SUFFICES ASSUME NEW k \in OPERATING_SYSTEMS, NEW m \in OnClient(k)',
                    proxy'[k], Head(client_queue'[k]) = m
             PROVE  \/ \E n \in Rows(k)' : JobOn(n, k) = JobOn(m, k)
                    \/ AtReporter(JobOn(m, k))'
  BY DEF ProxyHandedOn
<1>1. proxy \in [OPERATING_SYSTEMS -> BOOLEAN]
  BY DEF TypeInv, TypeOK, ClientTypeOK
<1>2. ASSUME proxy[k], Head(client_queue'[k]) = Head(client_queue[k])
      PROVE  \/ \E n \in Rows(k)' : JobOn(n, k) = JobOn(m, k)
             \/ AtReporter(JobOn(m, k))'
  <2>1. client_queue[k] # <<>>
    BY <1>2 DEF TypeInv, BusyOnMessage
  <2>2. m \in OnClient(k) /\ JobOn(m, k) \in Job
    BY <1>2, <2>1, ClientJob, RangeOfTail DEF OnClient
  <2>3. \/ \E n \in Rows(k) : JobOn(n, k) = JobOn(m, k)
        \/ AtReporter(JobOn(m, k))
    BY <1>2, <2>2 DEF HandedOn, ProxyHandedOn
  <2>4. CASE AtReporter(JobOn(m, k))
    BY <2>2, <2>4, AtReporterStays
  <2>5. ASSUME NEW n \in Rows(k), JobOn(n, k) = JobOn(m, k)
        PROVE  \/ \E x \in Rows(k)' : JobOn(x, k) = JobOn(m, k)
               \/ AtReporter(JobOn(m, k))'
    <3>1. CASE ClientSide(k)
      BY <2>5, <3>1, RowsStay
    <3>2. CASE ~ClientSide(k)
      <4>1. runs'[k] = runs[k] /\ response'[k] = response[k]
        BY <3>2, StepSides, MasterSideFrame, SchedulerSideFrame,
           ClientSideFrame, ReporterSideFrame DEF vars, clientVars
      <4> QED BY <2>5, <4>1 DEF Rows
    <3> QED BY <3>1, <3>2
  <2> QED BY <2>3, <2>4, <2>5
<1>3. proxy[k] => client_queue[k] # <<>> /\ k \in WebClients
  BY DEF TypeInv, BusyOnMessage
<1>4. CASE MasterSide \/ ReporterSide \/ UNCHANGED vars
  BY <1>2, <1>4, MasterSideFrame, ReporterSideFrame
  DEF vars, queueVars, clientVars
<1>5. CASE \E nc \in NETCONFIGS : SchedulerSide(nc)
  BY <1>2, <1>3, <1>5, SchedulerSideFrame
<1>6. ASSUME NEW o \in OPERATING_SYSTEMS, ClientSide(o)
      PROVE  \/ \E n \in Rows(k)' : JobOn(n, k) = JobOn(m, k)
             \/ AtReporter(JobOn(m, k))'
  <2>1. CASE o # k
    BY <1>2, <1>6, <2>1, ClientSideFrame
  <2>2. CASE o = k /\ ProxyInsert(k)
    <3>1. /\ client_queue[k] # <<>>
          /\ client_queue' = client_queue
          /\ runs'[k] = Append(runs[k], m)
      BY <2>2 DEF ProxyInsert, TypeInv, TypeOK, ClientTypeOK, queueVars
    <3>2. m \in ClientMessage /\ runs[k] \in Seq(ClientMessage)
      BY <3>1, ClientJob, RangeOfTail
    <3>3. m \in Range(runs'[k])
      BY <3>1, <3>2, RangeOfAppend
    <3> QED BY <3>3 DEF Rows
  <2>3. CASE o = k /\ (ProxyAck(k) \/ ProxyFails(k))
    BY <1>1, <2>3 DEF ProxyAck, ProxyFails
  <2>4. CASE o = k /\ UNCHANGED <<client_queue, proxy>>
    BY <1>2, <2>4
  <2>5. CASE o = k /\ WorkerReturns(k)
    BY <1>2, <1>3, <2>5 DEF WorkerReturns
  <2> QED
    BY <1>6, <2>1, <2>2, <2>3, <2>4, <2>5
    DEF ClientSide, ClientSteps, WorkerStep, WorkerReceive, WorkerSkips,
        WorkerUploads, WorkerFailsToUpload, WorkerFails, WebWorkerDies,
        GetNext, ReplyLost, queueVars
<1> QED BY <1>4, <1>5, <1>6, StepSides

LEMMA JobsOfRun ==
    ASSUME NEW r \in Requests, NEW j \in JobsOf(r)
    PROVE  /\ j \in Job
           /\ j.run = r
           /\ j.netconfig \in Netconfigs(r)
           /\ j.operating_system \in Systems(j.run)
BY JobOfRun DEF JobsOf

(* The runs given up stay so; a deferrer ends in sr_incoming or is killed.   *)
LEMMA DeferredStays ==
    ASSUME TypeInv, [Next]_vars, NEW r \in Requests
    PROVE  /\ Closed \subseteq Closed'
           /\ Deferred(r) =>
                \/ Deferred(r)'
                \/ r \in Closed'
                \/ /\ UNCHANGED master
                   /\ \E e \in RunMessage :
                        e.srid.run = r /\ incoming' = Append(incoming, e)
<1> USE DEF Closed, Deferred
<1>1. CASE UNCHANGED <<deferrers, ledgerVars>>
  BY <1>1 DEF ledgerVars
<1>2. CASE MasterSide
  <2>1. CASE MasterStep \/ MasterFails
    BY <2>1 DEF MasterStep, MasterReceive, CloneSucceeds, CloneDefers,
       CloneCancels, CloneDrops, MasterWakes, MasterEnqueue, MasterAck,
       MasterFails, ledgerVars
  <2>2. ASSUME NEW q \in Requests, Submit(q)
        PROVE  UNCHANGED <<deferrers, cancelled, dropped, killed>>
    BY <2>2 DEF Submit
  <2>3. ASSUME NEW d \in deferrers, DeferrerDies(d)
        PROVE  /\ UNCHANGED <<cancelled, dropped>>
               /\ killed' = killed \union {d.srid.run}
               /\ deferrers' = deferrers \ {d}
    BY <2>3 DEF DeferrerDies
  <2>4. ASSUME NEW d \in deferrers, DeferrerWakes(d)
        PROVE  /\ UNCHANGED <<cancelled, dropped, killed, master>>
               /\ deferrers' = deferrers \ {d}
               /\ \E e \in RunMessage :
                    /\ e.srid.run = d.srid.run
                    /\ incoming' = Append(incoming, e)
    <3> DEFINE e == [srid |-> d.srid, attempt |-> d.attempt]
    <3>1. e \in RunMessage
      BY DEF TypeInv, TypeOK, MasterTypeOK, Deferrer, RunMessage
    <3>2. e.srid.run = d.srid.run /\ incoming' = Append(incoming, e)
      BY <2>4 DEF DeferrerWakes
    <3> QED BY <2>4, <3>1, <3>2 DEF DeferrerWakes, ledgerVars
  <2> QED BY <1>2, <2>1, <2>2, <2>3, <2>4 DEF MasterSide
<1> QED
  BY <1>1, <1>2, StepSides, SchedulerSideFrame, ClientSideFrame,
     ReporterSideFrame DEF vars, masterVars

LEMMA NextMasterHandedOn ==
    ASSUME TypeInv, OneReply, HandedOn, [Next]_vars
    PROVE  MasterHandedOn'
<1> DEFINE Waits(r) == \E m \in Range(Tail(incoming)) : m.srid.run = r
<1> SUFFICES ASSUME NEW r \in Requests, master'.phase = "dispatching",
                    master'.srid.run = r,
                    r \notin Closed', ~Deferred(r)', ~Waits(r)',
                    NEW j \in JobsOf(r), j.netconfig \notin master'.todo
             PROVE  AtScheduler(j)'
  BY DEF MasterHandedOn
<1>1. /\ j \in Job /\ j.run = r
      /\ j.netconfig \in Netconfigs(r)
      /\ j.operating_system \in Systems(j.run)
  BY JobsOfRun
<1>2. incoming \in Seq(RunMessage)
      /\ (master.phase # "idle" => incoming # <<>>)
  BY DEF TypeInv, TypeOK, QueuesTypeOK, BusyOnMessage
<1>3. ASSUME master.phase = "dispatching", master.srid.run = r,
             \/ incoming' = incoming
             \/ \E e \in RunMessage : incoming' = Append(incoming, e),
             j.netconfig \notin master.todo
      PROVE  AtScheduler(j)'
  <2>1. Range(Tail(incoming)) \subseteq Range(Tail(incoming'))
    <3>1. incoming # <<>> /\ incoming \in Seq(RunMessage)
      BY <1>2, <1>3
    <3>2. ASSUME NEW e \in RunMessage, incoming' = Append(incoming, e)
          PROVE  Range(Tail(incoming)) \subseteq Range(Tail(incoming'))
      <4>1. Range(Tail(Append(incoming, e))) = Range(Tail(incoming)) \union {e}
        BY <3>1, RangeOfTailAppend
      <4> QED BY <3>2, <4>1
    <3> QED BY <1>3, <3>2
  <2>2. ~Waits(r)
    BY <2>1
  <2>3. r \notin Closed
    BY DeferredStays
  <2>4. ~Deferred(r)
    <3>1. ASSUME NEW e \in RunMessage, e.srid.run = r,
                 incoming' = Append(incoming, e)
          PROVE  FALSE
      <4>1. Range(Tail(incoming')) = Range(Tail(incoming)) \union {e}
        BY <1>2, <1>3, <3>1, RangeOfTailAppend
      <4> QED BY <3>1, <4>1
    <3> QED BY <3>1, DeferredStays
  <2>5. AtScheduler(j)
    BY <1>3, <2>2, <2>3, <2>4 DEF HandedOn, MasterHandedOn
  <2> QED BY <1>1, <2>5, AtSchedulerStays
<1>4. CASE UNCHANGED <<master, incoming>>
  BY <1>3, <1>4
<1>5. CASE MasterSide
  <2>1. master \in MasterState
    BY DEF TypeInv, TypeOK, MasterTypeOK
  <2>2. CASE MasterReceive \/ CloneSucceeds \/ MasterAck \/ MasterFails
    <3>1. CASE MasterReceive
      BY <2>1, <3>1 DEF MasterReceive, MasterState
    <3>2. CASE CloneSucceeds
      BY <2>1, <3>2 DEF CloneSucceeds, MasterState
    <3>3. CASE MasterAck \/ MasterFails
      BY <3>3 DEF MasterAck, MasterFails, Idle
    <3> QED BY <2>2, <3>1, <3>2, <3>3
  <2>3. CASE CloneDefers
    <3>1. master'.srid = master.srid
      BY <2>1, <2>3 DEF CloneDefers, MasterReturns, MasterState
    <3> DEFINE d == [srid |-> master.srid,
                     attempt |-> Head(incoming).attempt + 1,
                     cloner |-> clones[master.srid.run]]
    <3>2. d.srid.run = r
      BY <3>1
    <3>3. d \in deferrers'
      BY <2>3 DEF CloneDefers
    <3>4. Deferred(r)'
      BY <3>2, <3>3 DEF Deferred
    <3> QED BY <3>4
  <2>4. CASE CloneCancels \/ CloneDrops
    <3>1. master'.srid = master.srid
      BY <2>1, <2>4 DEF CloneCancels, CloneDrops, MasterReturns, MasterState
    <3>2. r \in Closed'
      BY <2>4, <3>1 DEF CloneCancels, CloneDrops, Closed
    <3> QED BY <3>2
  <2>5. CASE MasterWakes
    <3>1. master'.todo = Netconfigs(r)
      BY <2>1, <2>5 DEF MasterWakes, MasterState
    <3> QED BY <1>1, <3>1
  <2>6. ASSUME NEW nc \in NETCONFIGS, MasterEnqueue(nc)
        PROVE  AtScheduler(j)'
    <3> DEFINE m == [srid |-> master.srid, tstamp |-> master.tstamp]
    <3>1. /\ master.phase = "dispatching"
          /\ master'.todo = master.todo \ {nc}
          /\ master.srid = master'.srid
          /\ incoming' = incoming
      BY <2>1, <2>6 DEF MasterEnqueue, MasterState
    <3>2. CASE j.netconfig # nc
      BY <1>3, <3>1, <3>2
    <3>3. CASE j.netconfig = nc
      <4>1. m \in NetconfigMessage /\ m.srid.run = r
        BY <2>1, <3>1 DEF MasterState, NetconfigMessage
      <4>2. /\ netconfig_queue'[nc] = Append(netconfig_queue[nc], m)
            /\ netconfig_queue[nc] \in Seq(NetconfigMessage)
        BY <2>6 DEF MasterEnqueue, Enqueue, TypeInv, TypeOK, QueuesTypeOK
      <4> HIDE DEF m
      <4>3. m \in Range(netconfig_queue'[nc])
        BY <4>1, <4>2, RangeOfAppend
      <4> QED BY <1>1, <3>3, <4>1, <4>3 DEF AtScheduler
    <3> QED BY <3>2, <3>3
  <2>7. ASSUME NEW q \in Requests, Submit(q) PROVE AtScheduler(j)'
    <3> DEFINE e == [srid |-> FirstSrid(q), attempt |-> 1]
    <3>1. e \in RunMessage /\ incoming' = Append(incoming, e)
          /\ master' = master
      BY <2>7 DEF Submit, FirstSrid, RunMessage, Srid
    <3> HIDE DEF e
    <3>2. j.netconfig \notin master.todo
      BY <3>1
    <3> QED BY <1>3, <3>1, <3>2
  <2>8. ASSUME NEW d \in deferrers, DeferrerWakes(d) PROVE AtScheduler(j)'
    <3> DEFINE e == [srid |-> d.srid, attempt |-> d.attempt]
    <3>1. e \in RunMessage /\ incoming' = Append(incoming, e)
          /\ master' = master
      BY <2>8 DEF DeferrerWakes, TypeInv, TypeOK, MasterTypeOK, Deferrer,
         RunMessage
    <3> HIDE DEF e
    <3>2. j.netconfig \notin master.todo
      BY <3>1
    <3> QED BY <1>3, <3>1, <3>2
  <2>9. ASSUME NEW d \in deferrers, DeferrerDies(d) PROVE AtScheduler(j)'
    BY <1>4, <2>9 DEF DeferrerDies, queueVars
  <2> QED
    BY <1>5, <2>2, <2>3, <2>4, <2>5, <2>6, <2>7, <2>8, <2>9
    DEF MasterSide, MasterStep
<1> QED
  BY <1>4, <1>5, StepSides, SchedulerSideFrame, ClientSideFrame,
     ReporterSideFrame DEF vars, queueVars, masterVars

LEMMA InitNoJobLost == Init => NoJobLost
BY DEF Init, MasterInit, NoJobLost

(* A run that waits on sr_incoming leaves it only when its jobs were passed  *)
(* on, a deferrer has it, or it is closed.                                   *)
LEMMA NextNoJobLost ==
    ASSUME TypeInv, OneReply, HandedOn, NoJobLost, [Next]_vars
    PROVE  NoJobLost'
<1> SUFFICES ASSUME NEW r \in accepted', r \notin Closed', ~AtMaster(r)',
                    ~Deferred(r)', NEW j \in JobsOf(r)
             PROVE  AtScheduler(j)'
  BY DEF NoJobLost
<1>1. incoming \in Seq(RunMessage) /\ accepted' \subseteq Requests
  BY NextTypeInv DEF TypeInv, TypeOK, QueuesTypeOK, MasterTypeOK
<1>2. /\ j \in Job /\ j.run = r
      /\ j.netconfig \in Netconfigs(r)
      /\ j.operating_system \in Systems(j.run)
  BY <1>1, JobsOfRun
<1>3. r \notin Closed
  BY <1>1, DeferredStays
<1>4. \A e \in RunMessage :
        e.srid.run = r => incoming' # Append(incoming, e)
  BY <1>1, RangeOfAppend DEF AtMaster
<1>5. ~Deferred(r)
  BY <1>1, <1>4, DeferredStays
<1>6. r \in accepted
  <2>1. ASSUME NEW q \in Requests, Submit(q) PROVE r \in accepted
    <3> DEFINE e == [srid |-> FirstSrid(q), attempt |-> 1]
    <3>1. e \in RunMessage /\ e.srid.run = q
      BY DEF RunMessage, FirstSrid, Srid
    <3>2. incoming' = Append(incoming, e)
          /\ accepted' = accepted \union {q}
      BY <2>1 DEF Submit
    <3> HIDE DEF e
    <3> QED BY <1>4, <3>1, <3>2
  <2>2. CASE UNCHANGED accepted
    BY <2>2
  <2>3. CASE MasterSide
    BY <2>1, <2>2, <2>3 DEF MasterSide, MasterStep, MasterReceive,
       CloneSucceeds, CloneDefers, CloneCancels, CloneDrops, MasterWakes,
       MasterEnqueue, MasterAck, MasterFails, DeferrerWakes, DeferrerDies,
       ledgerVars
  <2> QED
    BY <2>2, <2>3, StepSides, SchedulerSideFrame, ClientSideFrame,
       ReporterSideFrame DEF vars, masterVars, ledgerVars
<1>7. CASE ~AtMaster(r)
  <2>1. AtScheduler(j)
    BY <1>3, <1>5, <1>6, <1>7 DEF NoJobLost
  <2> QED BY <1>2, <2>1, AtSchedulerStays
<1>8. CASE AtMaster(r)
  <2>1. PICK m \in Range(incoming) : m.srid.run = r
    BY <1>8 DEF AtMaster
  <2>2. m \notin Range(incoming')
    BY <2>1 DEF AtMaster
  <2>3. CASE UNCHANGED incoming
    BY <2>2, <2>1, <2>3
  <2>4. ASSUME NEW e \in RunMessage, incoming' = Append(incoming, e)
        PROVE  FALSE
    BY <1>1, <2>1, <2>2, <2>4, RangeOfAppend
  <2>5. CASE MasterAck
    <3>1. /\ incoming # <<>>
          /\ incoming' = Tail(incoming)
          /\ master.phase = "dispatching"
          /\ master.todo = {}
          /\ master.srid.run = Head(incoming).srid.run
      BY <2>5 DEF MasterAck, TypeInv, BusyOnMessage
    <3>2. m = Head(incoming)
      BY <1>1, <2>1, <2>2, <3>1, RangeOfTail
    <3>3. ~ \E n \in Range(Tail(incoming)) : n.srid.run = r
      BY <3>1 DEF AtMaster
    <3>4. AtScheduler(j)
      BY <1>1, <1>3, <1>5, <2>1, <3>1, <3>2, <3>3
      DEF HandedOn, MasterHandedOn
    <3> QED BY <1>2, <3>4, AtSchedulerStays
  <2>6. CASE MasterSide
    <3>1. ASSUME NEW q \in Requests, Submit(q) PROVE FALSE
      <4> DEFINE e == [srid |-> FirstSrid(q), attempt |-> 1]
      <4>1. e \in RunMessage /\ incoming' = Append(incoming, e)
        BY <3>1 DEF Submit, FirstSrid, RunMessage, Srid
      <4> HIDE DEF e
      <4> QED BY <2>4, <4>1
    <3>2. ASSUME NEW d \in deferrers, DeferrerWakes(d) PROVE FALSE
      <4> DEFINE e == [srid |-> d.srid, attempt |-> d.attempt]
      <4>1. e \in RunMessage /\ incoming' = Append(incoming, e)
        BY <3>2 DEF DeferrerWakes, TypeInv, TypeOK, MasterTypeOK, Deferrer,
           RunMessage
      <4> HIDE DEF e
      <4> QED BY <2>4, <4>1
    <3> QED
      BY <2>3, <2>5, <2>6, <3>1, <3>2 DEF MasterSide, MasterStep,
         MasterReceive, CloneSucceeds, CloneDefers, CloneCancels, CloneDrops,
         MasterWakes, MasterEnqueue, MasterFails, DeferrerDies, queueVars
  <2> QED
    BY <2>3, <2>6, StepSides, SchedulerSideFrame, ClientSideFrame,
       ReporterSideFrame DEF vars, queueVars
<1> QED BY <1>7, <1>8

(* However often srmaster, the schedulers, the clients and srreporter fail   *)
(* between taking a message and acknowledging it, every job of an accepted   *)
(* run is queued somewhere, deferred, reported or given up.                  *)
THEOREM NothingLost == Spec => []NoJobLost
<1> DEFINE Inv == OneReply /\ HandedOn /\ NoJobLost
<1>1. Init => Inv
  BY InitOneReply, InitHandedOn, InitNoJobLost
<1>2. TypeInv /\ Inv /\ [Next]_vars => Inv'
  <2> SUFFICES ASSUME TypeInv, Inv, [Next]_vars PROVE Inv'
    OBVIOUS
  <2>1. HandedOn'
    BY NextMasterHandedOn, NextSchedulerHandedOn, NextWorkerHandedOn,
       NextProxyHandedOn, NextReporterHandedOn DEF HandedOn
  <2> QED BY <2>1, NextOneReply, NextNoJobLost
<1>3. Init /\ [][Next]_vars => []TypeInv
  BY TypeInvHolds DEF Spec
<1>4. Inv => NoJobLost
  OBVIOUS
<1> HIDE DEF Inv
<1> QED
  BY <1>1, <1>2, <1>3, <1>4, PTL DEF Spec
=============================================================================
