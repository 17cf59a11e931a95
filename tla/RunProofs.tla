------------------------------ MODULE RunProofs ------------------------------
(***************************************************************************)
(* More proofs about the pipeline of module StoneRidge, on what srmaster    *)
(* and srcloner do with a run, how many copies of it there are, and what    *)
(* the users are promised.                                                  *)
(***************************************************************************)
EXTENDS StoneRidgeProofs, FiniteSetTheorems, FunctionTheorems

(* srmaster passed on the message at the head, or srcloner ended its run.    *)
Handled == master.phase = "dispatching" /\ master.todo = {}

RunAt(i) == incoming[i].srid.run

(* A message of sr_incoming that srcloner or srmaster has still to act on.   *)
Live(i) == i \in 1 .. Len(incoming) /\ (i = 1 => ~Handled)

SetOut == {p.srid.run : p \in dispatched}

(* Whatever is in the hands of srmaster was asked for, and no attempt is     *)
(* past the limit.                                                           *)
AcceptedInv ==
    /\ \A i \in 1 .. Len(incoming) :
            RunAt(i) \in accepted /\ incoming[i].attempt \in 1 .. Attempts
    /\ \A d \in deferrers :
            d.srid.run \in accepted /\ d.attempt \in 1 .. Attempts
    /\ \A r \in Requests \ accepted : clones[r] = 0
    /\ SetOut \union Closed \subseteq accepted
    /\ IsFiniteSet(deferrers)
-----------------------------------------------------------------------------
(* Whatever is configured, a first attempt is within the limit, and srcloner *)
(* looks at the limit after it.                                              *)
LEMMA AttemptsFacts ==
    /\ Attempts \in Nat \ {0}
    /\ 1 \in 1 .. Attempts
    /\ \A a \in Nat \ {0} : a + 1 <= MaxAttempts <=> a + 1 <= Attempts
    /\ \A a \in 1 .. Attempts : a + 1 > MaxAttempts <=> a = Attempts
BY BoundsAssumption DEF Attempts

(* The types of what srmaster works on.                                      *)
LEMMA MasterFacts ==
    ASSUME TypeInv
    PROVE  /\ incoming \in Seq(RunMessage)
           /\ Len(incoming) \in Nat
           /\ \A i \in 1 .. Len(incoming) :
                /\ incoming[i] \in RunMessage
                /\ incoming[i].attempt \in Nat
                /\ incoming[i].srid \in Srid
                /\ RunAt(i) \in Requests
           /\ master \in MasterState
           /\ master.srid \in Srid
           /\ master.srid.run \in Requests
           /\ master.todo \subseteq NETCONFIGS
           /\ deferrers \subseteq Deferrer
           /\ \A d \in deferrers : /\ d.srid.run \in Requests
                                   /\ d.attempt \in Nat
           /\ clones \in [Requests -> Nat]
           /\ dispatched \subseteq NetconfigMessage
           /\ accepted \subseteq Requests
           /\ Closed \subseteq Requests
           /\ failures \in Nat
           /\ master.phase # "idle" =>
                /\ incoming # <<>>
                /\ Len(incoming) > 0
                /\ Head(incoming) = incoming[1]
                /\ 1 \in 1 .. Len(incoming)
                /\ master.srid.run = RunAt(1)
<1>1. /\ incoming \in Seq(RunMessage)
      /\ failures \in Nat
  BY BoundsAssumption DEF TypeInv, TypeOK, QueuesTypeOK
<1>2. Len(incoming) \in Nat
  BY <1>1
<1>3. \A i \in 1 .. Len(incoming) : incoming[i] \in RunMessage
  BY <1>1
<1>4. \A i \in 1 .. Len(incoming) : /\ incoming[i].attempt \in Nat
                                    /\ incoming[i].srid \in Srid
                                    /\ RunAt(i) \in Requests
  BY <1>3 DEF RunMessage, Srid, RunAt
<1>5. /\ master \in MasterState
      /\ deferrers \subseteq Deferrer
      /\ clones \in [Requests -> Nat]
      /\ dispatched \subseteq NetconfigMessage
      /\ accepted \subseteq Requests
      /\ Closed \subseteq Requests
  BY DEF TypeInv, TypeOK, MasterTypeOK, Closed
<1>6. /\ master.srid \in Srid
      /\ master.srid.run \in Requests
      /\ master.todo \subseteq NETCONFIGS
  BY <1>5 DEF MasterState, Srid
<1>7. \A d \in deferrers : d.srid.run \in Requests /\ d.attempt \in Nat
  BY <1>5 DEF Deferrer, Srid
<1>8. ASSUME master.phase # "idle"
      PROVE  /\ incoming # <<>>
             /\ Len(incoming) > 0
             /\ Head(incoming) = incoming[1]
             /\ 1 \in 1 .. Len(incoming)
             /\ master.srid.run = RunAt(1)
  <2>1. incoming # <<>> /\ master.srid.run = Head(incoming).srid.run
    BY <1>8 DEF TypeInv, BusyOnMessage
  <2>2. Len(incoming) > 0
    BY <1>1, <2>1, EmptySeq
  <2>3. Head(incoming) = incoming[1]
    BY <1>1, <2>1
  <2> QED BY <1>2, <2>1, <2>2, <2>3 DEF RunAt
<1> QED BY <1>1, <1>2, <1>3, <1>4, <1>5, <1>6, <1>7, <1>8

(* What an append does to the messages by position.                          *)
LEMMA Appended ==
    ASSUME NEW S, NEW s \in Seq(S), NEW e \in S, NEW t, t = Append(s, e)
    PROVE  /\ Len(s) \in Nat
           /\ Len(t) = Len(s) + 1
           /\ \A i \in 1 .. Len(s) : t[i] = s[i]
           /\ t[Len(t)] = e
           /\ \A i \in 1 .. Len(t) : i \in 1 .. Len(s) \/ i = Len(t)
BY AppendProperties

(* What an acknowledgement does to them.                                     *)
LEMMA Removed ==
    ASSUME NEW S, NEW s \in Seq(S), s # <<>>, NEW t, t = Tail(s)
    PROVE  /\ Len(s) \in Nat \ {0}
           /\ Len(t) = Len(s) - 1
           /\ \A i \in 1 .. Len(t) : i + 1 \in 2 .. Len(s) /\ t[i] = s[i + 1]
BY HeadTailProperties, EmptySeq

(* Only srmaster and its deferrers touch what they have, and nothing takes a *)
(* failure back.                                                             *)
LEMMA RestLeavesRuns ==
    ASSUME TypeInv, [Next]_vars, ~MasterSide
    PROVE  UNCHANGED <<incoming, masterVars>>
<1>1. CASE \E nc \in NETCONFIGS : SchedulerSide(nc)
  BY <1>1, SchedulerSideFrame DEF SchedulerSide, OnlySchedulers
<1>2. CASE \E o \in OPERATING_SYSTEMS : ClientSide(o)
  BY <1>2, ClientSideFrame DEF ClientSide, OnlyClients
<1>3. CASE ReporterSide
  BY <1>3, ReporterSideFrame DEF ReporterSide, OnlyReporter
<1>4. CASE UNCHANGED vars
  BY <1>4 DEF vars, queueVars
<1> QED BY <1>1, <1>2, <1>3, <1>4, StepSides

LEMMA FailuresCounted ==
    ASSUME TypeInv, [Next]_vars
    PROVE  /\ failures' \in Nat
           /\ failures <= failures'
           /\ failures' = failures \/ failures' = failures + 1
<1>1. failures \in Nat
  BY MasterFacts
<1>2. failures' = failures \/ failures' = failures + 1
  BY DEF Next, vars, faultVars, queueVars, Asked, Submit, MasterWorks,
     MasterStep, MasterReceive, CloneSucceeds, CloneDefers, CloneCancels,
     CloneDrops, MasterWakes, MasterEnqueue, MasterAck, MasterFails,
     DeferrersWork, DeferrerWakes, DeferrerDies, SchedulerWorks,
     SchedulerStep, SchedulerReceive, SchedulerEnqueue, SchedulerAck,
     SchedulerFails, WorkerWorks, WorkerStep, WorkerReceive, WorkerSkips,
     WorkerUploads, WorkerFailsToUpload, WorkerReturns, WorkerFails,
     WebWorkerDies, ProxyWorks, ProxyInsert, ProxyAck, ProxyFails,
     WebmqWorks, GetNext, ReplyLost, ReporterWorks, ReporterStep,
     ReporterPosts, ReporterSaves, ReporterAck, ReporterFails, Redelivery,
     Death, Fails, Loses
<1> QED BY <1>1, <1>2

(* The steps of srmaster's side, one action each.                            *)
LEMMA MasterActions ==
    ASSUME MasterSide
    PROVE  \/ MasterReceive
           \/ CloneSucceeds
           \/ CloneDefers
           \/ CloneCancels
           \/ CloneDrops
           \/ MasterWakes
           \/ \E nc \in NETCONFIGS : MasterEnqueue(nc)
           \/ MasterAck
           \/ MasterFails
           \/ \E r \in Requests : Submit(r)
           \/ \E d \in deferrers : DeferrerWakes(d)
           \/ \E d \in deferrers : DeferrerDies(d)
BY DEF MasterSide, MasterStep
-----------------------------------------------------------------------------
LEMMA InitAcceptedInv == Init => AcceptedInv
<1> SUFFICES ASSUME Init PROVE AcceptedInv
  OBVIOUS
<1>1. IsFiniteSet({})
  BY FS_EmptySet
<1> QED
  BY <1>1 DEF Init, QueuesInit, MasterInit, AcceptedInv, SetOut, Closed

LEMMA NextAcceptedInv ==
    ASSUME TypeInv, AcceptedInv, [Next]_vars
    PROVE  AcceptedInv'
<1> USE DEF AcceptedInv, RunAt, SetOut, Closed
<1>1. CASE UNCHANGED <<incoming, masterVars>>
  BY <1>1 DEF masterVars, ledgerVars
<1>2. CASE MasterReceive
  <2>1. /\ incoming # <<>>
        /\ incoming[1] = Head(incoming)
        /\ 1 \in 1 .. Len(incoming)
    BY <1>2, MasterFacts, EmptySeq DEF MasterReceive
  <2>2. /\ clones' = [clones EXCEPT ![Head(incoming).srid.run] = @ + 1]
        /\ UNCHANGED <<incoming, deferrers, dispatched, ledgerVars>>
    BY <1>2 DEF MasterReceive, queueVars
  <2>3. Head(incoming).srid.run \in accepted
    BY <2>1
  <2>4. \A r \in Requests \ accepted : clones'[r] = 0
    BY <2>2, <2>3, MasterFacts
  <2> QED BY <2>2, <2>4 DEF ledgerVars
<1>3. CASE CloneSucceeds \/ MasterWakes \/ MasterFails
  BY <1>3 DEF CloneSucceeds, MasterWakes, MasterFails, queueVars, ledgerVars
<1>4. CASE CloneDefers
  <2> DEFINE d == [srid |-> master.srid,
                   attempt |-> Head(incoming).attempt + 1,
                   cloner |-> clones[master.srid.run]]
  <2>1. /\ Head(incoming) = incoming[1]
        /\ 1 \in 1 .. Len(incoming)
        /\ master.srid.run = incoming[1].srid.run
    BY <1>4, MasterFacts DEF CloneDefers
  <2>2. /\ d.srid.run \in accepted
        /\ d.attempt = incoming[1].attempt + 1
        /\ incoming[1].attempt + 1 <= MaxAttempts
    BY <1>4, <2>1 DEF CloneDefers
  <2>3. d.attempt \in 1 .. Attempts
    BY <2>1, <2>2, AttemptsFacts
  <2>4. /\ deferrers' = deferrers \union {d}
        /\ UNCHANGED <<incoming, clones, dispatched, ledgerVars>>
    BY <1>4 DEF CloneDefers, queueVars
  <2> HIDE DEF d
  <2>5. IsFiniteSet(deferrers')
    BY <2>4, FS_AddElement
  <2> QED BY <2>2, <2>3, <2>4, <2>5 DEF ledgerVars
<1>5. CASE CloneCancels \/ CloneDrops
  <2>1. master.srid.run \in accepted
    BY <1>5, MasterFacts DEF CloneCancels, CloneDrops
  <2> QED BY <1>5, <2>1 DEF CloneCancels, CloneDrops, queueVars
<1>6. ASSUME NEW nc \in NETCONFIGS, MasterEnqueue(nc) PROVE AcceptedInv'
  <2>1. master.srid.run \in accepted
    BY <1>6, MasterFacts DEF MasterEnqueue
  <2>2. /\ dispatched' = dispatched \union
                {[srid |-> master.srid, tstamp |-> master.tstamp]}
        /\ UNCHANGED <<incoming, deferrers, clones, ledgerVars>>
    BY <1>6 DEF MasterEnqueue
  <2> QED BY <2>1, <2>2 DEF ledgerVars
<1>7. CASE MasterAck
  <2>1. /\ incoming \in Seq(RunMessage)
        /\ incoming # <<>>
        /\ incoming' = Tail(incoming)
        /\ UNCHANGED <<deferrers, clones, dispatched, ledgerVars>>
    BY <1>7, MasterFacts DEF MasterAck
  <2>2. \A i \in 1 .. Len(incoming') :
            /\ i + 1 \in 1 .. Len(incoming)
            /\ incoming'[i] = incoming[i + 1]
    BY <2>1, Removed
  <2> QED BY <2>1, <2>2 DEF ledgerVars
<1>8. ASSUME NEW r \in Requests, Submit(r) PROVE AcceptedInv'
  <2> DEFINE e == [srid |-> FirstSrid(r), attempt |-> 1]
  <2>1. /\ e \in RunMessage
        /\ e.srid.run = r
        /\ e.attempt = 1
    BY DEF RunMessage, FirstSrid, Srid
  <2>2. /\ incoming' = Append(incoming, e)
        /\ accepted' = accepted \union {r}
        /\ UNCHANGED <<deferrers, clones, dispatched, cancelled, dropped,
                       killed>>
    BY <1>8 DEF Submit
  <2> HIDE DEF e
  <2>3. \A i \in 1 .. Len(incoming') :
            \/ i \in 1 .. Len(incoming) /\ incoming'[i] = incoming[i]
            \/ incoming'[i] = e
    BY <2>1, <2>2, MasterFacts, Appended
  <2> QED BY <2>1, <2>2, <2>3, AttemptsFacts
<1>9. ASSUME NEW d \in deferrers, DeferrerWakes(d) PROVE AcceptedInv'
  <2> DEFINE e == [srid |-> d.srid, attempt |-> d.attempt]
  <2>1. /\ e \in RunMessage
        /\ e.srid.run \in accepted
        /\ e.attempt \in 1 .. Attempts
    BY MasterFacts DEF RunMessage, Deferrer
  <2>2. /\ incoming' = Append(incoming, e)
        /\ deferrers' = deferrers \ {d}
        /\ UNCHANGED <<clones, dispatched, ledgerVars>>
    BY <1>9 DEF DeferrerWakes
  <2> HIDE DEF e
  <2>3. \A i \in 1 .. Len(incoming') :
            \/ i \in 1 .. Len(incoming) /\ incoming'[i] = incoming[i]
            \/ incoming'[i] = e
    BY <2>1, <2>2, MasterFacts, Appended
  <2>4. IsFiniteSet(deferrers')
    BY <2>2, FS_Subset
  <2> QED BY <2>1, <2>2, <2>3, <2>4 DEF ledgerVars
<1>10. ASSUME NEW d \in deferrers, DeferrerDies(d) PROVE AcceptedInv'
  <2>1. /\ deferrers' = deferrers \ {d}
        /\ killed' = killed \union {d.srid.run}
        /\ UNCHANGED <<incoming, clones, dispatched, accepted, cancelled,
                       dropped>>
    BY <1>10 DEF DeferrerDies, queueVars
  <2>2. IsFiniteSet(deferrers')
    BY <2>1, FS_Subset
  <2> QED BY <2>1, <2>2
<1> QED
  BY <1>1, <1>2, <1>3, <1>4, <1>5, <1>6, <1>7, <1>8, <1>9, <1>10,
     RestLeavesRuns, MasterActions
-----------------------------------------------------------------------------
(* As long as nothing is delivered again a run is in one place: one message  *)
(* of sr_incoming, one deferrer, among the runs that are closed, or on the   *)
(* queues of its netconfigs.                                                 *)
OneMessage ==
    \A i, k \in 1 .. Len(incoming) :
        Live(i) /\ Live(k) /\ RunAt(i) = RunAt(k) => i = k

OneDeferrer ==
    \A d, e \in deferrers : d.srid.run = e.srid.run => d = e

Apart ==
    /\ \A i \in 1 .. Len(incoming) :
            Live(i) => ~Deferred(RunAt(i)) /\ RunAt(i) \notin Closed
    /\ \A d \in deferrers : d.srid.run \notin Closed \union SetOut
    /\ Closed \intersect SetOut = {}

(* A run that has set out is still on sr_incoming only while srmaster puts   *)
(* it on the queues, with its own timestamp.                                 *)
SetsOut ==
    /\ \A i \in 1 .. Len(incoming) : Live(i) /\ RunAt(i) \in SetOut =>
            i = 1 /\ master.phase = "dispatching"
    /\ \A p \in dispatched :
            master.phase = "dispatching" /\ master.todo # {}
                /\ p.srid.run = master.srid.run =>
                    p.tstamp = master.tstamp
    /\ \A p, q \in dispatched : p.srid = q.srid => p.tstamp = q.tstamp

(* How often srcloner ran for it.                                            *)
ClonesInv ==
    /\ \A i \in 1 .. Len(incoming) :
            Live(i) => clones[RunAt(i)] =
                IF i = 1 /\ master.phase # "idle"
                THEN incoming[i].attempt ELSE incoming[i].attempt - 1
    /\ \A d \in deferrers : clones[d.srid.run] = d.attempt - 1
    /\ \A r \in cancelled : clones[r] = Attempts

OneLife == OneMessage /\ OneDeferrer /\ Apart /\ SetsOut /\ ClonesInv

LEMMA InitOneLife == Init => OneLife
BY DEF Init, QueuesInit, MasterInit, OneLife, OneMessage, OneDeferrer, Apart,
   SetsOut, ClonesInv, SetOut, Closed

(* srmaster takes a message: the run was not cloned for this attempt yet.    *)
LEMMA ReceiveOneLife ==
    ASSUME TypeInv, AcceptedInv, OneLife, MasterReceive
    PROVE  OneLife'
<1> USE DEF OneLife
<1>1. /\ Len(incoming) \in Nat
      /\ 1 \in 1 .. Len(incoming)
      /\ Head(incoming) = incoming[1]
      /\ RunAt(1) \in Requests
  BY MasterFacts, EmptySeq DEF MasterReceive
<1>2. /\ master.phase = "idle"
      /\ master'.phase = "cloning"
  BY MasterFacts DEF MasterReceive, MasterState
<1>3. /\ clones' = [clones EXCEPT ![RunAt(1)] = @ + 1]
      /\ UNCHANGED <<incoming, deferrers, dispatched, ledgerVars>>
  BY <1>1 DEF MasterReceive, queueVars, RunAt
<1>4. \A i : Live(i)' <=> Live(i)
  BY <1>2, <1>3 DEF Live, Handled
<1>5. \A i : RunAt(i)' = RunAt(i)
  BY <1>3 DEF RunAt
<1>6. /\ SetOut' = SetOut
      /\ Closed' = Closed
      /\ \A r : Deferred(r)' <=> Deferred(r)
  BY <1>3 DEF SetOut, Closed, Deferred, ledgerVars
<1>7. Live(1)
  BY <1>1, <1>2 DEF Live, Handled
<1>8. OneMessage' /\ OneDeferrer'
  BY <1>3, <1>4, <1>5 DEF OneMessage, OneDeferrer
<1>9. Apart'
  BY <1>3, <1>4, <1>5, <1>6 DEF Apart
<1>10. SetsOut'
  <2>1. \A i \in 1 .. Len(incoming) : Live(i) => RunAt(i) \notin SetOut
    BY <1>2 DEF SetsOut
  <2> QED BY <1>2, <1>3, <1>4, <1>5, <1>6, <2>1 DEF SetsOut
<1>11. ClonesInv'
  <2>1. ASSUME NEW i \in 1 .. Len(incoming), Live(i), i # 1
        PROVE  clones'[RunAt(i)] = incoming[i].attempt - 1
    <3>1. RunAt(i) # RunAt(1)
      BY <1>1, <1>7, <2>1 DEF OneMessage
    <3>2. clones[RunAt(i)] = incoming[i].attempt - 1
      BY <2>1 DEF ClonesInv
    <3> QED BY <1>1, <1>3, <3>1, <3>2, MasterFacts
  <2>2. clones'[RunAt(1)] = incoming[1].attempt
    <3>1. clones[RunAt(1)] = incoming[1].attempt - 1
      BY <1>1, <1>2, <1>7 DEF ClonesInv
    <3> QED BY <1>1, <1>3, <3>1, MasterFacts
  <2>3. ~Deferred(RunAt(1)) /\ RunAt(1) \notin Closed
    BY <1>1, <1>7 DEF Apart
  <2>4. \A d \in deferrers : clones'[d.srid.run] = d.attempt - 1
    BY <1>1, <1>3, <2>3, MasterFacts DEF ClonesInv, Deferred
  <2>5. \A r \in cancelled : clones'[r] = Attempts
    BY <1>1, <1>3, <2>3, MasterFacts DEF ClonesInv, Closed
  <2>6. \A i \in 1 .. Len(incoming) : Live(i) =>
            clones'[RunAt(i)] = IF i = 1 THEN incoming[i].attempt
                                         ELSE incoming[i].attempt - 1
    BY <2>1, <2>2
  <2> QED
    BY <1>2, <1>3, <1>4, <1>5, <2>4, <2>5, <2>6 DEF ClonesInv, ledgerVars
<1> QED BY <1>8, <1>9, <1>10, <1>11

(* srcloner is done with the run, one way or another: the message at the     *)
(* head is handled and the run is in the hands of a deferrer, or closed.     *)
LEMMA CloneEndsOneLife ==
    ASSUME TypeInv, AcceptedInv, OneLife,
           CloneDefers \/ CloneCancels \/ CloneDrops
    PROVE  OneLife'
<1> USE DEF OneLife
<1>1. /\ master.phase = "cloning"
      /\ MasterReturns
      /\ UNCHANGED <<incoming, dispatched, clones>>
  BY DEF CloneDefers, CloneCancels, CloneDrops, queueVars
<1>2. /\ Len(incoming) \in Nat
      /\ 1 \in 1 .. Len(incoming)
      /\ Head(incoming) = incoming[1]
      /\ master.srid.run = RunAt(1)
      /\ RunAt(1) \in Requests
  BY <1>1, MasterFacts
<1>3. master'.phase = "dispatching" /\ master'.todo = {}
  BY <1>1, MasterFacts DEF MasterReturns, MasterState
<1>4. Live(1)
  BY <1>1, <1>2 DEF Live, Handled
<1>5. \A i : Live(i)' <=> Live(i) /\ i # 1
  BY <1>1, <1>3, <1>4 DEF Live, Handled
<1>6. \A i : RunAt(i)' = RunAt(i)
  BY <1>1 DEF RunAt
<1>7. SetOut' = SetOut
  BY <1>1 DEF SetOut
<1>8. \A i \in 1 .. Len(incoming) : Live(i)' => RunAt(i) # RunAt(1)
  BY <1>2, <1>4, <1>5 DEF OneMessage
<1>9. /\ ~Deferred(RunAt(1))
      /\ RunAt(1) \notin Closed
      /\ RunAt(1) \notin SetOut
      /\ clones[RunAt(1)] = incoming[1].attempt
  BY <1>1, <1>2, <1>4 DEF Apart, SetsOut, ClonesInv
<1>10. \A i \in 1 .. Len(incoming) : Live(i) =>
            /\ ~Deferred(RunAt(i)) /\ RunAt(i) \notin Closed
            /\ RunAt(i) \notin SetOut
            /\ i # 1 => clones[RunAt(i)] = incoming[i].attempt - 1
  BY <1>1, <1>2 DEF Apart, SetsOut, ClonesInv
<1>11. OneMessage'
  BY <1>1, <1>5, <1>6 DEF OneMessage
<1>12. SetsOut'
  BY <1>1, <1>3, <1>5, <1>6, <1>7, <1>10 DEF SetsOut
<1>13. CASE CloneDefers
  <2> DEFINE d == [srid |-> master.srid,
                   attempt |-> Head(incoming).attempt + 1,
                   cloner |-> clones[master.srid.run]]
  <2>1. /\ d.srid.run = RunAt(1)
        /\ d.attempt = incoming[1].attempt + 1
    BY <1>2
  <2>2. /\ deferrers' = deferrers \union {d}
        /\ UNCHANGED ledgerVars
    BY <1>13 DEF CloneDefers
  <2> HIDE DEF d
  <2>3. Closed' = Closed /\ cancelled' = cancelled
    BY <2>2 DEF Closed, ledgerVars
  <2>4. \A r : Deferred(r)' <=> Deferred(r) \/ r = RunAt(1)
    BY <2>1, <2>2 DEF Deferred
  <2>5. \A e \in deferrers : e.srid.run # RunAt(1)
    BY <1>9 DEF Deferred
  <2>6. OneDeferrer'
    BY <2>1, <2>2, <2>5 DEF OneDeferrer
  <2>7. Apart'
    BY <1>1, <1>5, <1>6, <1>7, <1>8, <1>9, <1>10, <2>1, <2>2, <2>3, <2>4
    DEF Apart
  <2>8. clones[RunAt(1)] = d.attempt - 1
    BY <1>2, <1>9, <2>1, MasterFacts
  <2>9. ClonesInv'
    BY <1>1, <1>5, <1>6, <1>10, <2>1, <2>2, <2>3, <2>8 DEF ClonesInv
  <2> QED BY <1>11, <1>12, <2>6, <2>7, <2>9
<1>14. CASE CloneCancels \/ CloneDrops
  <2>1. /\ Closed' = Closed \union {RunAt(1)}
        /\ UNCHANGED deferrers
    BY <1>2, <1>14 DEF CloneCancels, CloneDrops, Closed
  <2>2. \A r : Deferred(r)' <=> Deferred(r)
    BY <2>1 DEF Deferred
  <2>3. OneDeferrer'
    BY <2>1 DEF OneDeferrer
  <2>4. \A d \in deferrers : d.srid.run # RunAt(1)
    BY <1>9 DEF Deferred
  <2>5. Apart'
    BY <1>1, <1>5, <1>6, <1>7, <1>8, <1>9, <1>10, <2>1, <2>2, <2>4 DEF Apart
  <2>6. \A r \in cancelled' : clones[r] = Attempts
    <3>1. ASSUME CloneCancels PROVE clones[RunAt(1)] = Attempts
      <4>1. /\ incoming[1].attempt + 1 > MaxAttempts
            /\ incoming[1].attempt \in 1 .. Attempts
        BY <1>2, <3>1 DEF CloneCancels, AcceptedInv
      <4> QED BY <1>9, <4>1, AttemptsFacts
    <3>2. \/ cancelled' = cancelled
          \/ CloneCancels /\ cancelled' = cancelled \union {RunAt(1)}
      BY <1>2, <1>14 DEF CloneCancels, CloneDrops
    <3> QED BY <3>1, <3>2 DEF ClonesInv
  <2>7. ClonesInv'
    BY <1>1, <1>5, <1>6, <1>10, <2>1, <2>6 DEF ClonesInv
  <2> QED BY <1>11, <1>12, <2>3, <2>5, <2>7
<1> QED BY <1>13, <1>14

(* The builds are there, or the minute is over.                              *)
LEMMA WaitOneLife ==
    ASSUME TypeInv, OneLife, CloneSucceeds \/ MasterWakes
    PROVE  OneLife'
<1> USE DEF OneLife
<1>1. /\ master.phase \in {"cloning", "sleeping"}
      /\ master'.phase \in {"sleeping", "dispatching"}
      /\ master'.phase = "dispatching" => CloneSucceeds = FALSE
      /\ master'.srid = master.srid
      /\ UNCHANGED <<incoming, deferrers, dispatched, clones, ledgerVars>>
  BY MasterFacts DEF CloneSucceeds, MasterWakes, MasterState, queueVars
<1>2. \A i : Live(i)' => Live(i)
  BY <1>1 DEF Live, Handled
<1>3. \A i : RunAt(i)' = RunAt(i)
  BY <1>1 DEF RunAt
<1>4. /\ SetOut' = SetOut
      /\ Closed' = Closed
      /\ \A r : Deferred(r)' <=> Deferred(r)
  BY <1>1 DEF SetOut, Closed, Deferred, ledgerVars
<1>5. /\ 1 \in 1 .. Len(incoming)
      /\ master.srid.run = RunAt(1)
      /\ Live(1)
  BY <1>1, MasterFacts DEF Live, Handled
<1>6. \A i \in 1 .. Len(incoming) : Live(i) => RunAt(i) \notin SetOut
  BY <1>1 DEF SetsOut
<1>7. \A p \in dispatched : p.srid.run # master.srid.run
  BY <1>5, <1>6 DEF SetOut
<1>8. OneMessage' /\ OneDeferrer'
  BY <1>1, <1>2, <1>3 DEF OneMessage, OneDeferrer
<1>9. Apart'
  BY <1>1, <1>2, <1>3, <1>4 DEF Apart
<1>10. SetsOut'
  BY <1>1, <1>2, <1>3, <1>4, <1>6, <1>7 DEF SetsOut
<1>11. ClonesInv'
  BY <1>1, <1>2, <1>3 DEF ClonesInv, ledgerVars
<1> QED BY <1>8, <1>9, <1>10, <1>11

(* srmaster puts the run on one more queue.                                  *)
LEMMA EnqueueOneLife ==
    ASSUME TypeInv, OneLife, NEW nc \in NETCONFIGS, MasterEnqueue(nc)
    PROVE  OneLife'
<1> USE DEF OneLife
<1> DEFINE m == [srid |-> master.srid, tstamp |-> master.tstamp]
<1>1. /\ master.phase = "dispatching" /\ master.todo # {}
      /\ master'.phase = "dispatching"
      /\ master'.srid = master.srid
      /\ master'.tstamp = master.tstamp
      /\ dispatched' = dispatched \union {m}
      /\ UNCHANGED <<incoming, deferrers, clones, ledgerVars>>
  BY MasterFacts DEF MasterEnqueue, MasterState
<1>2. /\ m.srid = master.srid
      /\ m.tstamp = master.tstamp
  OBVIOUS
<1> HIDE DEF m
<1>3. \A i : Live(i)' => Live(i)
  BY <1>1 DEF Live, Handled
<1>4. \A i : RunAt(i)' = RunAt(i)
  BY <1>1 DEF RunAt
<1>5. /\ 1 \in 1 .. Len(incoming)
      /\ master.srid.run = RunAt(1)
      /\ Live(1)
  BY <1>1, MasterFacts DEF Live, Handled
<1>6. /\ SetOut' = SetOut \union {RunAt(1)}
      /\ Closed' = Closed
      /\ \A r : Deferred(r)' <=> Deferred(r)
  BY <1>1, <1>2, <1>5 DEF SetOut, Closed, Deferred, ledgerVars
<1>7. ~Deferred(RunAt(1)) /\ RunAt(1) \notin Closed
  BY <1>5 DEF Apart
<1>8. OneMessage' /\ OneDeferrer'
  BY <1>1, <1>3, <1>4 DEF OneMessage, OneDeferrer
<1>9. Apart'
  <2>1. \A d \in deferrers : d.srid.run # RunAt(1)
    BY <1>7 DEF Deferred
  <2> QED BY <1>1, <1>3, <1>4, <1>6, <1>7, <2>1 DEF Apart
<1>10. SetsOut'
  <2>1. \A i \in 1 .. Len(incoming) : Live(i) /\ RunAt(i) = RunAt(1) => i = 1
    BY <1>5 DEF OneMessage
  <2>2. \A p \in dispatched :
            p.srid.run = master.srid.run => p.tstamp = master.tstamp
    BY <1>1 DEF SetsOut
  <2>3. \A p \in dispatched' :
            p.srid.run = master.srid.run => p.tstamp = master.tstamp
    BY <1>1, <1>2, <2>2
  <2>4. \A p, q \in dispatched' : p.srid = q.srid => p.tstamp = q.tstamp
    BY <1>1, <1>2, <2>2 DEF SetsOut
  <2>5. \A i \in 1 .. Len(incoming)' : Live(i)' /\ RunAt(i)' \in SetOut' =>
            i = 1
    BY <1>1, <1>3, <1>4, <1>6, <2>1 DEF SetsOut
  <2> QED BY <1>1, <2>3, <2>4, <2>5 DEF SetsOut
<1>11. ClonesInv'
  BY <1>1, <1>3, <1>4 DEF ClonesInv, ledgerVars
<1> QED BY <1>8, <1>9, <1>10, <1>11

(* srmaster acknowledges: the messages move up.                              *)
LEMMA AckOneLife ==
    ASSUME TypeInv, OneLife, MasterAck
    PROVE  OneLife'
<1> USE DEF OneLife
<1>1. /\ Handled
      /\ master.phase = "dispatching"
      /\ master'.phase = "idle"
      /\ incoming' = Tail(incoming)
      /\ UNCHANGED <<deferrers, dispatched, clones, ledgerVars>>
  BY DEF MasterAck, Handled, Idle
<1>2. /\ Len(incoming) \in Nat \ {0}
      /\ Len(incoming') = Len(incoming) - 1
      /\ \A i \in 1 .. Len(incoming') : /\ i + 1 \in 2 .. Len(incoming)
                                        /\ incoming'[i] = incoming[i + 1]
  BY <1>1, MasterFacts, Removed
<1>3. \A i \in 1 .. Len(incoming') :
            /\ i \in Nat
            /\ i + 1 \in 1 .. Len(incoming)
            /\ i + 1 # 1
            /\ Live(i + 1)
            /\ RunAt(i)' = RunAt(i + 1)
  BY <1>2 DEF Live, RunAt
<1>4. /\ SetOut' = SetOut
      /\ Closed' = Closed
      /\ \A r : Deferred(r)' <=> Deferred(r)
  BY <1>1 DEF SetOut, Closed, Deferred, ledgerVars
<1>5. OneMessage'
  <2> SUFFICES ASSUME NEW i \in 1 .. Len(incoming'),
                      NEW k \in 1 .. Len(incoming'), RunAt(i)' = RunAt(k)'
               PROVE  i = k
    BY DEF OneMessage
  <2>1. i + 1 = k + 1
    BY <1>3 DEF OneMessage
  <2> QED BY <1>3, <2>1
<1>6. OneDeferrer'
  BY <1>1 DEF OneDeferrer
<1>7. Apart'
  <2>1. \A i \in 1 .. Len(incoming') :
            ~Deferred(RunAt(i))' /\ RunAt(i)' \notin Closed
    BY <1>3, <1>4 DEF Apart
  <2> QED BY <1>1, <1>4, <2>1 DEF Apart
<1>8. SetsOut'
  <2>1. \A i \in 1 .. Len(incoming') : RunAt(i)' \notin SetOut
    BY <1>3 DEF SetsOut
  <2> QED BY <1>1, <1>4, <2>1 DEF SetsOut
<1>9. ClonesInv'
  <2>1. \A i \in 1 .. Len(incoming') :
            clones[RunAt(i)'] = incoming'[i].attempt - 1
    <3> SUFFICES ASSUME NEW i \in 1 .. Len(incoming')
                 PROVE  clones[RunAt(i)'] = incoming'[i].attempt - 1
      OBVIOUS
    <3>1. PICK k \in 1 .. Len(incoming) :
                /\ k = i + 1 /\ k # 1 /\ Live(k)
                /\ RunAt(i)' = RunAt(k)
                /\ incoming'[i] = incoming[k]
      BY <1>2, <1>3
    <3>2. clones[RunAt(k)] = incoming[k].attempt - 1
      BY <3>1 DEF ClonesInv
    <3> QED BY <3>1, <3>2
  <2> QED BY <1>1, <2>1 DEF ClonesInv, ledgerVars
<1> QED BY <1>5, <1>6, <1>7, <1>8, <1>9

(* A run comes in, new or from its deferrer, which is gone then.  It was     *)
(* nowhere else.                                                             *)
LEMMA ArriveOneLife ==
    ASSUME TypeInv, OneLife, NEW e \in RunMessage,
           incoming' = Append(incoming, e),
           \A i \in 1 .. Len(incoming) : Live(i) => RunAt(i) # e.srid.run,
           deferrers' \subseteq deferrers,
           \A d \in deferrers' : d.srid.run # e.srid.run,
           e.srid.run \notin Closed \union SetOut,
           clones[e.srid.run] = e.attempt - 1,
           UNCHANGED <<master, dispatched, clones, cancelled, dropped,
                       killed>>
    PROVE  OneLife'
<1> USE DEF OneLife
<1>0. PICK n : n = Len(incoming')
  OBVIOUS
<1>1. /\ Len(incoming) \in Nat
      /\ n = Len(incoming) + 1
      /\ \A i \in 1 .. Len(incoming) : incoming'[i] = incoming[i]
      /\ incoming'[n] = e
      /\ \A i \in 1 .. n : i \in 1 .. Len(incoming) \/ i = n
  BY <1>0, MasterFacts, Appended
<1>2. n = 1 => master.phase = "idle"
  BY <1>1, MasterFacts
<1>3. /\ \A i \in 1 .. Len(incoming) :
            (Live(i)' <=> Live(i)) /\ RunAt(i)' = RunAt(i) /\ i # n
      /\ RunAt(n)' = e.srid.run
      /\ n = 1 => master'.phase = "idle"
  BY <1>1, <1>2 DEF Live, Handled, RunAt
<1>4. /\ SetOut' = SetOut
      /\ Closed' = Closed
      /\ \A r : Deferred(r)' => Deferred(r)
      /\ ~Deferred(e.srid.run)'
  BY DEF SetOut, Closed, Deferred
<1>5. \A i \in 1 .. n : Live(i)' =>
            \/ i = n
            \/ i \in 1 .. Len(incoming) /\ Live(i) /\ RunAt(i)' = RunAt(i)
                /\ RunAt(i) # e.srid.run /\ incoming'[i] = incoming[i]
  BY <1>1, <1>3
<1>6. OneMessage'
  BY <1>0, <1>3, <1>5 DEF OneMessage
<1>7. OneDeferrer'
  BY DEF OneDeferrer
<1>8. Apart'
  BY <1>0, <1>3, <1>4, <1>5 DEF Apart
<1>9. SetsOut'
  BY <1>0, <1>3, <1>4, <1>5 DEF SetsOut
<1>10. ClonesInv'
  <2>1. ASSUME NEW i \in 1 .. n, Live(i)'
        PROVE  clones[RunAt(i)'] =
                    IF i = 1 /\ master'.phase # "idle"
                    THEN incoming'[i].attempt ELSE incoming'[i].attempt - 1
    <3>1. CASE i = n
      <4>1. ~(i = 1 /\ master'.phase # "idle")
        BY <1>3, <3>1
      <4> QED BY <1>1, <1>3, <3>1, <4>1
    <3>2. CASE i # n
      BY <1>5, <2>1, <3>2 DEF ClonesInv
    <3> QED BY <3>1, <3>2
  <2>2. \A r \in cancelled' : clones'[r] = Attempts
    BY DEF ClonesInv
  <2>3. \A d \in deferrers' : clones'[d.srid.run] = d.attempt - 1
    BY DEF ClonesInv
  <2> QED BY <1>0, <2>1, <2>2, <2>3 DEF ClonesInv
<1> QED BY <1>6, <1>7, <1>8, <1>9, <1>10

LEMMA SubmitOneLife ==
    ASSUME TypeInv, AcceptedInv, OneLife, NEW r \in Requests, Submit(r)
    PROVE  OneLife'
<1> DEFINE e == [srid |-> FirstSrid(r), attempt |-> 1]
<1>1. /\ e \in RunMessage
      /\ e.srid.run = r
      /\ e.attempt = 1
  BY DEF RunMessage, FirstSrid, Srid
<1>2. /\ r \notin accepted
      /\ incoming' = Append(incoming, e)
      /\ UNCHANGED <<master, deferrers, dispatched, clones, cancelled,
                     dropped, killed>>
  BY DEF Submit
<1> HIDE DEF e
<1>3. /\ \A i \in 1 .. Len(incoming) : RunAt(i) # r
      /\ \A d \in deferrers : d.srid.run # r
      /\ r \notin Closed \union SetOut
      /\ clones[r] = 0
  BY <1>2 DEF AcceptedInv
<1> QED BY <1>1, <1>2, <1>3, ArriveOneLife

LEMMA DeferrerOneLife ==
    ASSUME TypeInv, OneLife, NEW d \in deferrers,
           DeferrerWakes(d) \/ DeferrerDies(d)
    PROVE  OneLife'
<1>1. /\ deferrers' = deferrers \ {d}
      /\ \A c \in deferrers' : c.srid.run # d.srid.run
  BY DEF DeferrerWakes, DeferrerDies, OneLife, OneDeferrer
<1>2. /\ Deferred(d.srid.run)
      /\ d.srid.run \notin Closed \union SetOut
      /\ clones[d.srid.run] = d.attempt - 1
  BY DEF Deferred, OneLife, Apart, ClonesInv
<1>3. \A i \in 1 .. Len(incoming) : Live(i) => RunAt(i) # d.srid.run
  BY <1>2 DEF OneLife, Apart
<1>4. CASE DeferrerWakes(d)
  <2> DEFINE e == [srid |-> d.srid, attempt |-> d.attempt]
  <2>1. /\ e \in RunMessage
        /\ e.srid.run = d.srid.run
        /\ e.attempt = d.attempt
    BY MasterFacts DEF RunMessage, Deferrer
  <2>2. /\ incoming' = Append(incoming, e)
        /\ UNCHANGED <<master, dispatched, clones, cancelled, dropped,
                       killed>>
    BY <1>4 DEF DeferrerWakes, ledgerVars
  <2> HIDE DEF e
  <2> QED BY <1>1, <1>2, <1>3, <2>1, <2>2, ArriveOneLife
<1>5. CASE DeferrerDies(d)
  <2> USE DEF OneLife
  <2>1. /\ killed' = killed \union {d.srid.run}
        /\ UNCHANGED <<incoming, master, dispatched, clones, cancelled,
                       dropped>>
    BY <1>5 DEF DeferrerDies, queueVars
  <2>2. \A i : (Live(i)' <=> Live(i)) /\ RunAt(i)' = RunAt(i)
    BY <2>1 DEF Live, Handled, RunAt
  <2>3. /\ SetOut' = SetOut
        /\ Closed' = Closed \union {d.srid.run}
        /\ \A r : Deferred(r)' => Deferred(r)
    BY <1>1, <2>1 DEF SetOut, Closed, Deferred
  <2>4. OneMessage' /\ OneDeferrer'
    BY <1>1, <2>1, <2>2 DEF OneMessage, OneDeferrer
  <2>5. Apart'
    BY <1>1, <1>2, <1>3, <2>1, <2>2, <2>3 DEF Apart
  <2>6. SetsOut' /\ ClonesInv'
    BY <1>1, <2>1, <2>2, <2>3 DEF SetsOut, ClonesInv
  <2> QED BY <2>4, <2>5, <2>6
<1> QED BY <1>4, <1>5

SingleInv == failures = 0 => OneLife

LEMMA NextSingleInv ==
    ASSUME TypeInv, AcceptedInv, SingleInv, [Next]_vars
    PROVE  SingleInv'
<1> SUFFICES ASSUME failures' = 0 PROVE OneLife'
  BY DEF SingleInv
<1>1. failures = 0 /\ OneLife
  BY FailuresCounted, MasterFacts DEF SingleInv
<1>2. ~MasterFails
  BY <1>1 DEF MasterFails, Fails
<1>3. CASE UNCHANGED <<incoming, masterVars>>
  BY <1>1, <1>3 DEF masterVars, ledgerVars, OneLife, OneMessage, OneDeferrer,
     Apart, SetsOut, ClonesInv, Live, RunAt, Handled, SetOut, Closed,
     Deferred
<1> QED
  BY <1>1, <1>2, <1>3, RestLeavesRuns, MasterActions, ReceiveOneLife,
     CloneEndsOneLife, WaitOneLife, EnqueueOneLife, AckOneLife,
     SubmitOneLife, DeferrerOneLife

LEMMA SingleInvHolds == Spec => [](AcceptedInv /\ SingleInv)
<1>1. Init => AcceptedInv /\ SingleInv
  BY InitAcceptedInv, InitOneLife DEF SingleInv
<1>2. TypeInv /\ AcceptedInv /\ SingleInv /\ [Next]_vars
        => AcceptedInv' /\ SingleInv'
  BY NextAcceptedInv, NextSingleInv
<1>3. Init /\ [][Next]_vars => []TypeInv
  BY TypeInvHolds DEF Spec
<1> QED BY <1>1, <1>2, <1>3, PTL DEF Spec

(* Unless a message is delivered again, no run that srcloner cancelled or    *)
(* dropped, that died with its deferrer, or that a deferrer has, reaches a   *)
(* netconfig queue.                                                          *)
THEOREM UnclonedStay == Spec => []UnclonedRunsAreNotTested
<1>1. SingleInv => UnclonedRunsAreNotTested
  <2> SUFFICES ASSUME OneLife, NEW r \in Requests, r \in Closed \/ Deferred(r),
                      NEW p \in dispatched
               PROVE  p.srid.run # r
    BY DEF SingleInv, UnclonedRunsAreNotTested
  <2>1. p.srid.run \in SetOut
    BY DEF SetOut
  <2> QED BY <2>1 DEF OneLife, Apart, Deferred
<1> QED BY <1>1, SingleInvHolds, PTL

(* Unless a message is delivered again, all jobs of a run carry the          *)
(* timestamp that srmaster took once for it.                                 *)
THEOREM OneTimestamp == Spec => []RunsKeepTheirTimestampWithoutFailures
<1>1. SingleInv => RunsKeepTheirTimestampWithoutFailures
  BY DEF SingleInv, OneLife, SetsOut, RunsKeepTheirTimestampWithoutFailures
<1> QED BY <1>1, SingleInvHolds, PTL
-----------------------------------------------------------------------------
(* What is under way was asked for: every message of a netconfig's queue is  *)
(* of a run that wants the netconfig, and every job on a client or past it   *)
(* is one of an accepted run.                                                *)
OwedJobs == UNION {JobsOf(r) : r \in accepted}

RunsOwed ==
    /\ master.phase = "dispatching" =>
            master.todo \subseteq Netconfigs(master.srid.run)
    /\ \A nc \in NETCONFIGS : \A m \in Range(netconfig_queue[nc]) :
            m.srid.run \in accepted /\ nc \in Netconfigs(m.srid.run)

SchedulersOwed ==
    \A nc \in NETCONFIGS : scheduler[nc].busy =>
        scheduler[nc].todo \subseteq Systems(Head(netconfig_queue[nc]).srid.run)

ClientsOwed ==
    \A o \in OPERATING_SYSTEMS : \A m \in OnClient(o) : JobOn(m, o) \in OwedJobs

ReportsOwed ==
    /\ Range(outgoing) \union GivenUp \subseteq OwedJobs
    /\ \A j \in Job : Reported(j) => j \in OwedJobs

OwedInv == RunsOwed /\ SchedulersOwed /\ ClientsOwed /\ ReportsOwed

LEMMA InitOwedInv == Init => OwedInv
BY RangeOfEmpty DEF Init, QueuesInit, MasterInit, SchedulerInit, ClientInit,
   ReporterInit, OwedInv, RunsOwed, SchedulersOwed, ClientsOwed, ReportsOwed,
   Idle, SchedulerIdle, OnClient, Rows, GivenUp, Reported

LEMMA OwedJob ==
    ASSUME NEW r \in accepted, NEW nc \in Netconfigs(r), NEW o \in Systems(r)
    PROVE  JobOf(r, nc, o) \in OwedJobs
BY DEF OwedJobs, JobsOf

(* A request is never withdrawn.                                             *)
LEMMA OwedGrows ==
    ASSUME TypeInv, [Next]_vars
    PROVE  accepted \subseteq accepted' /\ OwedJobs \subseteq OwedJobs'
<1>1. accepted \subseteq accepted'
  <2>1. CASE MasterSide
    BY <2>1, MasterActions DEF MasterReceive, CloneSucceeds, CloneDefers,
       CloneCancels, CloneDrops, MasterWakes, MasterEnqueue, MasterAck,
       MasterFails, Submit, DeferrerWakes, DeferrerDies, ledgerVars
  <2>2. CASE ~MasterSide
    BY <2>2, RestLeavesRuns DEF masterVars, ledgerVars
  <2> QED BY <2>1, <2>2
<1> QED BY <1>1 DEF OwedJobs

LEMMA MasterSideRunsOwed ==
    ASSUME TypeInv, AcceptedInv, RunsOwed, MasterSide,
           accepted \subseteq accepted'
    PROVE  RunsOwed'
<1> USE DEF RunsOwed
<1>1. CASE /\ UNCHANGED netconfig_queue
           /\ master'.phase = "dispatching" =>
                master'.todo \subseteq Netconfigs(master'.srid.run)
  BY <1>1
<1>2. ASSUME NEW nc \in NETCONFIGS, MasterEnqueue(nc) PROVE RunsOwed'
  <2> DEFINE m == [srid |-> master.srid, tstamp |-> master.tstamp]
  <2>1. /\ m \in NetconfigMessage
        /\ m.srid.run \in accepted
        /\ nc \in Netconfigs(m.srid.run)
    BY <1>2, MasterFacts
    DEF MasterEnqueue, MasterState, NetconfigMessage, AcceptedInv
  <2>2. /\ netconfig_queue' = [netconfig_queue EXCEPT
                                 ![nc] = Append(netconfig_queue[nc], m)]
        /\ netconfig_queue \in [NETCONFIGS -> Seq(NetconfigMessage)]
    BY <1>2 DEF MasterEnqueue, Enqueue, TypeInv, TypeOK, QueuesTypeOK
  <2> HIDE DEF m
  <2>3. \A k \in NETCONFIGS : Range(netconfig_queue'[k]) \subseteq
            Range(netconfig_queue[k]) \union (IF k = nc THEN {m} ELSE {})
    BY <2>1, <2>2, RangeOfAppend
  <2>4. master'.todo \subseteq Netconfigs(master'.srid.run)
    BY <1>2, MasterFacts DEF MasterEnqueue, MasterState
  <2> QED BY <2>1, <2>3, <2>4
<1>3. CASE MasterReceive \/ CloneSucceeds
  BY <1>1, <1>3, MasterFacts
  DEF MasterReceive, CloneSucceeds, MasterState, queueVars
<1>4. CASE CloneDefers \/ CloneCancels \/ CloneDrops
  BY <1>1, <1>4, MasterFacts
  DEF CloneDefers, CloneCancels, CloneDrops, MasterReturns, MasterState,
      queueVars
<1>5. CASE MasterWakes
  BY <1>1, <1>5, MasterFacts DEF MasterWakes, MasterState, queueVars
<1>6. CASE MasterAck \/ MasterFails
  BY <1>1, <1>6 DEF MasterAck, MasterFails, Idle, queueVars
<1>7. CASE UNCHANGED <<master, netconfig_queue>>
  BY <1>1, <1>7
<1> QED
  BY <1>2, <1>3, <1>4, <1>5, <1>6, <1>7, MasterActions
  DEF Submit, DeferrerWakes, DeferrerDies, queueVars

LEMMA SchedulerSideOwed ==
    ASSUME TypeInv, RunsOwed, SchedulersOwed, ClientsOwed,
           NEW nc \in NETCONFIGS, SchedulerSide(nc)
    PROVE  RunsOwed' /\ SchedulersOwed' /\ ClientsOwed'
<1> USE DEF RunsOwed, SchedulersOwed, ClientsOwed
<1>1. /\ UNCHANGED <<master, accepted, runs, response>>
      /\ \A k \in NETCONFIGS \ {nc} :
            /\ netconfig_queue'[k] = netconfig_queue[k]
            /\ scheduler'[k] = scheduler[k]
  BY SchedulerSideFrame DEF ledgerVars
<1>2. /\ netconfig_queue[nc] \in Seq(NetconfigMessage)
      /\ netconfig_queue[nc] # <<>>
      /\ scheduler \in [NETCONFIGS ->
                [busy : BOOLEAN, todo : SUBSET OPERATING_SYSTEMS]]
      /\ netconfig_queue \in [NETCONFIGS -> Seq(NetconfigMessage)]
  BY DEF SchedulerSide, SchedulerStep, SchedulerReceive, SchedulerEnqueue,
     SchedulerAck, SchedulerFails, TypeInv, TypeOK, QueuesTypeOK,
     SchedulerTypeOK, BusyOnMessage
<1>3. /\ Head(netconfig_queue[nc]) \in Range(netconfig_queue[nc])
      /\ Head(netconfig_queue[nc]) \in NetconfigMessage
      /\ Range(Tail(netconfig_queue[nc])) \subseteq Range(netconfig_queue[nc])
  BY <1>2, RangeOfTail
<1>4. /\ UNCHANGED netconfig_queue \/ SchedulerAck(nc)
      /\ Range(netconfig_queue'[nc]) \subseteq Range(netconfig_queue[nc])
  <2>1. CASE SchedulerAck(nc)
    BY <1>2, <1>3, <2>1 DEF SchedulerAck, Acknowledge
  <2> QED
    BY <2>1 DEF SchedulerSide, SchedulerStep, SchedulerReceive,
       SchedulerEnqueue, SchedulerFails, queueVars
<1>5. RunsOwed'
  <2>1. \A k \in NETCONFIGS :
            Range(netconfig_queue'[k]) \subseteq Range(netconfig_queue[k])
    BY <1>1, <1>4
  <2> QED BY <1>1, <2>1
<1>6. SchedulersOwed'
  <2>1. scheduler'[nc].busy =>
            scheduler'[nc].todo \subseteq
                Systems(Head(netconfig_queue'[nc]).srid.run)
    <3>1. CASE SchedulerReceive(nc)
      BY <1>2, <3>1 DEF SchedulerReceive, queueVars
    <3>2. CASE \E o \in OPERATING_SYSTEMS : SchedulerEnqueue(nc, o)
      BY <1>2, <3>2 DEF SchedulerEnqueue
    <3>3. CASE SchedulerAck(nc) \/ SchedulerFails(nc)
      BY <1>2, <3>3 DEF SchedulerAck, SchedulerFails, SchedulerIdle
    <3> QED BY <3>1, <3>2, <3>3 DEF SchedulerSide, SchedulerStep
  <2> QED BY <1>1, <2>1
<1>7. ClientsOwed'
  <2>1. CASE UNCHANGED client_queue
    BY <1>1, <2>1 DEF OnClient, Rows, OwedJobs
  <2>2. ASSUME NEW o \in OPERATING_SYSTEMS, SchedulerEnqueue(nc, o)
        PROVE  ClientsOwed'
    <3> DEFINE m == [srid |-> Head(netconfig_queue[nc]).srid,
                     netconfig |-> nc,
                     tstamp |-> Head(netconfig_queue[nc]).tstamp]
    <3>1. m \in ClientMessage
      BY <1>3 DEF NetconfigMessage, ClientMessage
    <3>2. JobOn(m, o) \in OwedJobs
      <4>1. o \in Systems(Head(netconfig_queue[nc]).srid.run)
        BY <2>2 DEF SchedulerEnqueue
      <4>2. /\ Head(netconfig_queue[nc]).srid.run \in accepted
            /\ nc \in Netconfigs(Head(netconfig_queue[nc]).srid.run)
        BY <1>3
      <4> QED BY <4>1, <4>2, OwedJob DEF JobOn
    <3>3. /\ client_queue' = [client_queue EXCEPT
                                ![o] = Append(client_queue[o], m)]
          /\ client_queue \in [OPERATING_SYSTEMS -> Seq(ClientMessage)]
      BY <2>2 DEF SchedulerEnqueue, Enqueue, TypeInv, TypeOK, QueuesTypeOK
    <3> HIDE DEF m
    <3>4. \A k \in OPERATING_SYSTEMS : Range(client_queue'[k]) \subseteq
                Range(client_queue[k]) \union (IF k = o THEN {m} ELSE {})
      BY <3>1, <3>3, RangeOfAppend
    <3>5. \A k \in OPERATING_SYSTEMS : OnClient(k)' \subseteq
                OnClient(k) \union (IF k = o THEN {m} ELSE {})
      BY <1>1, <3>4 DEF OnClient, Rows
    <3> QED BY <1>1, <3>2, <3>5 DEF OwedJobs
  <2> QED
    BY <2>1, <2>2 DEF SchedulerSide, SchedulerStep, SchedulerReceive,
       SchedulerAck, SchedulerFails, queueVars
<1> QED BY <1>5, <1>6, <1>7

(* A client only moves its jobs along: what it reports or gives up it had.   *)
LEMMA ClientSideMoves ==
    ASSUME TypeInv, OneReply, NEW o \in OPERATING_SYSTEMS, ClientSide(o)
    PROVE  /\ \A k \in OPERATING_SYSTEMS : OnClient(k)' \subseteq OnClient(k)
           /\ Range(outgoing') \subseteq
                Range(outgoing) \union {JobOn(m, o) : m \in OnClient(o)}
           /\ \/ UNCHANGED <<unreported, forgotten>>
              \/ \E m \in OnClient(o) :
                    unreported' \union forgotten' =
                        unreported \union forgotten \union {JobOn(m, o)}
<1> USE DEF ClientSide, ClientSteps, WorkerStep
<1>1. /\ client_queue \in [OPERATING_SYSTEMS -> Seq(ClientMessage)]
      /\ runs \in [OPERATING_SYSTEMS -> Seq(ClientMessage)]
      /\ response \in [OPERATING_SYSTEMS -> Seq(ClientMessage)]
      /\ outgoing \in Seq(ResultMessage)
  BY DEF TypeInv, TypeOK, QueuesTypeOK, ClientTypeOK
<1>2. Range(client_queue'[o]) \subseteq Range(client_queue[o])
  <2>1. CASE client_queue'[o] = Tail(client_queue[o]) /\ client_queue[o] # <<>>
    BY <1>1, <2>1, RangeOfTail
  <2>2. CASE UNCHANGED client_queue
    BY <2>2
  <2>3. CASE WorkerReturns(o)
    <3>1. Inbox(o) # <<>>
      BY <2>3 DEF WorkerReturns, TypeInv, BusyOnMessage
    <3> QED
      BY <1>1, <2>1, <2>2, <2>3, <3>1 DEF WorkerReturns, Acknowledge, Inbox
  <2>4. CASE ProxyAck(o)
    BY <1>1, <2>1, <2>4 DEF ProxyAck, Acknowledge, TypeInv, BusyOnMessage
  <2> QED
    BY <2>2, <2>3, <2>4 DEF WorkerReceive, WorkerSkips, WorkerUploads,
       WorkerFailsToUpload, WorkerFails, WebWorkerDies, ProxyInsert,
       ProxyFails, GetNext, ReplyLost, queueVars
<1>3. Rows(o)' \subseteq OnClient(o)
  <2>1. CASE UNCHANGED <<runs, response>>
    BY <2>1 DEF Rows, OnClient
  <2>2. CASE UNCHANGED runs /\ response'[o] = <<>>
    BY <2>2, RangeOfEmpty DEF Rows, OnClient
  <2>3. CASE ProxyInsert(o)
    <3>1. /\ client_queue[o] # <<>>
          /\ runs'[o] = Append(runs[o], Head(client_queue[o]))
          /\ response'[o] = response[o]
      BY <1>1, <2>3 DEF ProxyInsert
    <3>2. /\ Head(client_queue[o]) \in ClientMessage
          /\ Head(client_queue[o]) \in Range(client_queue[o])
          /\ runs[o] \in Seq(ClientMessage)
      BY <1>1, <3>1, RangeOfTail
    <3>3. Range(runs'[o]) = Range(runs[o]) \union {Head(client_queue[o])}
      BY <3>1, <3>2, RangeOfAppend
    <3> QED BY <3>1, <3>2, <3>3 DEF Rows, OnClient
  <2>4. CASE GetNext(o) \/ ReplyLost(o)
    <3>1. /\ runs[o] # <<>>
          /\ runs'[o] = Tail(runs[o])
          /\ \/ response'[o] = <<Head(runs[o])>>
             \/ response'[o] = response[o]
      BY <1>1, <2>4 DEF GetNext, ReplyLost
    <3>2. Range(runs[o]) = Range(Tail(runs[o])) \union {Head(runs[o])}
      BY <1>1, <3>1, RangeOfTail
    <3> QED BY <3>1, <3>2, RangeOfSingle DEF Rows, OnClient
  <2>5. CASE WorkerSkips(o) \/ WebWorkerDies(o)
    BY <1>1, <2>2, <2>5 DEF WorkerSkips, WebWorkerDies
  <2>6. CASE WorkerReturns(o)
    BY <1>1, <2>1, <2>2, <2>6 DEF WorkerReturns
  <2> QED
    BY <2>1, <2>3, <2>4, <2>5, <2>6 DEF WorkerReceive, WorkerUploads,
       WorkerFailsToUpload, WorkerFails, ProxyAck, ProxyFails
<1>4. \A k \in OPERATING_SYSTEMS : OnClient(k)' \subseteq OnClient(k)
  <2>1. \A k \in OPERATING_SYSTEMS \ {o} : OnClient(k)' = OnClient(k)
    BY ClientSideFrame DEF OnClient, Rows
  <2>2. OnClient(o)' \subseteq OnClient(o)
    BY <1>2, <1>3 DEF OnClient
  <2> QED BY <2>1, <2>2
<1>5. Range(outgoing') \subseteq
            Range(outgoing) \union {JobOn(m, o) : m \in OnClient(o)}
  <2>1. CASE WorkerUploads(o)
    <3> DEFINE m == Head(Inbox(o))
    <3>1. m \in OnClient(o)
      BY <2>1, InboxOnClient DEF WorkerUploads, TypeInv, BusyOnMessage
    <3>2. /\ JobOn(m, o) \in ResultMessage
          /\ outgoing' = Append(outgoing, JobOn(m, o))
      BY <2>1, <3>1, ClientJob DEF WorkerUploads, Job
    <3> HIDE DEF m
    <3>3. Range(outgoing') = Range(outgoing) \union {JobOn(m, o)}
      BY <1>1, <3>2, RangeOfAppend
    <3> QED BY <3>1, <3>3
  <2>2. CASE UNCHANGED outgoing
    BY <2>2
  <2> QED
    BY <2>1, <2>2 DEF WorkerReceive, WorkerSkips, WorkerFailsToUpload,
       WorkerReturns, WorkerFails, WebWorkerDies, ProxyInsert, ProxyAck,
       ProxyFails, GetNext, ReplyLost, queueVars
<1>6. \/ UNCHANGED <<unreported, forgotten>>
      \/ \E m \in OnClient(o) :
            unreported' \union forgotten' =
                unreported \union forgotten \union {JobOn(m, o)}
  <2>1. ASSUME WorkerSkips(o) \/ WorkerFailsToUpload(o) \/ WebWorkerDies(o)
        PROVE  \E m \in OnClient(o) :
                    unreported' \union forgotten' =
                        unreported \union forgotten \union {JobOn(m, o)}
    <3>1. CASE WorkerFailsToUpload(o)
      <4>1. Head(Inbox(o)) \in OnClient(o)
        BY <3>1, InboxOnClient DEF WorkerFailsToUpload, TypeInv, BusyOnMessage
      <4> QED BY <3>1, <4>1 DEF WorkerFailsToUpload
    <3>2. CASE WorkerSkips(o) \/ WebWorkerDies(o)
      <4>1. response[o] # <<>>
        BY <3>2 DEF WorkerSkips, WebWorkerDies
      <4>2. Head(response[o]) \in OnClient(o)
        BY <1>1, <4>1, RangeOfTail DEF OnClient, Rows
      <4> QED BY <3>2, <4>2 DEF WorkerSkips, WebWorkerDies
    <3> QED BY <2>1, <3>1, <3>2
  <2>2. ASSUME ReplyLost(o)
        PROVE  \E m \in OnClient(o) :
                    unreported' \union forgotten' =
                        unreported \union forgotten \union {JobOn(m, o)}
    <3>1. Head(runs[o]) \in OnClient(o)
      BY <1>1, <2>2, RangeOfTail DEF ReplyLost, OnClient, Rows
    <3> QED BY <2>2, <3>1 DEF ReplyLost
  <2> QED
    BY <2>1, <2>2 DEF WorkerReceive, WorkerUploads, WorkerReturns,
       WorkerFails, ProxyInsert, ProxyAck, ProxyFails, GetNext
<1> QED BY <1>4, <1>5, <1>6

LEMMA NextOwedInv ==
    ASSUME TypeInv, OneReply, AcceptedInv, OwedInv, [Next]_vars
    PROVE  OwedInv'
<1> USE DEF OwedInv
<1>1. accepted \subseteq accepted' /\ OwedJobs \subseteq OwedJobs'
  BY OwedGrows
<1>2. CASE MasterSide
  <2>1. UNCHANGED <<client_queue, outgoing, scheduler, runs, response,
                    unreported, forgotten, archived>>
    BY <1>2, MasterSideFrame
  <2>2. RunsOwed'
    BY <1>1, <1>2, MasterSideRunsOwed
  <2>3. SchedulersOwed'
    <3>1. \A nc \in NETCONFIGS : scheduler[nc].busy =>
                Head(netconfig_queue'[nc]) = Head(netconfig_queue[nc])
      BY <1>2, MasterSideFrame DEF TypeInv, BusyOnMessage
    <3> QED BY <2>1, <3>1 DEF SchedulersOwed
  <2>4. ClientsOwed'
    BY <1>1, <2>1 DEF ClientsOwed, OnClient, Rows
  <2>5. ReportsOwed'
    BY <1>1, <2>1 DEF ReportsOwed, GivenUp, Reported
  <2> QED BY <2>2, <2>3, <2>4, <2>5
<1>3. ASSUME NEW nc \in NETCONFIGS, SchedulerSide(nc) PROVE OwedInv'
  <2>1. UNCHANGED <<outgoing, unreported, forgotten, archived>>
    BY <1>3, SchedulerSideFrame
  <2>2. ReportsOwed'
    BY <1>1, <2>1 DEF ReportsOwed, GivenUp, Reported
  <2> QED BY <1>3, <2>2, SchedulerSideOwed
<1>4. ASSUME NEW o \in OPERATING_SYSTEMS, ClientSide(o) PROVE OwedInv'
  <2>1. UNCHANGED <<netconfig_queue, master, ledgerVars, scheduler, archived>>
    BY <1>4, ClientSideFrame
  <2>2. RunsOwed' /\ SchedulersOwed'
    BY <2>1 DEF RunsOwed, SchedulersOwed, ledgerVars
  <2>3. ClientsOwed'
    BY <1>1, <1>4, ClientSideMoves DEF ClientsOwed
  <2>4. \A m \in OnClient(o) : JobOn(m, o) \in OwedJobs
    BY DEF ClientsOwed
  <2>5. Range(outgoing') \subseteq OwedJobs
    BY <1>4, <2>4, ClientSideMoves DEF ReportsOwed
  <2>6. GivenUp' \subseteq OwedJobs
    BY <1>4, <2>4, ClientSideMoves DEF ReportsOwed, GivenUp
  <2>7. ReportsOwed'
    BY <1>1, <2>1, <2>5, <2>6 DEF ReportsOwed, Reported
  <2> QED BY <2>2, <2>3, <2>7
<1>5. CASE ReporterSide
  <2>1. UNCHANGED <<netconfig_queue, client_queue, master, ledgerVars,
                    scheduler, runs, response, unreported, forgotten>>
    BY <1>5, ReporterSideFrame
  <2>2. RunsOwed' /\ SchedulersOwed' /\ ClientsOwed'
    BY <2>1 DEF RunsOwed, SchedulersOwed, ClientsOwed, OnClient, Rows,
       OwedJobs, ledgerVars
  <2>3. /\ outgoing \in Seq(ResultMessage)
        /\ archived \in [Job -> Nat]
    BY DEF TypeInv, TypeOK, QueuesTypeOK, ReporterTypeOK
  <2>4. Range(outgoing') \subseteq Range(outgoing)
    <3>1. CASE ReporterAck
      <4>1. outgoing # <<>> /\ outgoing' = Tail(outgoing)
        BY <3>1 DEF ReporterAck, TypeInv, BusyOnMessage
      <4> QED BY <2>3, <4>1, RangeOfTail
    <3> QED
      BY <1>5, <3>1 DEF ReporterSide, ReporterStep, ReporterPosts,
         ReporterSaves, ReporterFails, queueVars
  <2>5. \A j \in Job : Reported(j)' => j \in OwedJobs
    <3>1. CASE ReporterSaves
      <4>1. /\ archived' = [archived EXCEPT ![Head(outgoing)] = @ + 1]
            /\ outgoing # <<>>
        BY <3>1 DEF ReporterSaves, TypeInv, BusyOnMessage
      <4>2. Head(outgoing) \in OwedJobs
        BY <2>3, <4>1, RangeOfTail DEF ReportsOwed
      <4> QED BY <2>3, <4>1, <4>2 DEF ReportsOwed, Reported
    <3> QED
      BY <1>5, <3>1 DEF ReporterSide, ReporterStep, ReporterPosts,
         ReporterAck, ReporterFails, ReportsOwed, Reported
  <2>6. ReportsOwed'
    BY <1>1, <2>1, <2>4, <2>5 DEF ReportsOwed, GivenUp
  <2> QED BY <2>2, <2>6
<1>6. CASE UNCHANGED vars
  BY <1>6 DEF vars, queueVars, masterVars, ledgerVars, clientVars,
     reporterVars, RunsOwed, SchedulersOwed, ClientsOwed, ReportsOwed,
     OnClient, Rows, GivenUp, Reported, OwedJobs
<1> QED BY <1>2, <1>3, <1>4, <1>5, <1>6, StepSides
-----------------------------------------------------------------------------
(* What the users see.                                                       *)
ReportedJobs == {j \in Job : Reported(j)}

LEMMA LedgerOwes ==
    ASSUME TypeInv PROVE Ledger!Owed = OwedJobs
<1>1. accepted \subseteq Requests
  BY MasterFacts
<1> QED BY <1>1 DEF Ledger!Owed, OwedJobs

(* srmaster, srcloner and the deferrers accept a run or abandon one.         *)
LEMMA MasterSideLedger ==
    ASSUME TypeInv, AcceptedInv, OwedInv, MasterSide
    PROVE  [Ledger!Next]_(Ledger!ledger)
<1>1. UNCHANGED <<archived, GivenUp>>
  BY MasterSideFrame DEF GivenUp
<1>2. UNCHANGED ReportedJobs
  BY <1>1 DEF ReportedJobs, Reported
<1>3. CASE UNCHANGED <<accepted, Closed>>
  <2>1. UNCHANGED GivenUpJobs
    BY <1>1, <1>3 DEF GivenUpJobs
  <2> QED BY <1>2, <1>3, <2>1 DEF Ledger!ledger, ReportedJobs
<1>4. ASSUME NEW r \in accepted, Closed' = Closed \union {r},
             UNCHANGED accepted
      PROVE  [Ledger!Next]_(Ledger!ledger)
  <2> DEFINE jobs == JobsOf(r) \ GivenUpJobs
  <2>1. GivenUpJobs' = GivenUpJobs \union jobs
    BY <1>1, <1>4 DEF GivenUpJobs
  <2>2. jobs \subseteq Ledger!Owed
    BY <1>4, LedgerOwes DEF OwedJobs
  <2>3. CASE jobs = {}
    BY <1>2, <1>4, <2>1, <2>3 DEF Ledger!ledger, ReportedJobs
  <2>4. CASE jobs # {}
    <3>1. Ledger!Abandon(jobs)
      BY <1>2, <1>4, <2>1, <2>2, <2>4 DEF Ledger!Abandon, ReportedJobs
    <3> QED BY <2>2, <3>1 DEF Ledger!Next
  <2> QED BY <2>3, <2>4
<1>5. ASSUME NEW r \in Requests, Submit(r)
      PROVE  [Ledger!Next]_(Ledger!ledger)
  <2>1. /\ r \notin accepted
        /\ accepted' = accepted \union {r}
        /\ UNCHANGED Closed
    BY <1>5 DEF Submit, Closed
  <2>2. UNCHANGED GivenUpJobs
    BY <1>1, <2>1 DEF GivenUpJobs
  <2>3. Ledger!Accept(r)
    BY <1>2, <2>1, <2>2 DEF Ledger!Accept, ReportedJobs
  <2> QED BY <2>3 DEF Ledger!Next
<1>6. CASE CloneCancels \/ CloneDrops
  <2>1. master.srid.run \in accepted
    BY <1>6, MasterFacts DEF CloneCancels, CloneDrops, AcceptedInv
  <2>2. /\ Closed' = Closed \union {master.srid.run}
        /\ UNCHANGED accepted
    BY <1>6 DEF CloneCancels, CloneDrops, Closed
  <2> QED BY <1>4, <2>1, <2>2
<1>7. ASSUME NEW d \in deferrers, DeferrerDies(d)
      PROVE  [Ledger!Next]_(Ledger!ledger)
  <2>1. d.srid.run \in accepted
    BY DEF AcceptedInv
  <2>2. /\ Closed' = Closed \union {d.srid.run}
        /\ UNCHANGED accepted
    BY <1>7 DEF DeferrerDies, Closed
  <2> QED BY <1>4, <2>1, <2>2
<1> QED
  BY <1>3, <1>5, <1>6, <1>7, MasterActions DEF MasterReceive,
     CloneSucceeds, CloneDefers, MasterWakes, MasterEnqueue, MasterAck,
     MasterFails, DeferrerWakes, ledgerVars, Closed

(* A client abandons one job at a time, and the reporter reports one.        *)
LEMMA NextLedger ==
    ASSUME TypeInv, OneReply, AcceptedInv, OwedInv, [Next]_vars
    PROVE  [Ledger!Next]_(Ledger!ledger)
<1>1. CASE MasterSide
  BY <1>1, MasterSideLedger
<1>2. CASE UNCHANGED <<accepted, Closed, archived, GivenUp>>
  <2>1. UNCHANGED <<GivenUpJobs, ReportedJobs>>
    BY <1>2 DEF GivenUpJobs, ReportedJobs, Reported
  <2> QED BY <1>2, <2>1 DEF Ledger!ledger, ReportedJobs
<1>3. CASE \E nc \in NETCONFIGS : SchedulerSide(nc)
  BY <1>2, <1>3, SchedulerSideFrame DEF ledgerVars, Closed, GivenUp
<1>4. ASSUME NEW o \in OPERATING_SYSTEMS, ClientSide(o)
      PROVE  [Ledger!Next]_(Ledger!ledger)
  <2>1. UNCHANGED <<accepted, Closed, archived>>
    BY <1>4, ClientSideFrame DEF ledgerVars, Closed
  <2>2. UNCHANGED ReportedJobs
    BY <2>1 DEF ReportedJobs, Reported
  <2>3. CASE UNCHANGED GivenUp
    BY <1>2, <2>1, <2>3
  <2>4. ASSUME NEW m \in OnClient(o),
               GivenUp' = GivenUp \union {JobOn(m, o)},
               JobOn(m, o) \notin GivenUpJobs
        PROVE  [Ledger!Next]_(Ledger!ledger)
    <3> DEFINE jobs == {JobOn(m, o)}
    <3>1. GivenUpJobs' = GivenUpJobs \union jobs
      BY <2>1, <2>4 DEF GivenUpJobs
    <3>2. jobs \subseteq Ledger!Owed
      BY LedgerOwes DEF OwedInv, ClientsOwed
    <3>3. Ledger!Abandon(jobs)
      BY <2>1, <2>2, <2>4, <3>1, <3>2 DEF Ledger!Abandon, ReportedJobs
    <3> QED BY <3>2, <3>3 DEF Ledger!Next
  <2>5. ASSUME NEW m \in OnClient(o),
               GivenUp' = GivenUp \union {JobOn(m, o)},
               JobOn(m, o) \in GivenUpJobs
        PROVE  [Ledger!Next]_(Ledger!ledger)
    <3>1. UNCHANGED GivenUpJobs
      BY <2>1, <2>5 DEF GivenUpJobs
    <3> QED BY <2>1, <2>2, <3>1 DEF Ledger!ledger, ReportedJobs
  <2>6. UNCHANGED GivenUp \/ \E m \in OnClient(o) :
                GivenUp' = GivenUp \union {JobOn(m, o)}
    BY <1>4, ClientSideMoves DEF GivenUp
  <2> QED BY <2>3, <2>4, <2>5, <2>6
<1>5. CASE ReporterSide
  <2>1. UNCHANGED <<accepted, Closed, GivenUp>>
    BY <1>5, ReporterSideFrame DEF ledgerVars, Closed, GivenUp
  <2>2. CASE UNCHANGED archived
    BY <1>2, <2>1, <2>2
  <2>3. CASE ReporterSaves
    <3> DEFINE j == Head(outgoing)
    <3>1. /\ archived' = [archived EXCEPT ![j] = @ + 1]
          /\ archived \in [Job -> Nat]
          /\ outgoing \in Seq(ResultMessage)
          /\ outgoing # <<>>
      BY <2>3 DEF ReporterSaves, TypeInv, TypeOK, QueuesTypeOK,
         ReporterTypeOK, BusyOnMessage
    <3>2. j \in Job /\ j \in Ledger!Owed
      BY <3>1, RangeOfTail, LedgerOwes DEF OwedInv, ReportsOwed, Job
    <3> HIDE DEF j
    <3>3. ReportedJobs' = ReportedJobs \union {j}
      BY <3>1, <3>2 DEF ReportedJobs, Reported
    <3>4. UNCHANGED GivenUpJobs
      BY <2>1 DEF GivenUpJobs
    <3>5. CASE j \in ReportedJobs
      BY <2>1, <3>3, <3>4, <3>5 DEF Ledger!ledger, ReportedJobs
    <3>6. CASE j \notin ReportedJobs
      <4>1. Ledger!Report(j)
        BY <2>1, <3>2, <3>3, <3>4, <3>6 DEF Ledger!Report, ReportedJobs
      <4> QED BY <3>2, <4>1 DEF Ledger!Next
    <3> QED BY <3>5, <3>6
  <2> QED
    BY <1>5, <2>2, <2>3 DEF ReporterSide, ReporterStep, ReporterPosts,
       ReporterAck, ReporterFails
<1>6. CASE UNCHANGED vars
  BY <1>2, <1>6 DEF vars, masterVars, ledgerVars, clientVars, reporterVars,
     Closed, GivenUp
<1> QED BY <1>1, <1>3, <1>4, <1>5, <1>6, StepSides

(* The pipeline implements the safety of RunLedger: it reports and abandons  *)
(* only jobs of runs that were asked for, each step at most one report, and  *)
(* takes nothing back.                                                       *)
THEOREM LedgerIsKept == Spec => Ledger!Safety
<1>1. Init => AcceptedInv /\ OneReply /\ OwedInv
  BY InitAcceptedInv, InitOneReply, InitOwedInv
<1>2. TypeInv /\ AcceptedInv /\ OneReply /\ OwedInv /\ [Next]_vars
        => AcceptedInv' /\ OneReply' /\ OwedInv'
  BY NextAcceptedInv, NextOneReply, NextOwedInv
<1>3. Init => Ledger!Init
  <2> SUFFICES ASSUME Init PROVE Ledger!Init
    OBVIOUS
  <2>1. accepted = {} /\ Closed = {} /\ GivenUp = {}
    BY DEF Init, MasterInit, ClientInit, Closed, GivenUp
  <2>2. ReportedJobs = {}
    BY DEF Init, ReporterInit, ReportedJobs, Reported
  <2>3. GivenUpJobs = {}
    BY <2>1 DEF GivenUpJobs
  <2> QED BY <2>1, <2>2, <2>3 DEF Ledger!Init, ReportedJobs
<1>4. TypeInv /\ OneReply /\ AcceptedInv /\ OwedInv /\ [Next]_vars
        => [Ledger!Next]_(Ledger!ledger)
  BY NextLedger
<1>5. Init /\ [][Next]_vars => []TypeInv
  BY TypeInvHolds DEF Spec
<1> QED
  BY <1>1, <1>2, <1>3, <1>4, <1>5, PTL DEF Spec, Ledger!Safety
-----------------------------------------------------------------------------
(* Counting the messages of a queue.  To count what they may still cause as  *)
(* well, each message has slots of its own in 1 .. Attempts: U relates       *)
(* messages and slots.                                                       *)
Of(m, U) == {k \in 1 .. Attempts : <<m, k>> \in U}
Slots(s, U) ==
    {x \in (1 .. Len(s)) \X (1 .. Attempts) : <<s[x[1]], x[2]>> \in U}

LEMMA SlotsAreFinite ==
    ASSUME NEW S, NEW s \in Seq(S), NEW U, NEW m
    PROVE  /\ IsFiniteSet(Slots(s, U))
           /\ Cardinality(Slots(s, U)) \in Nat
           /\ IsFiniteSet(Of(m, U))
           /\ Cardinality(Of(m, U)) \in Nat
           /\ \A i : /\ IsFiniteSet({i} \X Of(m, U))
                     /\ Cardinality({i} \X Of(m, U)) = Cardinality(Of(m, U))
<1>1. Len(s) \in Nat /\ Attempts \in Nat
  BY AttemptsFacts
<1>2. IsFiniteSet(1 .. Len(s)) /\ IsFiniteSet(1 .. Attempts)
  BY <1>1, FS_Interval
<1>3. IsFiniteSet((1 .. Len(s)) \X (1 .. Attempts))
  BY <1>2, FS_Product
<1>4. IsFiniteSet(Slots(s, U)) /\ IsFiniteSet(Of(m, U))
  BY <1>2, <1>3, FS_Subset DEF Slots, Of
<1>5. /\ Cardinality(Slots(s, U)) \in Nat
      /\ Cardinality(Of(m, U)) \in Nat
  BY <1>4, FS_CardinalityType
<1>6. ASSUME NEW i
      PROVE  /\ IsFiniteSet({i} \X Of(m, U))
             /\ Cardinality({i} \X Of(m, U)) = Cardinality(Of(m, U))
  <2>1. IsFiniteSet({i}) /\ Cardinality({i}) = 1
    BY FS_Singleton
  <2>2. /\ IsFiniteSet({i} \X Of(m, U))
        /\ Cardinality({i} \X Of(m, U)) = 1 * Cardinality(Of(m, U))
    BY <1>4, <2>1, FS_Product
  <2> QED BY <1>5, <2>2
<1> QED BY <1>4, <1>5, <1>6

LEMMA SlotsOfEmpty ==
    ASSUME NEW U PROVE Cardinality(Slots(<<>>, U)) = 0
<1>1. Slots(<<>>, U) = {}
  BY DEF Slots
<1> QED BY <1>1, FS_EmptySet

LEMMA SlotsOfAppend ==
    ASSUME NEW S, NEW s \in Seq(S), NEW e \in S, NEW U
    PROVE  Cardinality(Slots(Append(s, e), U)) =
                Cardinality(Slots(s, U)) + Cardinality(Of(e, U))
<1>1. PICK t : t = Append(s, e)
  OBVIOUS
<1>2. /\ Len(s) \in Nat
      /\ Len(t) = Len(s) + 1
      /\ \A i \in 1 .. Len(s) : t[i] = s[i]
      /\ t[Len(t)] = e
      /\ \A i \in 1 .. Len(t) : i \in 1 .. Len(s) \/ i = Len(t)
  BY <1>1, Appended
<1>3. Slots(t, U) = Slots(s, U) \union ({Len(t)} \X Of(e, U))
  <2>1. 1 .. Len(t) = (1 .. Len(s)) \union {Len(t)}
    BY <1>2
  <2> QED BY <1>2, <2>1 DEF Slots, Of
<1>4. Slots(s, U) \intersect ({Len(t)} \X Of(e, U)) = {}
  <2>1. Len(t) \notin 1 .. Len(s)
    BY <1>2
  <2> QED BY <2>1 DEF Slots
<1>5. Cardinality({}) = 0
  BY FS_EmptySet
<1>6. PICK T : T = {Len(t)} \X Of(e, U)
  OBVIOUS
<1>7. /\ IsFiniteSet(T) /\ Cardinality(T) = Cardinality(Of(e, U))
      /\ IsFiniteSet(Slots(s, U))
      /\ Cardinality(Slots(s, U)) \in Nat
      /\ Cardinality(Of(e, U)) \in Nat
  BY <1>6, SlotsAreFinite
<1>8. Cardinality(Slots(s, U) \union T) =
            Cardinality(Slots(s, U)) + Cardinality(T)
                - Cardinality(Slots(s, U) \intersect T)
  BY <1>7, FS_Union
<1>9. Cardinality(Slots(t, U)) = Cardinality(Slots(s, U) \union T)
  BY <1>3, <1>6
<1>10. Cardinality(Slots(s, U) \intersect T) = 0
  BY <1>4, <1>5, <1>6
<1>11. Cardinality(Slots(t, U)) =
            Cardinality(Slots(s, U)) + Cardinality(Of(e, U))
  BY <1>7, <1>8, <1>9, <1>10
<1> QED BY <1>1, <1>11

LEMMA SlotsOfTail ==
    ASSUME NEW S, NEW s \in Seq(S), s # <<>>, NEW U
    PROVE  Cardinality(Slots(s, U)) =
                Cardinality(Slots(Tail(s), U)) + Cardinality(Of(Head(s), U))
<1>1. PICK t \in Seq(S) : t = Tail(s)
  BY HeadTailProperties
<1>2. /\ Len(s) \in Nat \ {0}
      /\ Len(t) = Len(s) - 1
      /\ \A i \in 1 .. Len(t) : i + 1 \in 2 .. Len(s) /\ t[i] = s[i + 1]
      /\ Head(s) = s[1]
  BY <1>1, Removed, EmptySeq
<1> DEFINE Rest == {x \in Slots(s, U) : x[1] # 1}
           up == [x \in Slots(t, U) |-> <<x[1] + 1, x[2]>>]
<1>3. Slots(s, U) = Rest \union ({1} \X Of(Head(s), U))
  <2>1. 1 \in 1 .. Len(s)
    BY <1>2
  <2>2. ASSUME NEW x \in Slots(s, U), x[1] = 1
        PROVE  x \in {1} \X Of(Head(s), U)
    BY <1>2, <2>2 DEF Slots, Of
  <2>3. ASSUME NEW x \in {1} \X Of(Head(s), U)
        PROVE  x \in Slots(s, U)
    BY <1>2, <2>1 DEF Slots, Of
  <2> QED BY <2>2, <2>3
<1>4. Rest \intersect ({1} \X Of(Head(s), U)) = {}
  OBVIOUS
<1>5. up \in Bijection(Slots(t, U), Rest)
  <2>1. ASSUME NEW x \in Slots(t, U)
        PROVE  /\ x = <<x[1], x[2]>>
               /\ x[1] \in Nat
               /\ <<x[1] + 1, x[2]>> \in Rest
    <3>1. /\ x = <<x[1], x[2]>>
          /\ x[1] \in 1 .. Len(t)
          /\ x[2] \in 1 .. Attempts
          /\ <<t[x[1]], x[2]>> \in U
      BY DEF Slots
    <3>2. PICK i \in 1 .. Len(t) : i = x[1]
      BY <3>1
    <3>3. i \in Nat /\ i + 1 \in 1 .. Len(s) /\ i + 1 # 1
      BY <1>2
    <3>4. <<i + 1, x[2]>> \in Slots(s, U)
      BY <1>2, <3>1, <3>2, <3>3 DEF Slots
    <3> QED BY <3>1, <3>2, <3>3, <3>4
  <2>2. up \in [Slots(t, U) -> Rest]
    BY <2>1
  <2>3. \A x, y \in Slots(t, U) : up[x] = up[y] => x = y
    <3> SUFFICES ASSUME NEW x \in Slots(t, U), NEW y \in Slots(t, U),
                        up[x] = up[y]
                 PROVE  x = y
      OBVIOUS
    <3>1. x[1] + 1 = y[1] + 1 /\ x[2] = y[2]
      OBVIOUS
    <3>2. x[1] \in Nat /\ y[1] \in Nat
      BY <2>1
    <3>3. x[1] = y[1]
      BY <3>1, <3>2
    <3> QED BY <2>1, <3>1, <3>3
  <2>4. ASSUME NEW y \in Rest PROVE \E x \in Slots(t, U) : up[x] = y
    <3>1. /\ y = <<y[1], y[2]>>
          /\ y[1] \in 2 .. Len(s)
          /\ y[2] \in 1 .. Attempts
          /\ <<s[y[1]], y[2]>> \in U
      BY <1>2 DEF Slots
    <3>2. PICK n \in 2 .. Len(s) : n = y[1]
      BY <3>1
    <3>3. PICK i \in 1 .. Len(t) : i + 1 = n
      <4>1. n - 1 \in 1 .. Len(t) /\ (n - 1) + 1 = n
        BY <1>2
      <4> QED BY <4>1
    <3>4. <<i, y[2]>> \in Slots(t, U)
      BY <1>2, <3>1, <3>2, <3>3 DEF Slots
    <3>5. up[<<i, y[2]>>] = y
      BY <3>1, <3>2, <3>3, <3>4
    <3> QED BY <3>4, <3>5
  <2> HIDE DEF up, Rest
  <2> QED BY <2>2, <2>3, <2>4, Fun_IsBij
<1>6. IsFiniteSet(Rest) /\ Cardinality(Rest) = Cardinality(Slots(t, U))
  <2>1. ExistsBijection(Slots(t, U), Rest)
    BY <1>5 DEF ExistsBijection
  <2> HIDE DEF Rest
  <2> QED BY <2>1, SlotsAreFinite, FS_Bijection
<1>7. Cardinality({}) = 0
  BY FS_EmptySet
<1> HIDE DEF Rest
<1>8. PICK T : T = {1} \X Of(Head(s), U)
  OBVIOUS
<1>9. /\ IsFiniteSet(T) /\ Cardinality(T) = Cardinality(Of(Head(s), U))
      /\ Cardinality(Slots(t, U)) \in Nat
      /\ Cardinality(Of(Head(s), U)) \in Nat
  BY <1>8, SlotsAreFinite
<1>10. Cardinality(Rest \union T) =
            Cardinality(Rest) + Cardinality(T)
                - Cardinality(Rest \intersect T)
  BY <1>6, <1>9, FS_Union
<1>11. Cardinality(Slots(s, U)) = Cardinality(Rest \union T)
  BY <1>3, <1>8
<1>12. Cardinality(Rest \intersect T) = 0
  BY <1>4, <1>7, <1>8
<1>13. Cardinality(Slots(s, U)) =
            Cardinality(Slots(t, U)) + Cardinality(Of(Head(s), U))
  BY <1>6, <1>9, <1>10, <1>11, <1>12
<1> QED BY <1>1, <1>13

(* How many messages of s are in R.                                          *)
Messages(s, R) == Cardinality(Slots(s, R \X {1}))

LEMMA SlotOfMessage ==
    ASSUME NEW m, NEW R
    PROVE  Cardinality(Of(m, R \X {1})) = IF m \in R THEN 1 ELSE 0
<1>1. 1 \in 1 .. Attempts
  BY AttemptsFacts
<1>2. CASE m \in R
  <2>1. Of(m, R \X {1}) = {1}
    BY <1>1, <1>2 DEF Of
  <2> QED BY <1>2, <2>1, FS_Singleton
<1>3. CASE m \notin R
  <2>1. Of(m, R \X {1}) = {}
    BY <1>3 DEF Of
  <2> QED BY <1>3, <2>1, FS_EmptySet
<1> QED BY <1>2, <1>3

LEMMA MessagesOfEmpty ==
    ASSUME NEW R PROVE Messages(<<>>, R) = 0
BY SlotsOfEmpty DEF Messages

LEMMA MessagesOfAppend ==
    ASSUME NEW S, NEW s \in Seq(S), NEW e \in S, NEW R
    PROVE  /\ Messages(s, R) \in Nat
           /\ e \in R => Messages(Append(s, e), R) = Messages(s, R) + 1
           /\ e \notin R => Messages(Append(s, e), R) = Messages(s, R)
BY SlotsOfAppend, SlotOfMessage, SlotsAreFinite DEF Messages

LEMMA MessagesOfTail ==
    ASSUME NEW S, NEW s \in Seq(S), s # <<>>, NEW R
    PROVE  /\ Messages(s, R) \in Nat
           /\ Messages(Tail(s), R) \in Nat
           /\ Head(s) \in R => Messages(s, R) = Messages(Tail(s), R) + 1
           /\ Head(s) \notin R => Messages(s, R) = Messages(Tail(s), R)
<1>1. Tail(s) \in Seq(S)
  BY HeadTailProperties
<1>2. /\ Messages(s, R) \in Nat
      /\ Messages(Tail(s), R) \in Nat
  BY <1>1, SlotsAreFinite DEF Messages
<1>3. Messages(s, R) = Messages(Tail(s), R) +
                            Cardinality(Of(Head(s), R \X {1}))
  BY SlotsOfTail DEF Messages
<1> QED BY <1>2, <1>3, SlotOfMessage
-----------------------------------------------------------------------------
(* Copies of a job.  A copy is whatever may still become a post of the job:  *)
(* a message of its run, a deferrer, a message with the job, a row, a reply, *)
(* a result; the posts themselves count too.  The message at the head of a   *)
(* queue no longer counts when its consumer has passed the job on.           *)
RunMessages(r) == {m \in RunMessage : m.srid.run = r}
NetconfigMessages(r) == {m \in NetconfigMessage : m.srid.run = r}
JobMessages(j) == {m \in ClientMessage : JobOn(m, j.operating_system) = j}

(* What is left of a queue when its head is done with.                       *)
Left(s, done) == IF done THEN Tail(s) ELSE s

MasterDone(j) == master.phase = "dispatching" /\ j.netconfig \notin master.todo
MasterCopies(j) ==
    Messages(Left(incoming, MasterDone(j)), RunMessages(j.run))

DeferredCopies(j) == Cardinality({d \in deferrers : d.srid.run = j.run})

SchedulerDone(j) ==
    /\ scheduler[j.netconfig].busy
    /\ j.operating_system \notin scheduler[j.netconfig].todo
SchedulerCopies(j) ==
    Messages(Left(netconfig_queue[j.netconfig], SchedulerDone(j)),
             NetconfigMessages(j.run))

QueueDone(o) == IF o \in WebClients THEN proxy[o] ELSE worker[o] = "finished"
ReplyDone(o) == o \in WebClients /\ worker[o] = "finished"
QueuedCopies(j) ==
    Messages(Left(client_queue[j.operating_system],
                  QueueDone(j.operating_system)), JobMessages(j))
RowCopies(j) == Messages(runs[j.operating_system], JobMessages(j))
ReplyCopies(j) ==
    Messages(Left(response[j.operating_system],
                  ReplyDone(j.operating_system)), JobMessages(j))

ResultCopies(j) == Messages(Left(outgoing, reporter # "idle"), {j})

RunCopies(j) == MasterCopies(j) + DeferredCopies(j)
ClientCopies(j) == QueuedCopies(j) + RowCopies(j) + ReplyCopies(j)
ReportCopies(j) == ResultCopies(j) + posted[j]

Copies(j) ==
    RunCopies(j) + SchedulerCopies(j) + ClientCopies(j) + ReportCopies(j)

(* Only the windows machines have rows and replies.                          *)
WebOnly ==
    \A o \in OPERATING_SYSTEMS \ WebClients :
        runs[o] = <<>> /\ response[o] = <<>>

CopiesInv == WebOnly /\ \A j \in Job : Copies(j) <= 1 + failures

LEMMA JobFacts ==
    ASSUME NEW j \in Job
    PROVE  /\ j.run \in Requests
           /\ j.netconfig \in NETCONFIGS
           /\ j.operating_system \in OPERATING_SYSTEMS
BY DEF Job, ResultMessage

LEMMA LeftOfQueue ==
    ASSUME NEW S, NEW s \in Seq(S), NEW done \in BOOLEAN, done => s # <<>>,
           NEW R
    PROVE  /\ Messages(s, R) \in Nat
           /\ Messages(Left(s, done), R) \in Nat
           /\ Messages(Left(s, done), R) <= Messages(s, R)
<1>1. CASE done
  <2>1. Left(s, done) = Tail(s)
    BY <1>1 DEF Left
  <2>2. /\ Messages(s, R) \in Nat
        /\ Messages(Tail(s), R) \in Nat
        /\ \/ Messages(s, R) = Messages(Tail(s), R) + 1
           \/ Messages(s, R) = Messages(Tail(s), R)
    BY <1>1, MessagesOfTail
  <2> QED BY <2>1, <2>2
<1>2. CASE ~done
  <2>1. Left(s, done) = s
    BY <1>2 DEF Left
  <2>2. Messages(s, R) \in Nat
    BY SlotsAreFinite DEF Messages
  <2> QED BY <2>1, <2>2
<1> QED BY <1>1, <1>2

(* A message that comes in while the head is handled counts as any other.    *)
LEMMA LeftOfAppend ==
    ASSUME NEW S, NEW s \in Seq(S), NEW e \in S, NEW done \in BOOLEAN,
           done => s # <<>>, NEW R
    PROVE  /\ Messages(Left(s, done), R) \in Nat
           /\ e \in R => Messages(Left(Append(s, e), done), R) =
                                Messages(Left(s, done), R) + 1
           /\ e \notin R => Messages(Left(Append(s, e), done), R) =
                                Messages(Left(s, done), R)
<1>1. PICK q \in Seq(S) : /\ q = Left(s, done)
                          /\ Left(Append(s, e), done) = Append(q, e)
  <2>1. CASE done
    <3>1. Tail(Append(s, e)) = Append(Tail(s), e)
      BY <2>1, HeadTailAppend
    <3>2. Tail(s) \in Seq(S)
      BY <2>1, RangeOfTail
    <3> QED BY <2>1, <3>1, <3>2 DEF Left
  <2>2. CASE ~done
    BY <2>2 DEF Left
  <2> QED BY <2>1, <2>2
<1> QED BY <1>1, MessagesOfAppend

(* Every count is a number.                                                  *)
LEMMA CopiesAreNumbers ==
    ASSUME TypeInv, AcceptedInv, NEW j \in Job
    PROVE  /\ MasterCopies(j) \in Nat
           /\ DeferredCopies(j) \in Nat
           /\ SchedulerCopies(j) \in Nat
           /\ QueuedCopies(j) \in Nat
           /\ RowCopies(j) \in Nat
           /\ ReplyCopies(j) \in Nat
           /\ ResultCopies(j) \in Nat
           /\ posted[j] \in Nat
<1>1. PICK n, o : n = j.netconfig /\ o = j.operating_system
  OBVIOUS
<1>2. n \in NETCONFIGS /\ o \in OPERATING_SYSTEMS
  BY <1>1, JobFacts
<1>3. MasterCopies(j) \in Nat
  <2>1. MasterDone(j) \in BOOLEAN /\ (MasterDone(j) => incoming # <<>>)
    BY MasterFacts DEF MasterDone
  <2> QED BY <2>1, MasterFacts, LeftOfQueue DEF MasterCopies
<1>4. DeferredCopies(j) \in Nat
  <2>1. IsFiniteSet({d \in deferrers : d.srid.run = j.run})
    BY FS_Subset DEF AcceptedInv
  <2> QED BY <2>1, FS_CardinalityType DEF DeferredCopies
<1>5. SchedulerCopies(j) \in Nat
  <2>1. /\ netconfig_queue[n] \in Seq(NetconfigMessage)
        /\ scheduler[n].busy \in BOOLEAN
        /\ scheduler[n].busy => netconfig_queue[n] # <<>>
    BY <1>2 DEF TypeInv, TypeOK, QueuesTypeOK, SchedulerTypeOK, BusyOnMessage
  <2>2. /\ SchedulerDone(j) \in BOOLEAN
        /\ SchedulerDone(j) => netconfig_queue[n] # <<>>
    BY <1>1, <2>1 DEF SchedulerDone
  <2> QED BY <1>1, <2>1, <2>2, LeftOfQueue DEF SchedulerCopies
<1>6. /\ client_queue[o] \in Seq(ClientMessage)
      /\ runs[o] \in Seq(ClientMessage)
      /\ response[o] \in Seq(ClientMessage)
  BY <1>2, ClientJob
<1>7. /\ QueueDone(o) \in BOOLEAN
      /\ QueueDone(o) => client_queue[o] # <<>>
      /\ ReplyDone(o) \in BOOLEAN
      /\ ReplyDone(o) => response[o] # <<>>
  BY <1>2 DEF QueueDone, ReplyDone, Inbox, TypeInv, TypeOK, ClientTypeOK,
     BusyOnMessage
<1>8. QueuedCopies(j) \in Nat
  BY <1>1, <1>6, <1>7, LeftOfQueue DEF QueuedCopies
<1>9. RowCopies(j) \in Nat
  BY <1>1, <1>6, SlotsAreFinite DEF RowCopies, Messages
<1>10. ReplyCopies(j) \in Nat
  BY <1>1, <1>6, <1>7, LeftOfQueue DEF ReplyCopies
<1>11. ResultCopies(j) \in Nat
  <2>1. /\ outgoing \in Seq(ResultMessage)
        /\ (reporter # "idle") \in BOOLEAN
        /\ reporter # "idle" => outgoing # <<>>
    BY DEF TypeInv, TypeOK, QueuesTypeOK, BusyOnMessage
  <2> QED BY <2>1, LeftOfQueue DEF ResultCopies
<1>12. posted[j] \in Nat
  BY DEF TypeInv, TypeOK, ReporterTypeOK
<1> QED
  BY <1>3, <1>4, <1>5, <1>8, <1>9, <1>10, <1>11, <1>12

(* The deferrers of a run come and go one by one.                            *)
LEMMA DeferrersChange ==
    ASSUME TypeInv, AcceptedInv, NEW j \in Job, NEW d
    PROVE  /\ deferrers' = deferrers \union {d} =>
                /\ DeferredCopies(j)' \in Nat
                /\ DeferredCopies(j)' <= DeferredCopies(j) + 1
                /\ d.srid.run # j.run => DeferredCopies(j)' = DeferredCopies(j)
           /\ d \in deferrers /\ deferrers' = deferrers \ {d} =>
                /\ DeferredCopies(j)' \in Nat
                /\ DeferredCopies(j)' <= DeferredCopies(j)
                /\ d.srid.run = j.run =>
                        DeferredCopies(j)' = DeferredCopies(j) - 1
<1>1. PICK D : D = {e \in deferrers : e.srid.run = j.run}
  OBVIOUS
<1>2. /\ IsFiniteSet(D)
      /\ Cardinality(D) \in Nat
      /\ DeferredCopies(j) = Cardinality(D)
  BY <1>1, FS_Subset, FS_CardinalityType DEF AcceptedInv, DeferredCopies
<1>3. PICK E : E = {e \in deferrers' : e.srid.run = j.run}
  OBVIOUS
<1>4. DeferredCopies(j)' = Cardinality(E)
  BY <1>3 DEF DeferredCopies
<1>5. ASSUME deferrers' = deferrers \union {d}
      PROVE  /\ Cardinality(E) \in Nat
             /\ Cardinality(E) <= Cardinality(D) + 1
             /\ d.srid.run # j.run => E = D
  <2>1. E = D \/ E = D \union {d}
    BY <1>1, <1>3, <1>5
  <2>2. /\ Cardinality(D \union {d}) \in Nat
        /\ Cardinality(D \union {d}) <= Cardinality(D) + 1
    <3>1. /\ Cardinality(D \union {d}) = Cardinality(D)
             \/ Cardinality(D \union {d}) = Cardinality(D) + 1
      BY <1>2, FS_AddElement
    <3> QED BY <1>2, <3>1
  <2>3. Cardinality(E) \in {Cardinality(D), Cardinality(D \union {d})}
    BY <2>1, Zenon
  <2>4. Cardinality(E) \in Nat /\ Cardinality(E) <= Cardinality(D) + 1
    BY <1>2, <2>2, <2>3
  <2>5. d.srid.run # j.run => E = D
    BY <1>1, <1>3, <1>5
  <2> QED BY <2>4, <2>5
<1>6. ASSUME d \in deferrers, deferrers' = deferrers \ {d}
      PROVE  /\ Cardinality(E) \in Nat
             /\ Cardinality(E) <= Cardinality(D)
             /\ d.srid.run = j.run => Cardinality(E) = Cardinality(D) - 1
  <2>1. E = D \ {d}
    BY <1>1, <1>3, <1>6
  <2>2. d.srid.run = j.run => d \in D
    BY <1>1, <1>6
  <2>3. E \subseteq D
    BY <2>1
  <2>4. /\ Cardinality(E) \in Nat
        /\ Cardinality(E) <= Cardinality(D)
    BY <1>2, <2>3, FS_Subset, FS_CardinalityType
  <2>5. d \in D => Cardinality(E) = Cardinality(D) - 1
    BY <1>2, <2>1, FS_RemoveElement
  <2> QED BY <2>2, <2>4, <2>5
<1> QED BY <1>2, <1>4, <1>5, <1>6

(* srmaster turns a message into a deferrer or puts a copy on the queue of   *)
(* the netconfig, not both, and a deferrer turns into a message.  A message  *)
(* that is delivered again may be one copy more.                             *)
LEMMA MasterSideCopies ==
    ASSUME TypeInv, AcceptedInv, NEW j \in Job, MasterSide,
           ~ \E r \in Requests : Submit(r)
    PROVE  \/ RunCopies(j)' + SchedulerCopies(j)' <=
                    RunCopies(j) + SchedulerCopies(j)
           \/ /\ failures' = failures + 1
              /\ RunCopies(j)' + SchedulerCopies(j)' <=
                    RunCopies(j) + SchedulerCopies(j) + 1
<1> USE DEF RunCopies
<1>1. PICK R, n : R = RunMessages(j.run) /\ n = j.netconfig
  OBVIOUS
<1>2. n \in NETCONFIGS
  BY <1>1, JobFacts
<1>3. PICK all, rest :
        all = Messages(incoming, R) /\ rest = Messages(Tail(incoming), R)
  OBVIOUS
<1>4. all \in Nat
  BY <1>3, MasterFacts, SlotsAreFinite DEF Messages
<1>5. master.phase # "idle" =>
        /\ rest \in Nat
        /\ \/ master.srid.run = j.run /\ all = rest + 1
           \/ master.srid.run # j.run /\ all = rest
  <2> SUFFICES ASSUME master.phase # "idle"
               PROVE  /\ rest \in Nat
                      /\ \/ master.srid.run = j.run /\ all = rest + 1
                         \/ master.srid.run # j.run /\ all = rest
    OBVIOUS
  <2>1. /\ incoming \in Seq(RunMessage)
        /\ incoming # <<>>
        /\ Head(incoming) \in RunMessage
        /\ Head(incoming).srid.run = master.srid.run
    BY MasterFacts, RangeOfTail DEF RunAt
  <2>2. Head(incoming) \in R <=> master.srid.run = j.run
    BY <1>1, <2>1 DEF RunMessages
  <2> QED BY <1>3, <2>1, <2>2, MessagesOfTail
<1>6. /\ MasterDone(j) => MasterCopies(j) = rest
      /\ ~MasterDone(j) => MasterCopies(j) = all
  BY <1>1, <1>3 DEF MasterCopies, Left
<1>7. UNCHANGED incoming =>
        /\ MasterDone(j)' => MasterCopies(j)' = rest
        /\ ~MasterDone(j)' => MasterCopies(j)' = all
  BY <1>1, <1>3 DEF MasterCopies, Left
<1>8. /\ DeferredCopies(j) \in Nat
      /\ SchedulerCopies(j) \in Nat
  BY CopiesAreNumbers
<1>9. /\ UNCHANGED deferrers => DeferredCopies(j)' = DeferredCopies(j)
      /\ UNCHANGED netconfig_queue => SchedulerCopies(j)' = SchedulerCopies(j)
  <2>1. UNCHANGED scheduler
    BY MasterSideFrame
  <2> QED BY <2>1 DEF DeferredCopies, SchedulerCopies, SchedulerDone
<1>10. CASE MasterReceive
  <2>1. /\ ~MasterDone(j) /\ ~MasterDone(j)'
        /\ UNCHANGED <<incoming, deferrers, netconfig_queue>>
    BY <1>10, MasterFacts
    DEF MasterReceive, MasterDone, MasterState, queueVars
  <2> QED BY <1>4, <1>6, <1>7, <1>8, <1>9, <2>1
<1>11. CASE CloneSucceeds
  <2>1. /\ ~MasterDone(j) /\ ~MasterDone(j)'
        /\ UNCHANGED <<incoming, deferrers, netconfig_queue>>
    BY <1>11, MasterFacts
    DEF CloneSucceeds, MasterDone, MasterState, queueVars
  <2> QED BY <1>4, <1>6, <1>7, <1>8, <1>9, <2>1
<1>12. CASE CloneDefers
  <2>1. PICK d :
            /\ d.srid = master.srid
            /\ deferrers' = deferrers \union {d}
    BY <1>12 DEF CloneDefers
  <2>2. /\ master.phase # "idle"
        /\ ~MasterDone(j) /\ MasterDone(j)'
        /\ UNCHANGED <<incoming, netconfig_queue>>
    BY <1>12, MasterFacts
    DEF CloneDefers, MasterReturns, MasterDone, MasterState, queueVars
  <2>3. /\ DeferredCopies(j)' \in Nat
        /\ DeferredCopies(j)' <= DeferredCopies(j) + 1
        /\ master.srid.run # j.run => DeferredCopies(j)' = DeferredCopies(j)
    BY <2>1, DeferrersChange
  <2>4. MasterCopies(j) = all /\ MasterCopies(j)' = rest
    BY <1>6, <1>7, <2>2
  <2>5. SchedulerCopies(j)' = SchedulerCopies(j)
    BY <1>9, <2>2
  <2> QED BY <1>4, <1>5, <1>8, <2>2, <2>3, <2>4, <2>5
<1>13. CASE CloneCancels \/ CloneDrops
  <2>1. /\ master.phase # "idle"
        /\ ~MasterDone(j) /\ MasterDone(j)'
        /\ UNCHANGED <<incoming, deferrers, netconfig_queue>>
    BY <1>13, MasterFacts DEF CloneCancels, CloneDrops, MasterReturns,
       MasterDone, MasterState, queueVars
  <2>2. MasterCopies(j) = all /\ MasterCopies(j)' = rest
    BY <1>6, <1>7, <2>1
  <2> QED BY <1>4, <1>5, <1>8, <1>9, <2>1, <2>2
<1>14. CASE MasterWakes
  <2>1. /\ master.phase # "idle"
        /\ ~MasterDone(j)
        /\ UNCHANGED <<incoming, deferrers, netconfig_queue>>
    BY <1>14 DEF MasterWakes, MasterDone, queueVars
  <2>2. MasterCopies(j) = all
    BY <1>6, <2>1
  <2>3. MasterCopies(j)' \in {all, rest}
    BY <1>7, <2>1
  <2> QED BY <1>4, <1>5, <1>8, <1>9, <2>1, <2>2, <2>3
<1>15. ASSUME NEW k \in NETCONFIGS, MasterEnqueue(k)
       PROVE  RunCopies(j)' + SchedulerCopies(j)' <=
                    RunCopies(j) + SchedulerCopies(j)
  <2>1. PICK m \in NetconfigMessage :
            /\ m.srid = master.srid
            /\ netconfig_queue' =
                    [netconfig_queue EXCEPT ![k] = Append(@, m)]
    <3>1. [srid |-> master.srid, tstamp |-> master.tstamp] \in NetconfigMessage
      BY MasterFacts DEF NetconfigMessage, MasterState
    <3> QED BY <1>15, <3>1 DEF MasterEnqueue, Enqueue
  <2>2. /\ master.phase = "dispatching"
        /\ k \in master.todo
        /\ master'.phase = "dispatching"
        /\ master'.todo = master.todo \ {k}
        /\ UNCHANGED <<incoming, deferrers>>
    BY <1>15, MasterFacts DEF MasterEnqueue, MasterState
  <2>3. netconfig_queue \in [NETCONFIGS -> Seq(NetconfigMessage)]
    BY DEF TypeInv, TypeOK, QueuesTypeOK
  <2>4. UNCHANGED scheduler
    BY MasterSideFrame
  <2>5. DeferredCopies(j)' = DeferredCopies(j)
    BY <1>9, <2>2
  <2>6. CASE k # n
    <3>1. netconfig_queue'[n] = netconfig_queue[n]
      BY <1>2, <2>1, <2>3, <2>6
    <3>2. SchedulerCopies(j)' = SchedulerCopies(j)
      BY <1>1, <2>4, <3>1 DEF SchedulerCopies, SchedulerDone
    <3>3. MasterDone(j)' <=> MasterDone(j)
      BY <1>1, <2>2, <2>6 DEF MasterDone
    <3> QED BY <1>4, <1>5, <1>6, <1>7, <1>8, <2>2, <2>5, <3>2, <3>3
  <2>7. CASE k = n
    <3>1. /\ netconfig_queue'[n] = Append(netconfig_queue[n], m)
          /\ netconfig_queue[n] \in Seq(NetconfigMessage)
      BY <1>2, <2>1, <2>3, <2>7
    <3>2. MasterCopies(j) = all /\ MasterCopies(j)' = rest
      BY <1>1, <1>6, <1>7, <2>2, <2>7 DEF MasterDone
    <3>3. SchedulerDone(j) => netconfig_queue[n] # <<>>
      BY <1>1, <1>2 DEF SchedulerDone, TypeInv, BusyOnMessage
    <3>4. SchedulerDone(j) \in BOOLEAN
      BY <1>1, <1>2 DEF SchedulerDone, TypeInv, TypeOK, SchedulerTypeOK
    <3>5. SchedulerCopies(j)' = Messages(Left(netconfig_queue'[n],
                SchedulerDone(j)), NetconfigMessages(j.run))
      <4>1. SchedulerDone(j)' <=> SchedulerDone(j)
        BY <2>4 DEF SchedulerDone
      <4> QED BY <1>1, <4>1 DEF SchedulerCopies, Left
    <3>6. m \in NetconfigMessages(j.run) <=> master.srid.run = j.run
      BY <2>1 DEF NetconfigMessages
    <3>7. \/ /\ master.srid.run = j.run
             /\ SchedulerCopies(j)' = SchedulerCopies(j) + 1
          \/ /\ master.srid.run # j.run
             /\ SchedulerCopies(j)' = SchedulerCopies(j)
      BY <1>1, <3>1, <3>3, <3>4, <3>5, <3>6, LeftOfAppend
      DEF SchedulerCopies
    <3> QED BY <1>4, <1>5, <1>8, <2>2, <2>5, <3>2, <3>7
  <2> QED BY <2>6, <2>7
<1>16. CASE MasterAck
  <2>1. /\ master.phase # "idle"
        /\ MasterDone(j) /\ ~MasterDone(j)'
        /\ incoming' = Tail(incoming)
        /\ UNCHANGED <<deferrers, netconfig_queue>>
    BY <1>16 DEF MasterAck, MasterDone, Idle
  <2>2. MasterCopies(j) = rest /\ MasterCopies(j)' = rest
    BY <1>1, <1>3, <1>6, <2>1 DEF MasterCopies, Left
  <2> QED BY <1>4, <1>5, <1>8, <1>9, <2>1, <2>2
<1>17. CASE MasterFails
  <2>1. /\ master.phase # "idle"
        /\ ~MasterDone(j)'
        /\ UNCHANGED <<incoming, deferrers, netconfig_queue>>
        /\ failures' = failures + 1
    BY <1>17 DEF MasterFails, MasterDone, Idle, Fails, queueVars
  <2>2. MasterCopies(j) \in {all, rest} /\ MasterCopies(j)' = all
    BY <1>6, <1>7, <2>1
  <2> QED BY <1>4, <1>5, <1>8, <1>9, <2>1, <2>2
<1>18. ASSUME NEW d \in deferrers, DeferrerWakes(d)
       PROVE  RunCopies(j)' + SchedulerCopies(j)' <=
                    RunCopies(j) + SchedulerCopies(j)
  <2>1. PICK e \in RunMessage :
            e.srid = d.srid /\ incoming' = Append(incoming, e)
    <3>1. [srid |-> d.srid, attempt |-> d.attempt] \in RunMessage
      BY MasterFacts DEF RunMessage, Deferrer
    <3> QED BY <1>18, <3>1 DEF DeferrerWakes
  <2>2. /\ deferrers' = deferrers \ {d}
        /\ UNCHANGED <<netconfig_queue, master>>
    BY <1>18 DEF DeferrerWakes
  <2>3. /\ DeferredCopies(j)' \in Nat
        /\ DeferredCopies(j)' <= DeferredCopies(j)
        /\ d.srid.run = j.run => DeferredCopies(j)' = DeferredCopies(j) - 1
    BY <2>2, DeferrersChange
  <2>4. MasterDone(j) => incoming # <<>>
    BY MasterFacts DEF MasterDone
  <2>5. MasterDone(j) \in BOOLEAN /\ incoming \in Seq(RunMessage)
    BY MasterFacts DEF MasterDone
  <2>6. MasterCopies(j)' = Messages(Left(incoming', MasterDone(j)), R)
    <3>1. MasterDone(j)' <=> MasterDone(j)
      BY <2>2 DEF MasterDone
    <3> QED BY <1>1, <3>1 DEF MasterCopies, Left
  <2>7. e \in R <=> d.srid.run = j.run
    BY <1>1, <2>1 DEF RunMessages
  <2>8. /\ MasterCopies(j) \in Nat
        /\ \/ /\ d.srid.run = j.run
              /\ MasterCopies(j)' = MasterCopies(j) + 1
           \/ /\ d.srid.run # j.run
              /\ MasterCopies(j)' = MasterCopies(j)
    BY <1>1, <2>1, <2>4, <2>5, <2>6, <2>7, LeftOfAppend DEF MasterCopies
  <2> QED BY <1>8, <1>9, <2>2, <2>3, <2>8
<1>19. ASSUME NEW d \in deferrers, DeferrerDies(d)
       PROVE  RunCopies(j)' + SchedulerCopies(j)' <=
                    RunCopies(j) + SchedulerCopies(j)
  <2>1. /\ deferrers' = deferrers \ {d}
        /\ UNCHANGED <<incoming, netconfig_queue, master>>
    BY <1>19 DEF DeferrerDies, queueVars
  <2>2. /\ DeferredCopies(j)' \in Nat
        /\ DeferredCopies(j)' <= DeferredCopies(j)
    BY <2>1, DeferrersChange
  <2>3. MasterCopies(j)' = MasterCopies(j) /\ MasterCopies(j) \in Nat
    BY <2>1, CopiesAreNumbers DEF MasterCopies, MasterDone
  <2> QED BY <1>8, <1>9, <2>1, <2>2, <2>3
<1> QED
  BY <1>10, <1>11, <1>12, <1>13, <1>14, <1>15, <1>16, <1>17, <1>18, <1>19,
     MasterActions

(* A scheduler turns the message of a run into one copy of the job.          *)
LEMMA SchedulerSideCopies ==
    ASSUME TypeInv, AcceptedInv, NEW j \in Job, NEW nc \in NETCONFIGS,
           SchedulerSide(nc)
    PROVE  \/ SchedulerCopies(j)' + QueuedCopies(j)' <=
                    SchedulerCopies(j) + QueuedCopies(j)
           \/ /\ failures' = failures + 1
              /\ SchedulerCopies(j)' + QueuedCopies(j)' <=
                    SchedulerCopies(j) + QueuedCopies(j) + 1
<1>1. PICK n, o, R : /\ n = j.netconfig
                     /\ o = j.operating_system
                     /\ R = NetconfigMessages(j.run)
  OBVIOUS
<1>2. n \in NETCONFIGS /\ o \in OPERATING_SYSTEMS
  BY <1>1, JobFacts
<1>3. /\ SchedulerCopies(j) \in Nat
      /\ QueuedCopies(j) \in Nat
  BY CopiesAreNumbers
<1>4. UNCHANGED client_queue => QueuedCopies(j)' = QueuedCopies(j)
  BY SchedulerSideFrame DEF QueuedCopies, QueueDone
<1>5. nc # n => SchedulerCopies(j)' = SchedulerCopies(j)
  <2> SUFFICES ASSUME nc # n PROVE SchedulerCopies(j)' = SchedulerCopies(j)
    OBVIOUS
  <2>1. /\ netconfig_queue'[n] = netconfig_queue[n]
        /\ scheduler'[n] = scheduler[n]
    BY <1>2, SchedulerSideFrame
  <2> QED BY <1>1, <2>1 DEF SchedulerCopies, SchedulerDone
<1>6. /\ netconfig_queue[nc] \in Seq(NetconfigMessage)
      /\ netconfig_queue[nc] # <<>>
      /\ netconfig_queue \in [NETCONFIGS -> Seq(NetconfigMessage)]
      /\ scheduler \in [NETCONFIGS ->
                [busy : BOOLEAN, todo : SUBSET OPERATING_SYSTEMS]]
      /\ client_queue \in [OPERATING_SYSTEMS -> Seq(ClientMessage)]
  BY DEF SchedulerSide, SchedulerStep, SchedulerReceive, SchedulerEnqueue,
     SchedulerAck, SchedulerFails, TypeInv, TypeOK, QueuesTypeOK,
     SchedulerTypeOK, BusyOnMessage
<1>7. PICK h : h = Head(netconfig_queue[nc])
  OBVIOUS
<1>8. PICK all, rest : /\ all = Messages(netconfig_queue[nc], R)
                       /\ rest = Messages(Tail(netconfig_queue[nc]), R)
  OBVIOUS
<1>9. /\ all \in Nat
      /\ rest \in Nat
      /\ \/ h.srid.run = j.run /\ all = rest + 1
         \/ h.srid.run # j.run /\ all = rest
  <2>1. h \in NetconfigMessage
    BY <1>6, <1>7, RangeOfTail
  <2>2. h \in R <=> h.srid.run = j.run
    BY <1>1, <2>1 DEF NetconfigMessages
  <2> QED BY <1>6, <1>7, <1>8, <2>2, MessagesOfTail
<1>10. nc = n =>
        /\ SchedulerDone(j) => SchedulerCopies(j) = rest
        /\ ~SchedulerDone(j) => SchedulerCopies(j) = all
  BY <1>1, <1>8 DEF SchedulerCopies, Left
<1>11. nc = n /\ UNCHANGED netconfig_queue =>
        /\ SchedulerDone(j)' => SchedulerCopies(j)' = rest
        /\ ~SchedulerDone(j)' => SchedulerCopies(j)' = all
  BY <1>1, <1>8 DEF SchedulerCopies, Left
<1>12. CASE SchedulerReceive(nc)
  <2>1. /\ ~scheduler[nc].busy
        /\ UNCHANGED <<netconfig_queue, client_queue>>
    BY <1>12 DEF SchedulerReceive, queueVars
  <2>2. nc = n => SchedulerCopies(j) = all /\ SchedulerCopies(j)' \in {all, rest}
    BY <1>1, <1>10, <1>11, <2>1 DEF SchedulerDone
  <2> QED BY <1>3, <1>4, <1>5, <1>9, <2>1, <2>2
<1>13. ASSUME NEW k \in OPERATING_SYSTEMS, SchedulerEnqueue(nc, k)
       PROVE  SchedulerCopies(j)' + QueuedCopies(j)' <=
                    SchedulerCopies(j) + QueuedCopies(j)
  <2>1. PICK m \in ClientMessage :
            /\ m.srid = h.srid
            /\ m.netconfig = nc
            /\ client_queue' = [client_queue EXCEPT ![k] = Append(@, m)]
    <3>1. h \in NetconfigMessage
      BY <1>6, <1>7, RangeOfTail
    <3>2. [srid |-> h.srid, netconfig |-> nc, tstamp |-> h.tstamp]
                \in ClientMessage
      BY <3>1 DEF NetconfigMessage, ClientMessage
    <3> QED BY <1>7, <1>13, <3>2 DEF SchedulerEnqueue, Enqueue
  <2>2. /\ scheduler[nc].busy
        /\ k \in scheduler[nc].todo
        /\ scheduler'[nc].busy
        /\ scheduler'[nc].todo = scheduler[nc].todo \ {k}
        /\ UNCHANGED netconfig_queue
    BY <1>6, <1>13 DEF SchedulerEnqueue
  <2>3. JobOn(m, k) = j <=> h.srid.run = j.run /\ nc = n /\ k = o
    BY <1>1, <2>1 DEF JobOn, JobOf, Job, ResultMessage
  <2>4. CASE k # o
    <3>1. client_queue'[o] = client_queue[o]
      BY <1>2, <1>6, <2>1, <2>4
    <3>2. QueuedCopies(j)' = QueuedCopies(j)
      BY <1>1, <3>1, SchedulerSideFrame DEF QueuedCopies, QueueDone
    <3>3. nc = n => (SchedulerDone(j)' <=> SchedulerDone(j))
      BY <1>1, <2>2, <2>4 DEF SchedulerDone
    <3> QED BY <1>3, <1>5, <1>10, <1>11, <2>2, <3>2, <3>3
  <2>5. CASE k = o
    <3>1. /\ client_queue'[o] = Append(client_queue[o], m)
          /\ client_queue[o] \in Seq(ClientMessage)
      BY <1>2, <1>6, <2>1, <2>5
    <3>2. /\ QueueDone(o) \in BOOLEAN
          /\ QueueDone(o) => client_queue[o] # <<>>
      BY <1>2 DEF QueueDone, Inbox, TypeInv, TypeOK, ClientTypeOK,
         BusyOnMessage
    <3>3. QueuedCopies(j)' =
                Messages(Left(client_queue'[o], QueueDone(o)), JobMessages(j))
      <4>1. QueueDone(o)' <=> QueueDone(o)
        BY SchedulerSideFrame DEF QueueDone
      <4> QED BY <1>1, <4>1 DEF QueuedCopies, Left
    <3>4. m \in JobMessages(j) <=> h.srid.run = j.run /\ nc = n
      BY <1>1, <2>1, <2>3, <2>5 DEF JobMessages
    <3>5. \/ /\ h.srid.run = j.run /\ nc = n
             /\ QueuedCopies(j)' = QueuedCopies(j) + 1
          \/ /\ ~(h.srid.run = j.run /\ nc = n)
             /\ QueuedCopies(j)' = QueuedCopies(j)
      BY <1>1, <3>1, <3>2, <3>3, <3>4, LeftOfAppend DEF QueuedCopies
    <3>6. nc = n => SchedulerCopies(j) = all /\ SchedulerCopies(j)' = rest
      BY <1>1, <1>10, <1>11, <2>2, <2>5 DEF SchedulerDone
    <3> QED BY <1>3, <1>5, <1>9, <3>5, <3>6
  <2> QED BY <2>4, <2>5
<1>14. CASE SchedulerAck(nc)
  <2>1. /\ scheduler[nc].busy /\ scheduler[nc].todo = {}
        /\ ~scheduler'[nc].busy
        /\ netconfig_queue'[nc] = Tail(netconfig_queue[nc])
        /\ UNCHANGED client_queue
    BY <1>6, <1>14 DEF SchedulerAck, Acknowledge, SchedulerIdle
  <2>2. nc = n => SchedulerCopies(j) = rest /\ SchedulerCopies(j)' = rest
    BY <1>1, <1>8, <1>10, <2>1 DEF SchedulerCopies, SchedulerDone, Left
  <2> QED BY <1>3, <1>4, <1>5, <2>1, <2>2
<1>15. CASE SchedulerFails(nc)
  <2>1. /\ failures' = failures + 1
        /\ UNCHANGED <<netconfig_queue, client_queue>>
    BY <1>15 DEF SchedulerFails, Fails, queueVars
  <2>2. nc = n => /\ SchedulerCopies(j) \in {all, rest}
                  /\ SchedulerCopies(j)' \in {all, rest}
    BY <1>10, <1>11, <2>1
  <2> QED BY <1>3, <1>4, <1>5, <1>9, <2>1, <2>2
<1> QED
  BY <1>12, <1>13, <1>14, <1>15 DEF SchedulerSide, SchedulerStep

(* Only srmqproxy and srwebmq make rows and replies.                         *)
LEMMA ClientSideWebOnly ==
    ASSUME TypeInv, WebOnly, NEW o \in OPERATING_SYSTEMS, ClientSide(o)
    PROVE  WebOnly'
<1>1. \A k \in OPERATING_SYSTEMS \ {o} : /\ runs'[k] = runs[k]
                                         /\ response'[k] = response[k]
  BY ClientSideFrame
<1>2. /\ runs \in [OPERATING_SYSTEMS -> Seq(ClientMessage)]
      /\ response \in [OPERATING_SYSTEMS -> Seq(ClientMessage)]
  BY DEF TypeInv, TypeOK, ClientTypeOK
<1>3. o \notin WebClients => runs[o] = <<>> /\ response[o] = <<>>
  BY DEF WebOnly
<1>4. o \notin WebClients => runs'[o] = <<>> /\ response'[o] = <<>>
  BY <1>2, <1>3 DEF ClientSide, ClientSteps, WorkerStep, WorkerReceive,
     WorkerSkips, WorkerUploads, WorkerFailsToUpload, WorkerReturns,
     WorkerFails, WebWorkerDies, ProxyInsert, ProxyAck, ProxyFails, GetNext,
     ReplyLost
<1> QED BY <1>1, <1>4 DEF WebOnly

(* What a client uploads is a result of its own: it is a copy of j only if   *)
(* j was at the head of its queue.                                           *)
LEMMA UploadCopies ==
    ASSUME TypeInv, OneReply, NEW j \in Job, NEW o \in OPERATING_SYSTEMS,
           ClientSide(o)
    PROVE  /\ posted'[j] = posted[j]
           /\ ResultCopies(j) \in Nat
           /\ ~WorkerUploads(o) => ResultCopies(j)' = ResultCopies(j)
           /\ WorkerUploads(o) =>
                \/ /\ JobOn(Head(Inbox(o)), o) = j
                   /\ ResultCopies(j)' = ResultCopies(j) + 1
                \/ /\ JobOn(Head(Inbox(o)), o) # j
                   /\ ResultCopies(j)' = ResultCopies(j)
<1>1. UNCHANGED <<reporter, posted>>
  BY DEF ClientSide, OnlyClients, reporterVars
<1>2. /\ outgoing \in Seq(ResultMessage)
      /\ (reporter # "idle") \in BOOLEAN
      /\ reporter # "idle" => outgoing # <<>>
  BY DEF TypeInv, TypeOK, QueuesTypeOK, BusyOnMessage
<1>3. ResultCopies(j) \in Nat
  BY <1>2, LeftOfQueue DEF ResultCopies
<1>4. ASSUME ~WorkerUploads(o) PROVE ResultCopies(j)' = ResultCopies(j)
  <2>1. UNCHANGED outgoing
    BY <1>4 DEF ClientSide, ClientSteps, WorkerStep, WorkerReceive,
       WorkerSkips, WorkerFailsToUpload, WorkerReturns, WorkerFails,
       WebWorkerDies, ProxyInsert, ProxyAck, ProxyFails, GetNext, ReplyLost,
       queueVars
  <2> QED BY <1>1, <2>1 DEF ResultCopies
<1>5. ASSUME WorkerUploads(o)
      PROVE  \/ /\ JobOn(Head(Inbox(o)), o) = j
                /\ ResultCopies(j)' = ResultCopies(j) + 1
             \/ /\ JobOn(Head(Inbox(o)), o) # j
                /\ ResultCopies(j)' = ResultCopies(j)
  <2>1. PICK e : e = JobOn(Head(Inbox(o)), o)
    OBVIOUS
  <2>2. e \in ResultMessage
    <3>1. Head(Inbox(o)) \in OnClient(o)
      BY <1>5, InboxOnClient DEF WorkerUploads, TypeInv, BusyOnMessage
    <3> QED BY <2>1, <3>1, ClientJob DEF Job
  <2>3. outgoing' = Append(outgoing, e)
    BY <1>5, <2>1 DEF WorkerUploads
  <2>4. PICK busy, R : busy = (reporter # "idle") /\ R = {j}
    OBVIOUS
  <2>5. /\ ResultCopies(j) = Messages(Left(outgoing, busy), R)
        /\ ResultCopies(j)' = Messages(Left(Append(outgoing, e), busy), R)
    BY <1>1, <2>3, <2>4 DEF ResultCopies
  <2>6. busy \in BOOLEAN /\ (busy => outgoing # <<>>)
    BY <1>2, <2>4
  <2>7. /\ e \in R => ResultCopies(j)' = ResultCopies(j) + 1
        /\ e \notin R => ResultCopies(j)' = ResultCopies(j)
    BY <1>2, <2>2, <2>5, <2>6, LeftOfAppend
  <2> QED BY <2>1, <2>4, <2>7
<1> QED BY <1>1, <1>3, <1>4, <1>5

(* srmqproxy turns a message into a row, srwebmq a row into a reply, and the *)
(* worker a message or a reply into a result.                                *)
LEMMA ClientSideCopies ==
    ASSUME TypeInv, OneReply, AcceptedInv, WebOnly, NEW j \in Job,
           NEW o \in OPERATING_SYSTEMS, ClientSide(o)
    PROVE  \/ ClientCopies(j)' + ReportCopies(j)' <=
                    ClientCopies(j) + ReportCopies(j)
           \/ /\ failures' = failures + 1
              /\ ClientCopies(j)' + ReportCopies(j)' <=
                    ClientCopies(j) + ReportCopies(j) + 1
<1>1. /\ QueuedCopies(j) \in Nat
      /\ RowCopies(j) \in Nat
      /\ ReplyCopies(j) \in Nat
      /\ ResultCopies(j) \in Nat
      /\ posted[j] \in Nat
  BY CopiesAreNumbers
<1>2. posted'[j] = posted[j]
  BY UploadCopies
<1>3. ~WorkerUploads(o) => ReportCopies(j)' = ReportCopies(j)
  <2> SUFFICES ASSUME ~WorkerUploads(o)
               PROVE  ReportCopies(j)' = ReportCopies(j)
    OBVIOUS
  <2>1. ResultCopies(j)' = ResultCopies(j)
    BY UploadCopies
  <2> QED BY <1>2, <2>1 DEF ReportCopies
<1> HIDE DEF ClientSide
<1>4. CASE o # j.operating_system
  <2>1. PICK k : k = j.operating_system
    OBVIOUS
  <2>2. /\ client_queue'[k] = client_queue[k]
        /\ runs'[k] = runs[k]
        /\ response'[k] = response[k]
        /\ worker'[k] = worker[k]
        /\ proxy'[k] = proxy[k]
    BY <1>4, <2>1, ClientSideFrame, JobFacts
  <2>3. /\ QueuedCopies(j)' = QueuedCopies(j)
        /\ RowCopies(j)' = RowCopies(j)
        /\ ReplyCopies(j)' = ReplyCopies(j)
    BY <2>1, <2>2
    DEF QueuedCopies, RowCopies, ReplyCopies, QueueDone, ReplyDone
  <2>4. ClientCopies(j)' = ClientCopies(j)
    BY <2>3 DEF ClientCopies
  <2>5. ReportCopies(j)' = ReportCopies(j)
    <3>1. JobOn(Head(Inbox(o)), o) # j
      BY <1>4 DEF JobOn, JobOf
    <3>2. ResultCopies(j)' = ResultCopies(j)
      BY <3>1, UploadCopies
    <3> QED BY <1>2, <3>2 DEF ReportCopies
  <2>6. ClientCopies(j) + ReportCopies(j) \in Int
    BY <1>1 DEF ClientCopies, ReportCopies
  <2> QED BY <2>4, <2>5, <2>6
<1>5. CASE o = j.operating_system
  <2>1. PICK R : R = JobMessages(j)
    OBVIOUS
  <2>2. /\ client_queue[o] \in Seq(ClientMessage)
        /\ runs[o] \in Seq(ClientMessage)
        /\ response[o] \in Seq(ClientMessage)
    BY ClientJob
  <2>3. /\ client_queue \in [OPERATING_SYSTEMS -> Seq(ClientMessage)]
        /\ runs \in [OPERATING_SYSTEMS -> Seq(ClientMessage)]
        /\ response \in [OPERATING_SYSTEMS -> Seq(ClientMessage)]
        /\ worker \in [OPERATING_SYSTEMS -> {"idle", "running", "finished"}]
        /\ proxy \in [OPERATING_SYSTEMS -> BOOLEAN]
    BY DEF TypeInv, TypeOK, QueuesTypeOK, ClientTypeOK
  <2>4. \A m \in ClientMessage : m \in R <=> JobOn(m, o) = j
    BY <1>5, <2>1 DEF JobMessages
  <2>5. PICK qa, qr, pa, pr : /\ qa = Messages(client_queue[o], R)
                              /\ qr = Messages(Tail(client_queue[o]), R)
                              /\ pa = Messages(response[o], R)
                              /\ pr = Messages(Tail(response[o]), R)
    OBVIOUS
  <2>6. /\ QueuedCopies(j) = IF QueueDone(o) THEN qr ELSE qa
        /\ RowCopies(j) = Messages(runs[o], R)
        /\ ReplyCopies(j) = IF ReplyDone(o) THEN pr ELSE pa
    BY <1>5, <2>1, <2>5
    DEF QueuedCopies, RowCopies, ReplyCopies, Left
  <2>7. /\ client_queue'[o] = client_queue[o] =>
                QueuedCopies(j)' = IF QueueDone(o)' THEN qr ELSE qa
        /\ runs'[o] = runs[o] => RowCopies(j)' = RowCopies(j)
        /\ response'[o] = response[o] =>
                ReplyCopies(j)' = IF ReplyDone(o)' THEN pr ELSE pa
        /\ response'[o] = <<>> /\ ~ReplyDone(o)' => ReplyCopies(j)' = 0
    <3>1. RowCopies(j)' = Messages(runs'[o], R)
      BY <1>5, <2>1 DEF RowCopies, JobMessages, Messages, Slots
    <3>2. ReplyCopies(j)' =
                Messages(IF ReplyDone(o)' THEN Tail(response'[o])
                                          ELSE response'[o], R)
      BY <1>5, <2>1 DEF ReplyCopies, Left
    <3>3. QueuedCopies(j)' =
                Messages(IF QueueDone(o)' THEN Tail(client_queue'[o])
                                          ELSE client_queue'[o], R)
      BY <1>5, <2>1 DEF QueuedCopies, Left
    <3> QED BY <2>5, <2>6, <3>1, <3>2, <3>3, MessagesOfEmpty
  <2>8. /\ qa \in Nat
        /\ pa \in Nat
        /\ client_queue[o] # <<>> =>
              /\ qr \in Nat
              /\ \/ JobOn(Head(client_queue[o]), o) = j /\ qa = qr + 1
                 \/ JobOn(Head(client_queue[o]), o) # j /\ qa = qr
        /\ response[o] # <<>> =>
              /\ pr \in Nat
              /\ \/ JobOn(Head(response[o]), o) = j /\ pa = pr + 1
                 \/ JobOn(Head(response[o]), o) # j /\ pa = pr
    <3>1. qa \in Nat /\ pa \in Nat
      BY <2>2, <2>5, SlotsAreFinite DEF Messages
    <3>2. client_queue[o] # <<>> =>
              /\ qr \in Nat
              /\ \/ JobOn(Head(client_queue[o]), o) = j /\ qa = qr + 1
                 \/ JobOn(Head(client_queue[o]), o) # j /\ qa = qr
      BY <2>2, <2>4, <2>5, MessagesOfTail, RangeOfTail
    <3>3. response[o] # <<>> =>
              /\ pr \in Nat
              /\ \/ JobOn(Head(response[o]), o) = j /\ pa = pr + 1
                 \/ JobOn(Head(response[o]), o) # j /\ pa = pr
      BY <2>2, <2>4, <2>5, MessagesOfTail, RangeOfTail
    <3> QED BY <3>1, <3>2, <3>3
  <2>9. /\ worker[o] # "idle" => Inbox(o) # <<>>
        /\ proxy[o] => o \in WebClients /\ client_queue[o] # <<>>
        /\ o \notin WebClients => runs[o] = <<>> /\ response[o] = <<>>
    BY DEF TypeInv, BusyOnMessage, WebOnly
  <2>10. /\ QueueDone(o) => client_queue[o] # <<>>
         /\ ReplyDone(o) => response[o] # <<>>
    BY <2>9 DEF QueueDone, ReplyDone, Inbox
  <2>11. PICK c, p : /\ c = ReportCopies(j)
                     /\ p = ReportCopies(j)'
    OBVIOUS
  <2>12. c \in Nat /\ (~WorkerUploads(o) => p = c)
    BY <1>1, <1>3, <2>11 DEF ReportCopies
  <2>13. SUFFICES \/ ClientCopies(j)' + p <= ClientCopies(j) + c
                  \/ /\ failures' = failures + 1
                     /\ ClientCopies(j)' + p <= ClientCopies(j) + c + 1
    BY <2>11
  <2> USE DEF ClientCopies
  <2>14. ASSUME ~WorkerUploads(o),
                UNCHANGED <<client_queue, runs>>,
                QueueDone(o)' <=> QueueDone(o),
                \/ response'[o] = <<>> /\ ~ReplyDone(o)'
                \/ response'[o] = response[o] /\ (ReplyDone(o)' <=> ReplyDone(o))
         PROVE  ClientCopies(j)' + p <= ClientCopies(j) + c
    <3>1. /\ QueuedCopies(j)' = QueuedCopies(j)
          /\ RowCopies(j)' = RowCopies(j)
      BY <2>6, <2>7, <2>14
    <3>2. ReplyCopies(j)' = 0 \/ ReplyCopies(j)' = ReplyCopies(j)
      BY <2>6, <2>7, <2>14
    <3> QED BY <1>1, <2>12, <2>14, <3>1, <3>2
  <2>15. CASE WorkerReceive(o)
    <3>1. /\ UNCHANGED <<client_queue, runs, response, proxy, outgoing>>
          /\ worker[o] = "idle" /\ worker'[o] = "running"
      BY <2>3, <2>15 DEF WorkerReceive, queueVars
    <3>2. ~WorkerUploads(o)
      BY <3>1 DEF WorkerUploads
    <3> QED BY <2>14, <3>1, <3>2 DEF QueueDone, ReplyDone
  <2>16. CASE WorkerSkips(o)
    <3>1. /\ UNCHANGED <<client_queue, runs, worker, proxy>>
          /\ worker[o] = "idle"
          /\ response'[o] = <<>>
      BY <2>3, <2>16 DEF WorkerSkips, queueVars
    <3>2. ~WorkerUploads(o)
      BY <3>1 DEF WorkerUploads
    <3> QED BY <2>14, <3>1, <3>2 DEF QueueDone, ReplyDone
  <2>17. CASE WorkerUploads(o)
    <3>1. /\ UNCHANGED <<client_queue, runs, response, proxy>>
          /\ worker[o] = "running" /\ worker'[o] = "finished"
      BY <2>3, <2>17 DEF WorkerUploads
    <3>2. \/ /\ JobOn(Head(Inbox(o)), o) = j
             /\ p = c + 1
          \/ /\ JobOn(Head(Inbox(o)), o) # j
             /\ p = c
      BY <1>1, <1>2, <2>11, <2>17, UploadCopies DEF ReportCopies
    <3>3. CASE o \in WebClients
      <4>1. /\ QueueDone(o)' <=> QueueDone(o)
            /\ ~ReplyDone(o) /\ ReplyDone(o)'
            /\ Inbox(o) = response[o] /\ response[o] # <<>>
        BY <2>9, <3>1, <3>3 DEF QueueDone, ReplyDone, Inbox
      <4>2. /\ QueuedCopies(j)' = QueuedCopies(j)
            /\ RowCopies(j)' = RowCopies(j)
            /\ ReplyCopies(j) = pa /\ ReplyCopies(j)' = pr
        BY <2>6, <2>7, <3>1, <4>1
      <4> QED BY <1>1, <2>8, <2>12, <3>2, <4>1, <4>2
    <3>4. CASE o \notin WebClients
      <4>1. /\ ~QueueDone(o) /\ QueueDone(o)'
            /\ ~ReplyDone(o) /\ ~ReplyDone(o)'
            /\ Inbox(o) = client_queue[o] /\ client_queue[o] # <<>>
        BY <2>9, <3>1, <3>4 DEF QueueDone, ReplyDone, Inbox
      <4>2. /\ QueuedCopies(j) = qa /\ QueuedCopies(j)' = qr
            /\ RowCopies(j)' = RowCopies(j)
            /\ ReplyCopies(j)' = ReplyCopies(j)
        BY <2>6, <2>7, <3>1, <4>1
      <4> QED BY <1>1, <2>8, <2>12, <3>2, <4>1, <4>2
    <3> QED BY <3>3, <3>4
  <2>18. CASE WorkerFailsToUpload(o)
    <3>1. /\ UNCHANGED <<client_queue, runs, response, proxy, outgoing>>
          /\ worker[o] = "running" /\ worker'[o] = "finished"
      BY <2>3, <2>18 DEF WorkerFailsToUpload, queueVars
    <3>2. ~WorkerUploads(o)
      <4> SUFFICES ASSUME WorkerUploads(o) PROVE FALSE
        OBVIOUS
      <4>1. /\ Append(outgoing, JobOn(Head(Inbox(o)), o)) = outgoing
            /\ outgoing \in Seq(ResultMessage)
        BY <3>1 DEF WorkerUploads, TypeInv, TypeOK, QueuesTypeOK
      <4>2. JobOn(Head(Inbox(o)), o) \in ResultMessage
        BY <2>9, <3>1, InboxOnClient, ClientJob DEF Job
      <4>3. Len(outgoing) = Len(outgoing) + 1 /\ Len(outgoing) \in Nat
        BY <4>1, <4>2, Appended
      <4> QED BY <4>3
    <3>3. /\ QueuedCopies(j)' \in {QueuedCopies(j), qr}
          /\ RowCopies(j)' = RowCopies(j)
          /\ ReplyCopies(j)' \in {ReplyCopies(j), pr}
      BY <2>6, <2>7, <3>1 DEF QueueDone, ReplyDone
    <3>4. QueuedCopies(j)' <= QueuedCopies(j) /\ QueuedCopies(j)' \in Nat
      <4>1. CASE o \in WebClients
        <5>1. QueueDone(o)' <=> QueueDone(o)
          BY <3>1, <4>1 DEF QueueDone
        <5>2. QueuedCopies(j)' = QueuedCopies(j)
          BY <2>6, <2>7, <3>1, <5>1
        <5> QED BY <1>1, <5>2
      <4>2. CASE o \notin WebClients
        <5>1. ~QueueDone(o) /\ QueueDone(o)' /\ client_queue[o] # <<>>
          BY <2>9, <3>1, <4>2 DEF QueueDone, Inbox
        <5>2. QueuedCopies(j) = qa /\ QueuedCopies(j)' = qr
          BY <2>6, <2>7, <3>1, <5>1
        <5> QED BY <2>8, <5>1, <5>2
      <4> QED BY <4>1, <4>2
    <3>5. ReplyCopies(j)' <= ReplyCopies(j) /\ ReplyCopies(j)' \in Nat
      <4>1. CASE o \in WebClients
        <5>1. ~ReplyDone(o) /\ ReplyDone(o)' /\ response[o] # <<>>
          BY <2>9, <3>1, <4>1 DEF ReplyDone, Inbox
        <5>2. ReplyCopies(j) = pa /\ ReplyCopies(j)' = pr
          BY <2>6, <2>7, <3>1, <5>1
        <5> QED BY <2>8, <5>1, <5>2
      <4>2. CASE o \notin WebClients
        <5>1. ~ReplyDone(o) /\ ~ReplyDone(o)'
          BY <4>2 DEF ReplyDone
        <5>2. ReplyCopies(j)' = ReplyCopies(j)
          BY <2>6, <2>7, <3>1, <5>1
        <5> QED BY <1>1, <5>2
      <4> QED BY <4>1, <4>2
    <3> QED BY <1>1, <2>12, <3>2, <3>3, <3>4, <3>5
  <2>19. CASE WorkerReturns(o)
    <3>1. /\ UNCHANGED <<runs, proxy, outgoing>>
          /\ worker[o] = "finished" /\ worker'[o] = "idle"
          /\ Inbox(o) # <<>>
      BY <2>3, <2>9, <2>19 DEF WorkerReturns
    <3>2. ~WorkerUploads(o)
      BY <3>1 DEF WorkerUploads
    <3>3. CASE o \in WebClients
      <4>1. /\ UNCHANGED client_queue
            /\ response'[o] = <<>>
        BY <2>3, <2>19, <3>3 DEF WorkerReturns
      <4> QED BY <2>14, <3>1, <3>2, <3>3, <4>1 DEF QueueDone, ReplyDone
    <3>4. CASE o \notin WebClients
      <4>1. /\ client_queue'[o] = Tail(client_queue[o])
            /\ UNCHANGED response
        BY <2>3, <2>19, <3>4 DEF WorkerReturns, Acknowledge
      <4>2. /\ QueueDone(o) /\ ~QueueDone(o)'
            /\ ~ReplyDone(o) /\ ~ReplyDone(o)'
        BY <3>1, <3>4 DEF QueueDone, ReplyDone
      <4>3. QueuedCopies(j) = qr /\ QueuedCopies(j)' = qr
        BY <1>5, <2>1, <2>5, <2>6, <4>1, <4>2 DEF QueuedCopies, Left
      <4>4. /\ RowCopies(j)' = RowCopies(j)
            /\ ReplyCopies(j)' = ReplyCopies(j)
        BY <2>6, <2>7, <3>1, <4>1, <4>2
      <4> QED BY <1>1, <2>12, <3>2, <4>3, <4>4
    <3> QED BY <3>3, <3>4
  <2>20. CASE WorkerFails(o)
    <3>1. /\ UNCHANGED <<client_queue, runs, response, proxy, outgoing>>
          /\ o \notin WebClients
          /\ worker[o] # "idle" /\ worker'[o] = "idle"
          /\ failures' = failures + 1
          /\ client_queue[o] # <<>>
      BY <2>3, <2>9, <2>20 DEF WorkerFails, Fails, queueVars, Inbox
    <3>2. ~WorkerUploads(o)
      BY <2>3, <3>1 DEF WorkerUploads
    <3>3. /\ ~QueueDone(o)'
          /\ ~ReplyDone(o) /\ ~ReplyDone(o)'
      BY <3>1 DEF QueueDone, ReplyDone
    <3>4. /\ QueuedCopies(j)' = qa /\ QueuedCopies(j) \in {qa, qr}
          /\ RowCopies(j)' = RowCopies(j)
          /\ ReplyCopies(j)' = ReplyCopies(j)
      BY <2>6, <2>7, <3>1, <3>3
    <3>5. QueuedCopies(j)' \in Nat /\ QueuedCopies(j)' <= QueuedCopies(j) + 1
      BY <2>8, <3>1, <3>4
    <3> QED BY <1>1, <2>12, <3>1, <3>2, <3>4, <3>5
  <2>21. CASE WebWorkerDies(o)
    <3>1. /\ UNCHANGED <<client_queue, runs, proxy, outgoing>>
          /\ response[o] # <<>> /\ response'[o] = <<>>
          /\ worker'[o] = "idle"
      BY <2>3, <2>21 DEF WebWorkerDies, queueVars
    <3>2. o \in WebClients
      BY <2>9, <3>1
    <3>3. ~WorkerUploads(o)
      BY <2>3, <3>1 DEF WorkerUploads
    <3> QED BY <2>14, <3>1, <3>2, <3>3 DEF QueueDone, ReplyDone
  <2>22. CASE ProxyInsert(o)
    <3>1. /\ UNCHANGED <<client_queue, worker, response>>
          /\ o \in WebClients
          /\ ~proxy[o] /\ proxy'[o]
          /\ client_queue[o] # <<>>
          /\ runs'[o] = Append(runs[o], Head(client_queue[o]))
      BY <2>3, <2>22 DEF ProxyInsert, queueVars
    <3>2. p = c
      <4>1. UNCHANGED <<outgoing, reporter, posted>>
        BY <2>22, <1>2 DEF ProxyInsert, queueVars, ClientSide, OnlyClients,
           reporterVars
      <4> QED BY <2>11, <4>1 DEF ReportCopies, ResultCopies
    <3>3. /\ ~QueueDone(o) /\ QueueDone(o)'
          /\ ReplyDone(o)' <=> ReplyDone(o)
      BY <3>1 DEF QueueDone, ReplyDone
    <3>4. /\ QueuedCopies(j) = qa /\ QueuedCopies(j)' = qr
          /\ ReplyCopies(j)' = ReplyCopies(j)
      BY <2>6, <2>7, <3>1, <3>3
    <3>5. PICK h : h = Head(client_queue[o])
      OBVIOUS
    <3>6. h \in ClientMessage /\ (h \in R <=> JobOn(h, o) = j)
      BY <2>2, <2>4, <3>1, <3>5, RangeOfTail
    <3>7. RowCopies(j)' = Messages(Append(runs[o], h), R)
      BY <1>5, <2>1, <3>1, <3>5
      DEF RowCopies, JobMessages, Messages, Slots
    <3>8. \/ JobOn(h, o) = j /\ RowCopies(j)' = RowCopies(j) + 1
          \/ JobOn(h, o) # j /\ RowCopies(j)' = RowCopies(j)
      BY <2>2, <2>6, <3>6, <3>7, MessagesOfAppend
    <3> QED BY <1>1, <2>8, <2>12, <3>1, <3>2, <3>4, <3>5, <3>8
  <2>23. CASE ProxyAck(o)
    <3>1. /\ UNCHANGED <<runs, response, worker, outgoing>>
          /\ o \in WebClients
          /\ proxy[o] /\ ~proxy'[o]
          /\ client_queue'[o] = Tail(client_queue[o])
      BY <2>3, <2>9, <2>23 DEF ProxyAck, Acknowledge
    <3>2. ~WorkerUploads(o)
      BY <2>3, <2>23 DEF ProxyAck, WorkerUploads
    <3>3. /\ QueueDone(o) /\ ~QueueDone(o)'
          /\ ReplyDone(o)' <=> ReplyDone(o)
      BY <3>1 DEF QueueDone, ReplyDone
    <3>4. QueuedCopies(j) = qr /\ QueuedCopies(j)' = qr
      BY <1>5, <2>1, <2>5, <2>6, <3>1, <3>3 DEF QueuedCopies, Left
    <3>5. /\ RowCopies(j)' = RowCopies(j)
          /\ ReplyCopies(j)' = ReplyCopies(j)
      BY <2>6, <2>7, <3>1, <3>3
    <3> QED BY <1>1, <2>12, <3>2, <3>4, <3>5
  <2>24. CASE ProxyFails(o)
    <3>1. /\ UNCHANGED <<client_queue, runs, response, worker, outgoing>>
          /\ o \in WebClients /\ client_queue[o] # <<>>
          /\ ~proxy'[o]
          /\ failures' = failures + 1
      BY <2>3, <2>9, <2>24 DEF ProxyFails, Fails, queueVars
    <3>2. ~WorkerUploads(o)
      BY <2>3, <3>1 DEF WorkerUploads
    <3>3. /\ ~QueueDone(o)'
          /\ ReplyDone(o)' <=> ReplyDone(o)
      BY <3>1 DEF QueueDone, ReplyDone
    <3>4. /\ QueuedCopies(j)' = qa /\ QueuedCopies(j) \in {qa, qr}
          /\ RowCopies(j)' = RowCopies(j)
          /\ ReplyCopies(j)' = ReplyCopies(j)
      BY <2>6, <2>7, <3>1, <3>3
    <3>5. QueuedCopies(j)' \in Nat /\ QueuedCopies(j)' <= QueuedCopies(j) + 1
      BY <2>8, <3>1, <3>4
    <3> QED BY <1>1, <2>12, <3>1, <3>2, <3>4, <3>5
  <2>25. CASE GetNext(o) \/ ReplyLost(o)
    <3>1. /\ UNCHANGED <<client_queue, worker, proxy, outgoing>>
          /\ response[o] = <<>> /\ runs[o] # <<>>
          /\ runs'[o] = Tail(runs[o])
          /\ response'[o] \in {<<>>, <<Head(runs[o])>>}
      BY <2>3, <2>25 DEF GetNext, ReplyLost, queueVars
    <3>2. o \in WebClients /\ worker[o] = "idle"
      BY <2>9, <3>1 DEF Inbox
    <3>3. ~WorkerUploads(o)
      BY <3>2 DEF WorkerUploads
    <3>4. /\ QueueDone(o)' <=> QueueDone(o)
          /\ ~ReplyDone(o)'
      BY <3>1, <3>2 DEF QueueDone, ReplyDone
    <3>5. QueuedCopies(j)' = QueuedCopies(j)
      BY <2>6, <2>7, <3>1, <3>4
    <3>6. PICK h : h = Head(runs[o])
      OBVIOUS
    <3>7. h \in ClientMessage
      BY <2>2, <3>1, <3>6, RangeOfTail
    <3>8. /\ RowCopies(j)' \in Nat
          /\ h \in R => RowCopies(j) = RowCopies(j)' + 1
          /\ h \notin R => RowCopies(j) = RowCopies(j)'
      <4>1. RowCopies(j)' = Messages(Tail(runs[o]), R)
        BY <1>5, <2>1, <3>1 DEF RowCopies, JobMessages, Messages, Slots
      <4> QED BY <2>2, <2>6, <3>1, <3>6, <4>1, MessagesOfTail
    <3>9. /\ ReplyCopies(j)' \in {0, 1}
          /\ h \notin R => ReplyCopies(j)' = 0
      <4>1. PICK none : none = <<>> /\ none \in Seq(ClientMessage)
        BY EmptySeq
      <4>2. PICK one : one = <<h>>
        OBVIOUS
      <4>3. one = Append(none, h)
        BY <4>1, <4>2
      <4>4. /\ h \in R => Messages(one, R) = Messages(none, R) + 1
            /\ h \notin R => Messages(one, R) = Messages(none, R)
        BY <3>7, <4>1, <4>3, MessagesOfAppend
      <4>5. Messages(none, R) = 0
        BY <4>1, MessagesOfEmpty
      <4>6. response'[o] \in {none, one}
        BY <3>1, <3>6, <4>1, <4>2
      <4>7. ReplyCopies(j)' = Messages(response'[o], R)
        BY <1>5, <2>1, <3>4 DEF ReplyCopies, Left
      <4> QED BY <4>4, <4>5, <4>6, <4>7
    <3> QED BY <1>1, <2>12, <3>3, <3>5, <3>8, <3>9
  <2> QED
    BY <2>15, <2>16, <2>17, <2>18, <2>19, <2>20, <2>21, <2>22, <2>23, <2>24,
       <2>25 DEF ClientSide, ClientSteps, WorkerStep
<1> QED BY <1>4, <1>5

(* srreporter turns a result into a post.                                    *)
LEMMA ReporterSideCopies ==
    ASSUME TypeInv, AcceptedInv, NEW j \in Job, ReporterSide
    PROVE  \/ ReportCopies(j)' <= ReportCopies(j)
           \/ /\ failures' = failures + 1
              /\ ReportCopies(j)' <= ReportCopies(j) + 1
<1>1. PICK R, all, rest : /\ R = {j}
                          /\ all = Messages(outgoing, R)
                          /\ rest = Messages(Tail(outgoing), R)
  OBVIOUS
<1>2. /\ outgoing \in Seq(ResultMessage)
      /\ posted \in [Job -> Nat]
      /\ posted[j] \in Nat
      /\ reporter # "idle" => outgoing # <<>>
  BY DEF TypeInv, TypeOK, QueuesTypeOK, ReporterTypeOK, BusyOnMessage
<1>3. outgoing # <<>> =>
        /\ rest \in Nat
        /\ \/ Head(outgoing) = j /\ all = rest + 1
           \/ Head(outgoing) # j /\ all = rest
  BY <1>1, <1>2, MessagesOfTail
<1>4. all \in Nat
  BY <1>1, <1>2, SlotsAreFinite DEF Messages
<1>5. ResultCopies(j) = IF reporter = "idle" THEN all ELSE rest
  BY <1>1 DEF ResultCopies, Left
<1>6. outgoing' = outgoing =>
            ResultCopies(j)' = IF reporter' = "idle" THEN all ELSE rest
  BY <1>1 DEF ResultCopies, Left
<1> USE DEF ReportCopies
<1>7. CASE ReporterPosts
  <2>1. /\ UNCHANGED outgoing
        /\ outgoing # <<>>
        /\ reporter = "idle" /\ reporter' = "posted"
    BY <1>7 DEF ReporterPosts, queueVars
  <2>2. \/ Head(outgoing) = j /\ posted'[j] = posted[j] + 1
        \/ Head(outgoing) # j /\ posted'[j] = posted[j]
    BY <1>2, <1>7 DEF ReporterPosts
  <2>3. ResultCopies(j) = all /\ ResultCopies(j)' = rest
    BY <1>5, <1>6, <2>1
  <2> QED BY <1>2, <1>3, <1>4, <2>1, <2>2, <2>3
<1>8. CASE ReporterSaves
  <2>1. /\ UNCHANGED <<outgoing, posted>>
        /\ outgoing # <<>>
        /\ reporter # "idle" /\ reporter' # "idle"
    BY <1>2, <1>8 DEF ReporterSaves, queueVars
  <2>2. ResultCopies(j) = rest /\ ResultCopies(j)' = rest
    BY <1>5, <1>6, <2>1
  <2> QED BY <1>2, <1>3, <2>1, <2>2
<1>9. CASE ReporterAck
  <2>1. /\ UNCHANGED posted
        /\ outgoing # <<>> /\ outgoing' = Tail(outgoing)
        /\ reporter # "idle" /\ reporter' = "idle"
    BY <1>2, <1>9 DEF ReporterAck
  <2>2. ResultCopies(j) = rest /\ ResultCopies(j)' = rest
    BY <1>1, <1>5, <2>1 DEF ResultCopies, Left
  <2> QED BY <1>2, <1>3, <2>1, <2>2
<1>10. CASE ReporterFails
  <2>1. /\ UNCHANGED <<outgoing, posted>>
        /\ outgoing # <<>>
        /\ reporter # "idle" /\ reporter' = "idle"
        /\ failures' = failures + 1
    BY <1>2, <1>10 DEF ReporterFails, Fails, queueVars
  <2>2. ResultCopies(j) = rest /\ ResultCopies(j)' = all
    BY <1>5, <1>6, <2>1
  <2>3. all <= rest + 1
    BY <1>3, <1>4, <2>1
  <2> QED BY <1>2, <1>3, <1>4, <2>1, <2>2, <2>3
<1> QED
  BY <1>7, <1>8, <1>9, <1>10 DEF ReporterSide, ReporterStep

(* Only what was asked for is posted.                                        *)
PostedOwed == \A j \in Job : posted[j] > 0 => j.run \in accepted

LEMMA OwedIsAccepted ==
    ASSUME NEW j \in OwedJobs PROVE j.run \in accepted
BY DEF OwedJobs, JobsOf, JobOf

LEMMA NextPostedOwed ==
    ASSUME TypeInv, OwedInv, PostedOwed, [Next]_vars
    PROVE  PostedOwed'
<1>1. accepted \subseteq accepted'
  BY OwedGrows
<1>2. CASE UNCHANGED posted
  BY <1>1, <1>2 DEF PostedOwed
<1>3. CASE ReporterPosts
  <2>1. /\ outgoing \in Seq(ResultMessage)
        /\ posted \in [Job -> Nat]
    BY DEF TypeInv, TypeOK, QueuesTypeOK, ReporterTypeOK
  <2>2. PICK h : /\ h = Head(outgoing)
                 /\ outgoing # <<>>
                 /\ posted' = [posted EXCEPT ![h] = @ + 1]
    BY <1>3 DEF ReporterPosts
  <2>3. h \in OwedJobs
    BY <2>1, <2>2, RangeOfTail DEF OwedInv, ReportsOwed
  <2>4. h.run \in accepted
    BY <2>3, OwedIsAccepted
  <2> QED BY <1>1, <2>1, <2>2, <2>4 DEF PostedOwed
<1>4. CASE ReporterSide
  BY <1>2, <1>3, <1>4 DEF ReporterSide, ReporterStep, ReporterSaves,
     ReporterAck, ReporterFails
<1>5. UNCHANGED posted \/ ReporterSide
  BY StepSides DEF MasterSide, OnlyMaster, SchedulerSide, OnlySchedulers,
     ClientSide, OnlyClients, reporterVars, vars
<1> QED BY <1>2, <1>4, <1>5

(* There is nothing yet of a run that nobody asked for.                      *)
LEMMA NoneOf ==
    ASSUME NEW S, NEW s \in Seq(S), NEW done \in BOOLEAN, done => s # <<>>,
           NEW R, \A m \in Range(s) : m \notin R
    PROVE  Messages(Left(s, done), R) = 0 /\ Messages(s, R) = 0
<1>1. Slots(s, R \X {1}) = {}
  <2>1. \A i \in 1 .. Len(s) : s[i] \in Range(s)
    BY DEF Range
  <2> QED BY <2>1 DEF Slots
<1>2. Messages(s, R) = 0
  BY <1>1, FS_EmptySet DEF Messages
<1> QED BY <1>2, LeftOfQueue

LEMMA NotAskedFor ==
    ASSUME TypeInv, AcceptedInv, OwedInv, PostedOwed,
           NEW j \in Job, j.run \notin accepted
    PROVE  /\ MasterCopies(j) = 0
           /\ DeferredCopies(j) = 0
           /\ SchedulerCopies(j) = 0
           /\ ClientCopies(j) = 0
           /\ ReportCopies(j) = 0
<1>1. PICK n, o : n = j.netconfig /\ o = j.operating_system
  OBVIOUS
<1>2. n \in NETCONFIGS /\ o \in OPERATING_SYSTEMS
  BY <1>1, JobFacts
<1>3. MasterCopies(j) = 0
  <2>1. /\ MasterDone(j) \in BOOLEAN
        /\ MasterDone(j) => incoming # <<>>
        /\ incoming \in Seq(RunMessage)
    BY MasterFacts DEF MasterDone
  <2>2. \A m \in Range(incoming) : m \notin RunMessages(j.run)
    <3>1. \A i \in 1 .. Len(incoming) : incoming[i].srid.run # j.run
      BY DEF AcceptedInv, RunAt
    <3>2. DOMAIN incoming = 1 .. Len(incoming)
      BY <2>1
    <3> QED BY <3>1, <3>2 DEF RunMessages, Range
  <2> QED BY <2>1, <2>2, NoneOf DEF MasterCopies
<1>4. DeferredCopies(j) = 0
  <2>1. {d \in deferrers : d.srid.run = j.run} = {}
    BY DEF AcceptedInv
  <2> QED BY <2>1, FS_EmptySet DEF DeferredCopies
<1>5. SchedulerCopies(j) = 0
  <2>1. /\ netconfig_queue[n] \in Seq(NetconfigMessage)
        /\ SchedulerDone(j) \in BOOLEAN
        /\ SchedulerDone(j) => netconfig_queue[n] # <<>>
    BY <1>1, <1>2 DEF SchedulerDone, TypeInv, TypeOK, QueuesTypeOK,
       SchedulerTypeOK, BusyOnMessage
  <2>2. \A m \in Range(netconfig_queue[n]) : m \notin NetconfigMessages(j.run)
    BY <1>2 DEF OwedInv, RunsOwed, NetconfigMessages
  <2> QED BY <1>1, <2>1, <2>2, NoneOf DEF SchedulerCopies
<1>6. ClientCopies(j) = 0
  <2>1. /\ client_queue[o] \in Seq(ClientMessage)
        /\ runs[o] \in Seq(ClientMessage)
        /\ response[o] \in Seq(ClientMessage)
    BY <1>2, ClientJob
  <2>2. /\ QueueDone(o) \in BOOLEAN
        /\ QueueDone(o) => client_queue[o] # <<>>
        /\ ReplyDone(o) \in BOOLEAN
        /\ ReplyDone(o) => response[o] # <<>>
    BY <1>2 DEF QueueDone, ReplyDone, Inbox, TypeInv, TypeOK, ClientTypeOK,
       BusyOnMessage
  <2>3. \A m \in OnClient(o) : m \notin JobMessages(j)
    <3>1. \A m \in OnClient(o) : JobOn(m, o) # j
      BY <1>2, OwedIsAccepted DEF OwedInv, ClientsOwed
    <3> QED BY <1>1, <3>1 DEF JobMessages
  <2>4. QueuedCopies(j) = 0
    BY <1>1, <2>1, <2>2, <2>3, NoneOf DEF QueuedCopies, OnClient
  <2>5. RowCopies(j) = 0
    BY <1>1, <2>1, <2>2, <2>3, NoneOf DEF RowCopies, OnClient, Rows
  <2>6. ReplyCopies(j) = 0
    BY <1>1, <2>1, <2>2, <2>3, NoneOf DEF ReplyCopies, OnClient, Rows
  <2> QED BY <2>4, <2>5, <2>6 DEF ClientCopies
<1>7. ReportCopies(j) = 0
  <2>1. PICK busy, R : busy = (reporter # "idle") /\ R = {j}
    OBVIOUS
  <2>2. /\ outgoing \in Seq(ResultMessage)
        /\ busy \in BOOLEAN
        /\ busy => outgoing # <<>>
    BY <2>1 DEF TypeInv, TypeOK, QueuesTypeOK, BusyOnMessage
  <2>3. \A m \in Range(outgoing) : m \notin R
    BY <2>1, OwedIsAccepted DEF OwedInv, ReportsOwed
  <2>4. ResultCopies(j) = 0
    BY <2>1, <2>2, <2>3, NoneOf DEF ResultCopies
  <2>5. posted[j] = 0
    BY DEF PostedOwed, TypeInv, TypeOK, ReporterTypeOK
  <2> QED BY <2>4, <2>5 DEF ReportCopies
<1> QED BY <1>3, <1>4, <1>5, <1>6, <1>7

(* A run is put on the empty end of the pipeline once.                       *)
LEMMA SubmitCopies ==
    ASSUME TypeInv, AcceptedInv, OwedInv, PostedOwed, NEW j \in Job,
           MasterSide, NEW r \in Requests, Submit(r)
    PROVE  /\ DeferredCopies(j)' = DeferredCopies(j)
           /\ SchedulerCopies(j)' = SchedulerCopies(j)
           /\ \/ MasterCopies(j)' = MasterCopies(j)
              \/ j.run \notin accepted /\ MasterCopies(j)' = 1
<1>1. PICK m \in RunMessage : /\ m.srid.run = r
                              /\ incoming' = Append(incoming, m)
  <2>1. [srid |-> FirstSrid(r), attempt |-> 1] \in RunMessage
    BY DEF RunMessage, FirstSrid, Srid
  <2> QED BY <2>1 DEF Submit, FirstSrid
<1>2. UNCHANGED <<netconfig_queue, scheduler, master, deferrers>>
  BY MasterSideFrame DEF Submit
<1>3. /\ DeferredCopies(j)' = DeferredCopies(j)
      /\ SchedulerCopies(j)' = SchedulerCopies(j)
  BY <1>2 DEF DeferredCopies, SchedulerCopies, SchedulerDone
<1>4. PICK R, done : R = RunMessages(j.run) /\ done = MasterDone(j)
  OBVIOUS
<1>5. /\ MasterCopies(j) = Messages(Left(incoming, done), R)
      /\ MasterCopies(j)' = Messages(Left(Append(incoming, m), done), R)
  <2>1. MasterDone(j)' <=> MasterDone(j)
    BY <1>2 DEF MasterDone
  <2> QED BY <1>1, <1>4, <2>1 DEF MasterCopies, Left
<1>6. /\ incoming \in Seq(RunMessage)
      /\ done \in BOOLEAN
      /\ done => incoming # <<>>
  BY <1>4, MasterFacts DEF MasterDone
<1>7. /\ m \in R => MasterCopies(j)' = MasterCopies(j) + 1
      /\ m \notin R => MasterCopies(j)' = MasterCopies(j)
  BY <1>1, <1>5, <1>6, LeftOfAppend
<1>8. m \in R <=> j.run = r
  BY <1>1, <1>4 DEF RunMessages
<1>9. r \notin accepted
  BY DEF Submit
<1>10. CASE j.run = r
  <2>1. MasterCopies(j) = 0
    BY <1>9, <1>10, NotAskedFor
  <2> QED BY <1>3, <1>7, <1>8, <1>9, <1>10, <2>1
<1>11. CASE j.run # r
  BY <1>3, <1>7, <1>8, <1>11
<1> QED BY <1>10, <1>11

CountsAreNumbers ==
    \A j \in Job :
        /\ RunCopies(j) \in Nat
        /\ SchedulerCopies(j) \in Nat
        /\ ClientCopies(j) \in Nat
        /\ ReportCopies(j) \in Nat
        /\ QueuedCopies(j) \in Nat
        /\ RowCopies(j) + ReplyCopies(j) \in Nat
        /\ ClientCopies(j) = QueuedCopies(j) + (RowCopies(j) + ReplyCopies(j))

LEMMA AllNumbers == TypeInv /\ AcceptedInv => CountsAreNumbers
BY CopiesAreNumbers
DEF CountsAreNumbers, RunCopies, ClientCopies, ReportCopies

LEMMA NumbersNext ==
    TypeInv /\ AcceptedInv /\ [Next]_vars => CountsAreNumbers'
<1>1. TypeInv /\ AcceptedInv /\ [Next]_vars => TypeInv' /\ AcceptedInv'
  BY NextTypeInv, NextAcceptedInv
<1>2. TypeInv' /\ AcceptedInv' => CountsAreNumbers'
  BY AllNumbers, PTL
<1> QED BY <1>1, <1>2

(* No step makes a copy, but for the first of a run and the redelivery of a  *)
(* message.                                                                  *)
LEMMA NoCopyIsMade ==
    ASSUME TypeInv, OneReply, AcceptedInv, OwedInv, PostedOwed, WebOnly,
           [Next]_vars, NEW j \in Job
    PROVE  \/ Copies(j)' <= Copies(j)
           \/ failures' = failures + 1 /\ Copies(j)' <= Copies(j) + 1
           \/ Copies(j)' <= 1
<1>1. PICK a, b, c, d : /\ a = RunCopies(j)
                        /\ b = SchedulerCopies(j)
                        /\ c = ClientCopies(j)
                        /\ d = ReportCopies(j)
  OBVIOUS
<1>2. PICK a1, b1, c1, d1 : /\ a1 = RunCopies(j)'
                            /\ b1 = SchedulerCopies(j)'
                            /\ c1 = ClientCopies(j)'
                            /\ d1 = ReportCopies(j)'
  OBVIOUS
<1>3. /\ a \in Nat /\ b \in Nat /\ c \in Nat /\ d \in Nat
      /\ a1 \in Nat /\ b1 \in Nat /\ c1 \in Nat /\ d1 \in Nat
  BY <1>1, <1>2, AllNumbers, NumbersNext DEF CountsAreNumbers
<1>4. SUFFICES \/ a1 + b1 + c1 + d1 <= a + b + c + d
               \/ /\ failures' = failures + 1
                  /\ a1 + b1 + c1 + d1 <= a + b + c + d + 1
               \/ a1 + b1 + c1 + d1 <= 1
  BY <1>1, <1>2 DEF Copies
<1>5. CASE MasterSide
  <2>1. UNCHANGED <<client_queue, outgoing, worker, proxy, runs, response,
                    reporter, posted>>
    BY <1>5, MasterSideFrame DEF MasterSide, OnlyMaster, reporterVars
  <2>2. c1 = c /\ d1 = d
    BY <1>1, <1>2, <2>1 DEF ClientCopies, QueuedCopies, RowCopies,
       ReplyCopies, ReportCopies, ResultCopies, QueueDone, ReplyDone
  <2>3. CASE ~ \E r \in Requests : Submit(r)
    <3>1. \/ a1 + b1 <= a + b
          \/ failures' = failures + 1 /\ a1 + b1 <= a + b + 1
      BY <1>1, <1>2, <1>5, <2>3, MasterSideCopies
    <3> QED BY <1>3, <2>2, <3>1
  <2>4. ASSUME NEW r \in Requests, Submit(r)
        PROVE  a1 + b1 + c1 + d1 <= a + b + c + d \/ a1 + b1 + c1 + d1 <= 1
    <3>1. b1 = b
      BY <1>1, <1>2, <1>5, <2>4, SubmitCopies
    <3>2. a1 = a \/ (j.run \notin accepted /\ a1 = 1)
      <4>1. DeferredCopies(j)' = DeferredCopies(j)
        BY <1>5, <2>4, SubmitCopies
      <4>2. CASE MasterCopies(j)' = MasterCopies(j)
        BY <1>1, <1>2, <4>1, <4>2 DEF RunCopies
      <4>3. CASE j.run \notin accepted /\ MasterCopies(j)' = 1
        <5>1. DeferredCopies(j) = 0
          BY <4>3, NotAskedFor
        <5> QED BY <1>2, <4>1, <4>3, <5>1 DEF RunCopies
      <4> QED BY <1>5, <2>4, <4>2, <4>3, SubmitCopies
    <3>3. j.run \notin accepted => b = 0 /\ c = 0 /\ d = 0
      BY <1>1, NotAskedFor
    <3> QED BY <1>3, <2>2, <3>1, <3>2, <3>3
  <2> QED BY <2>3, <2>4
<1>6. ASSUME NEW nc \in NETCONFIGS, SchedulerSide(nc)
      PROVE  \/ a1 + b1 + c1 + d1 <= a + b + c + d
             \/ /\ failures' = failures + 1
                /\ a1 + b1 + c1 + d1 <= a + b + c + d + 1
  <2>1. UNCHANGED <<incoming, outgoing, master, deferrers, worker, proxy,
                    runs, response, reporter, posted>>
    BY <1>6, SchedulerSideFrame
    DEF SchedulerSide, OnlySchedulers, reporterVars
  <2>2. a1 = a /\ d1 = d
    BY <1>1, <1>2, <2>1 DEF RunCopies, MasterCopies, MasterDone,
       DeferredCopies, ReportCopies, ResultCopies
  <2>3. PICK q, q1, w : /\ q = QueuedCopies(j)
                        /\ q1 = QueuedCopies(j)'
                        /\ w = RowCopies(j) + ReplyCopies(j)
    OBVIOUS
  <2>4. /\ q \in Nat /\ q1 \in Nat /\ w \in Nat
        /\ c = q + w
        /\ c1 = q1 + w
    <3>1. RowCopies(j)' + ReplyCopies(j)' = w
      BY <2>1, <2>3 DEF RowCopies, ReplyCopies, ReplyDone
    <3> QED
      BY <1>1, <1>2, <2>3, <3>1, AllNumbers, NumbersNext DEF CountsAreNumbers
  <2>5. \/ b1 + q1 <= b + q
        \/ failures' = failures + 1 /\ b1 + q1 <= b + q + 1
    BY <1>1, <1>2, <1>6, <2>3, SchedulerSideCopies
  <2>6. \/ b1 + c1 <= b + c
        \/ failures' = failures + 1 /\ b1 + c1 <= b + c + 1
    BY <1>3, <2>4, <2>5
  <2> QED BY <1>3, <2>2, <2>6
<1>7. ASSUME NEW o \in OPERATING_SYSTEMS, ClientSide(o)
      PROVE  \/ a1 + b1 + c1 + d1 <= a + b + c + d
             \/ /\ failures' = failures + 1
                /\ a1 + b1 + c1 + d1 <= a + b + c + d + 1
  <2>1. UNCHANGED <<incoming, netconfig_queue, master, deferrers, scheduler>>
    BY <1>7, ClientSideFrame
  <2>2. a1 = a /\ b1 = b
    BY <1>1, <1>2, <2>1 DEF RunCopies, MasterCopies, MasterDone,
       DeferredCopies, SchedulerCopies, SchedulerDone
  <2>3. \/ c1 + d1 <= c + d
        \/ failures' = failures + 1 /\ c1 + d1 <= c + d + 1
    BY <1>1, <1>2, <1>7, ClientSideCopies
  <2> QED BY <1>3, <2>2, <2>3
<1>8. CASE ReporterSide
  <2>1. UNCHANGED <<incoming, netconfig_queue, client_queue, master,
                    deferrers, scheduler, worker, proxy, runs, response>>
    BY <1>8, ReporterSideFrame
  <2>2. a1 = a /\ b1 = b /\ c1 = c
    BY <1>1, <1>2, <2>1 DEF RunCopies, MasterCopies, MasterDone,
       DeferredCopies, SchedulerCopies, SchedulerDone, ClientCopies,
       QueuedCopies, RowCopies, ReplyCopies, QueueDone, ReplyDone
  <2>3. \/ d1 <= d
        \/ failures' = failures + 1 /\ d1 <= d + 1
    BY <1>1, <1>2, <1>8, ReporterSideCopies
  <2> QED BY <1>3, <2>2, <2>3
<1>9. CASE UNCHANGED vars
  <2>1. a1 = a /\ b1 = b /\ c1 = c /\ d1 = d
    BY <1>1, <1>2, <1>9 DEF vars, queueVars, masterVars, clientVars,
       reporterVars, RunCopies, MasterCopies, MasterDone, DeferredCopies,
       SchedulerCopies, SchedulerDone, ClientCopies, QueuedCopies,
       RowCopies, ReplyCopies, QueueDone, ReplyDone, ReportCopies,
       ResultCopies
  <2> QED BY <1>3, <2>1
<1> QED BY <1>5, <1>6, <1>7, <1>8, <1>9, StepSides

LEMMA NextWebOnly ==
    ASSUME TypeInv, WebOnly, [Next]_vars PROVE WebOnly'
<1>1. CASE UNCHANGED <<runs, response>>
  BY <1>1 DEF WebOnly
<1>2. CASE MasterSide
  BY <1>1, <1>2, MasterSideFrame
<1>3. ASSUME NEW nc \in NETCONFIGS, SchedulerSide(nc) PROVE WebOnly'
  BY <1>1, <1>3, SchedulerSideFrame
<1>4. ASSUME NEW o \in OPERATING_SYSTEMS, ClientSide(o) PROVE WebOnly'
  BY <1>4, ClientSideWebOnly
<1>5. CASE ReporterSide
  BY <1>1, <1>5, ReporterSideFrame
<1>6. CASE UNCHANGED vars
  BY <1>1, <1>6 DEF vars, clientVars
<1> QED BY <1>2, <1>3, <1>4, <1>5, <1>6, StepSides

LEMMA NextCopiesInv ==
    ASSUME TypeInv, OneReply, AcceptedInv, OwedInv, PostedOwed, CopiesInv,
           [Next]_vars
    PROVE  CopiesInv'
<1>1. WebOnly /\ WebOnly'
  BY NextWebOnly DEF CopiesInv
<1>2. ASSUME NEW j \in Job PROVE Copies(j)' <= 1 + failures'
  <2>1. PICK n, n1 : n = Copies(j) /\ n1 = Copies(j)'
    OBVIOUS
  <2>2. n \in Nat /\ n1 \in Nat
    BY <2>1, AllNumbers, NumbersNext DEF Copies, CountsAreNumbers
  <2>3. failures \in Nat /\ failures' \in Nat /\ failures <= failures'
    BY MasterFacts, FailuresCounted
  <2>4. n <= 1 + failures
    BY <2>1 DEF CopiesInv
  <2>5. \/ n1 <= n
        \/ failures' = failures + 1 /\ n1 <= n + 1
        \/ n1 <= 1
    BY <1>1, <2>1, NoCopyIsMade
  <2> QED BY <2>1, <2>2, <2>3, <2>4, <2>5
<1> QED BY <1>1, <1>2 DEF CopiesInv

LEMMA InitCopiesInv == Init => PostedOwed /\ CopiesInv
<1> SUFFICES ASSUME Init PROVE PostedOwed /\ CopiesInv
  OBVIOUS
<1>1. TypeInv /\ AcceptedInv /\ OwedInv
  BY InitTypeInv, InitAcceptedInv, InitOwedInv
<1>2. PostedOwed
  BY DEF Init, ReporterInit, PostedOwed
<1>3. WebOnly
  BY DEF Init, ClientInit, WebOnly
<1>4. accepted = {} /\ failures = 0
  BY DEF Init, MasterInit, QueuesInit
<1>5. ASSUME NEW j \in Job PROVE Copies(j) = 0
  BY <1>1, <1>2, <1>4, NotAskedFor DEF Copies, RunCopies
<1> QED BY <1>2, <1>3, <1>4, <1>5 DEF CopiesInv

(* The data of a job goes to the graphs once, and at most once more for each *)
(* message that was delivered again, whichever of the five queues it was on  *)
(* and however srmaster, its deferrers and the clients interleave.           *)
THEOREM CopiesPerFailure == Spec => []OneCopyPerFailure
<1>1. TypeInv /\ AcceptedInv /\ CopiesInv => OneCopyPerFailure
  <2> SUFFICES ASSUME TypeInv, AcceptedInv, CopiesInv, NEW j \in Job
               PROVE  posted[j] <= 1 + failures
    BY DEF OneCopyPerFailure
  <2>1. failures \in Nat
    BY MasterFacts
  <2>2. /\ Copies(j) <= 1 + failures
        /\ RunCopies(j) \in Nat
        /\ SchedulerCopies(j) \in Nat
        /\ ClientCopies(j) \in Nat
        /\ ResultCopies(j) \in Nat
        /\ posted[j] \in Nat
    BY CopiesAreNumbers DEF CopiesInv, RunCopies, ClientCopies
  <2> QED BY <2>1, <2>2 DEF Copies, ReportCopies
<1>2. Init => OneReply
  BY InitOneReply
<1>3. TypeInv /\ OneReply /\ AcceptedInv /\ OwedInv /\ PostedOwed /\ CopiesInv
        /\ [Next]_vars
        => OneReply' /\ AcceptedInv' /\ OwedInv' /\ PostedOwed' /\ CopiesInv'
  BY NextOneReply, NextAcceptedInv, NextOwedInv, NextPostedOwed,
     NextCopiesInv
<1> QED
  BY <1>1, <1>2, <1>3, InitAcceptedInv, InitOwedInv, InitCopiesInv,
     TypeInvHolds, PTL DEF Spec
-----------------------------------------------------------------------------
(* Attempts.  What srcloner may still run for a run: a message or a deferrer *)
(* is worth its own attempt and those after it, and the message at the head  *)
(* loses its own when srcloner starts and the rest when srcloner succeeds or *)
(* gives up.                                                                 *)
Tries(r) ==
    {x \in RunMessage \X (1 .. Attempts) :
        x[1].srid.run = r /\ x[1].attempt <= x[2]}

QueuedTries(r) ==
    Cardinality(Slots(Left(incoming, master.phase # "idle"), Tries(r)))

RunningTries(r) ==
    IF master.phase = "cloning" /\ master.srid.run = r
    THEN Attempts - Head(incoming).attempt ELSE 0

DeferredTries(r) ==
    Cardinality({x \in deferrers \X (1 .. Attempts) :
                    x[1].srid.run = r /\ x[1].attempt <= x[2]})

TriesLeft(r) == QueuedTries(r) + RunningTries(r) + DeferredTries(r)

BudgetInv ==
    \A r \in Requests : clones[r] + TriesLeft(r) <= Attempts * (1 + failures)

LEMMA TriesOfMessage ==
    ASSUME NEW m \in RunMessage, m.attempt \in 1 .. Attempts, NEW r
    PROVE  \/ /\ m.srid.run = r
              /\ Cardinality(Of(m, Tries(r))) = Attempts - m.attempt + 1
           \/ /\ m.srid.run # r
              /\ Cardinality(Of(m, Tries(r))) = 0
<1>1. Attempts \in Nat \ {0}
  BY AttemptsFacts
<1>2. CASE m.srid.run = r
  <2>1. Of(m, Tries(r)) = m.attempt .. Attempts
    BY <1>1, <1>2 DEF Of, Tries
  <2>2. Cardinality(m.attempt .. Attempts) = Attempts - m.attempt + 1
    BY <1>1, FS_Interval
  <2> QED BY <1>2, <2>1, <2>2
<1>3. CASE m.srid.run # r
  <2>1. Of(m, Tries(r)) = {}
    BY <1>3 DEF Of, Tries
  <2> QED BY <1>3, <2>1, FS_EmptySet
<1> QED BY <1>2, <1>3

LEMMA DeferredTriesChange ==
    ASSUME TypeInv, AcceptedInv, NEW r, NEW d, d.attempt \in 1 .. Attempts
    PROVE  /\ DeferredTries(r) \in Nat
           /\ deferrers' = deferrers \union {d} =>
                /\ DeferredTries(r)' \in Nat
                /\ DeferredTries(r)' <=
                        DeferredTries(r) + (Attempts - d.attempt + 1)
                /\ d.srid.run # r => DeferredTries(r)' = DeferredTries(r)
           /\ d \in deferrers /\ deferrers' = deferrers \ {d} =>
                /\ DeferredTries(r)' \in Nat
                /\ DeferredTries(r)' <= DeferredTries(r)
                /\ d.srid.run = r =>
                        DeferredTries(r) =
                            DeferredTries(r)' + (Attempts - d.attempt + 1)
<1>1. Attempts \in Nat \ {0}
  BY AttemptsFacts
<1>2. PICK D, E, T :
        /\ D = {x \in deferrers \X (1 .. Attempts) :
                    x[1].srid.run = r /\ x[1].attempt <= x[2]}
        /\ E = {x \in deferrers' \X (1 .. Attempts) :
                    x[1].srid.run = r /\ x[1].attempt <= x[2]}
        /\ T = {d} \X (d.attempt .. Attempts)
  OBVIOUS
<1>3. /\ DeferredTries(r) = Cardinality(D)
      /\ DeferredTries(r)' = Cardinality(E)
  BY <1>2 DEF DeferredTries
<1>4. IsFiniteSet(D) /\ Cardinality(D) \in Nat
  <2>1. IsFiniteSet(1 .. Attempts)
    BY <1>1, FS_Interval
  <2>2. IsFiniteSet(deferrers \X (1 .. Attempts))
    BY <2>1, FS_Product DEF AcceptedInv
  <2> QED BY <1>2, <2>2, FS_Subset, FS_CardinalityType
<1>5. PICK w \in Nat : w = Attempts - d.attempt + 1
  BY <1>1
<1>6. IsFiniteSet(T) /\ Cardinality(T) = w
  <2>1. /\ IsFiniteSet(d.attempt .. Attempts)
        /\ Cardinality(d.attempt .. Attempts) = w
    <3>1. PICK k \in 1 .. Attempts : k = d.attempt
      OBVIOUS
    <3>2. /\ IsFiniteSet(k .. Attempts)
          /\ Cardinality(k .. Attempts) = Attempts - k + 1
      BY <1>1, FS_Interval
    <3> QED BY <1>5, <3>1, <3>2
  <2>2. IsFiniteSet({d}) /\ Cardinality({d}) = 1
    BY FS_Singleton
  <2>3. IsFiniteSet(T) /\ Cardinality(T) = 1 * w
    BY <1>2, <2>1, <2>2, FS_Product
  <2> QED BY <2>3
<1>7. /\ IsFiniteSet(D \union T)
      /\ Cardinality(D \union T) \in Nat
      /\ Cardinality(D \union T) <= Cardinality(D) + w
  <2>1. /\ IsFiniteSet(D \union T)
        /\ Cardinality(D \union T) =
                Cardinality(D) + w - Cardinality(D \intersect T)
    BY <1>4, <1>6, FS_Union
  <2>2. Cardinality(D \intersect T) \in Nat
    BY <1>4, FS_Subset, FS_CardinalityType
  <2>3. Cardinality(D \union T) \in Nat
    BY <2>1, FS_CardinalityType
  <2> QED BY <1>4, <2>1, <2>2, <2>3
<1>8. ASSUME deferrers' = deferrers \union {d}
      PROVE  /\ Cardinality(E) \in Nat
             /\ Cardinality(E) <= Cardinality(D) + w
             /\ d.srid.run # r => E = D
  <2>1. E \subseteq D \union T
    BY <1>1, <1>2, <1>8
  <2>2. /\ Cardinality(E) \in Nat
        /\ Cardinality(E) <= Cardinality(D \union T)
    BY <1>7, <2>1, FS_Subset, FS_CardinalityType
  <2>3. d.srid.run # r => E = D
    BY <1>2, <1>8
  <2> QED BY <1>4, <1>7, <2>2, <2>3
<1>9. ASSUME d \in deferrers, deferrers' = deferrers \ {d}
      PROVE  /\ Cardinality(E) \in Nat
             /\ Cardinality(E) <= Cardinality(D)
             /\ d.srid.run = r => Cardinality(D) = Cardinality(E) + w
  <2>1. E \subseteq D
    BY <1>2, <1>9
  <2>2. /\ IsFiniteSet(E)
        /\ Cardinality(E) \in Nat
        /\ Cardinality(E) <= Cardinality(D)
    BY <1>4, <2>1, FS_Subset, FS_CardinalityType
  <2>3. ASSUME d.srid.run = r PROVE Cardinality(D) = Cardinality(E) + w
    <3>1. T \subseteq D
      BY <1>1, <1>2, <1>9, <2>3
    <3>2. D \subseteq E \union T
      BY <1>1, <1>2, <1>9
    <3>3. D = E \union T /\ E \intersect T = {}
      <4>1. E \intersect T = {}
        BY <1>2, <1>9
      <4> QED BY <2>1, <3>1, <3>2, <4>1
    <3>4. Cardinality(E \union T) =
                Cardinality(E) + w - Cardinality(E \intersect T)
      BY <1>6, <2>2, FS_Union
    <3>5. Cardinality(E \intersect T) = 0
      BY <3>3, FS_EmptySet
    <3>6. Cardinality(D) = Cardinality(E \union T)
      BY <3>3
    <3> QED BY <2>2, <3>4, <3>5, <3>6
  <2> QED BY <2>2, <2>3
<1> QED BY <1>3, <1>4, <1>5, <1>8, <1>9

Budget(r) == clones[r] + TriesLeft(r)

(* What is left for run r: the queue without its head, the head, the rest.   *)
LEMMA TriesAreNumbers ==
    ASSUME TypeInv, AcceptedInv, NEW r \in Requests
    PROVE  /\ QueuedTries(r) \in Nat
           /\ RunningTries(r) \in Nat
           /\ DeferredTries(r) \in Nat
           /\ clones[r] \in Nat
           /\ Cardinality(Slots(incoming, Tries(r))) \in Nat
           /\ incoming # <<>> =>
                /\ Cardinality(Slots(Tail(incoming), Tries(r))) \in Nat
                /\ Head(incoming) \in RunMessage
                /\ Head(incoming).attempt \in 1 .. Attempts
                /\ \/ /\ Head(incoming).srid.run = r
                      /\ Cardinality(Slots(incoming, Tries(r))) =
                            Cardinality(Slots(Tail(incoming), Tries(r)))
                                + (Attempts - Head(incoming).attempt + 1)
                   \/ /\ Head(incoming).srid.run # r
                      /\ Cardinality(Slots(incoming, Tries(r))) =
                            Cardinality(Slots(Tail(incoming), Tries(r)))
<1>1. incoming \in Seq(RunMessage) /\ Attempts \in Nat \ {0}
  BY MasterFacts, AttemptsFacts
<1>2. PICK all, rest : /\ all = Cardinality(Slots(incoming, Tries(r)))
                       /\ rest = Cardinality(Slots(Tail(incoming), Tries(r)))
  OBVIOUS
<1>3. all \in Nat
  BY <1>1, <1>2, SlotsAreFinite
<1>4. ASSUME incoming # <<>>
      PROVE  /\ rest \in Nat
             /\ Head(incoming) \in RunMessage
             /\ Head(incoming).attempt \in 1 .. Attempts
             /\ \/ /\ Head(incoming).srid.run = r
                   /\ all = rest + (Attempts - Head(incoming).attempt + 1)
                \/ Head(incoming).srid.run # r /\ all = rest
  <2>1. PICK h \in RunMessage : h = Head(incoming)
    BY <1>1, <1>4, RangeOfTail
  <2>2. h.attempt \in 1 .. Attempts
    <3>1. 1 \in 1 .. Len(incoming) /\ h = incoming[1]
      BY <1>1, <1>4, <2>1, EmptySeq
    <3> QED BY <3>1 DEF AcceptedInv
  <2>3. Tail(incoming) \in Seq(RunMessage)
    BY <1>1, <1>4, RangeOfTail
  <2>4. rest \in Nat
    BY <1>2, <2>3, SlotsAreFinite
  <2>5. all = rest + Cardinality(Of(h, Tries(r)))
    BY <1>1, <1>2, <1>4, <2>1, SlotsOfTail
  <2>6. \/ /\ h.srid.run = r
           /\ Cardinality(Of(h, Tries(r))) = Attempts - h.attempt + 1
        \/ /\ h.srid.run # r
           /\ Cardinality(Of(h, Tries(r))) = 0
    BY <2>2, TriesOfMessage
  <2> QED BY <2>1, <2>2, <2>4, <2>5, <2>6
<1>5. QueuedTries(r) \in Nat
  <2>1. CASE master.phase = "idle"
    BY <1>2, <1>3, <2>1 DEF QueuedTries, Left
  <2>2. CASE master.phase # "idle"
    BY <1>2, <1>4, <2>2, MasterFacts DEF QueuedTries, Left
  <2> QED BY <2>1, <2>2
<1>6. RunningTries(r) \in Nat
  <2>1. CASE master.phase = "cloning" /\ master.srid.run = r
    <3>1. Head(incoming).attempt \in 1 .. Attempts
      BY <1>4, <2>1, MasterFacts
    <3>2. Attempts - Head(incoming).attempt \in Nat
      BY <1>1, <3>1
    <3> QED BY <2>1, <3>2 DEF RunningTries
  <2>2. CASE ~(master.phase = "cloning" /\ master.srid.run = r)
    BY <2>2 DEF RunningTries
  <2> QED BY <2>1, <2>2
<1>7. DeferredTries(r) \in Nat
  <2>1. PICK D : D = {x \in deferrers \X (1 .. Attempts) :
                        x[1].srid.run = r /\ x[1].attempt <= x[2]}
    OBVIOUS
  <2>2. IsFiniteSet(1 .. Attempts)
    BY <1>1, FS_Interval
  <2>3. IsFiniteSet(deferrers \X (1 .. Attempts))
    BY <2>2, FS_Product DEF AcceptedInv
  <2>4. Cardinality(D) \in Nat
    BY <2>1, <2>3, FS_Subset, FS_CardinalityType
  <2> QED BY <2>1, <2>4 DEF DeferredTries
<1>8. clones[r] \in Nat
  BY MasterFacts
<1> QED BY <1>2, <1>3, <1>4, <1>5, <1>6, <1>7, <1>8

(* A message that comes in adds its tries.                                   *)
LEMMA TriesOfAppend ==
    ASSUME TypeInv, AcceptedInv, NEW r \in Requests, NEW m \in RunMessage,
           m.attempt \in 1 .. Attempts,
           incoming' = Append(incoming, m), UNCHANGED master
    PROVE  \/ /\ m.srid.run = r
              /\ QueuedTries(r)' =
                    QueuedTries(r) + (Attempts - m.attempt + 1)
           \/ /\ m.srid.run # r
              /\ QueuedTries(r)' = QueuedTries(r)
<1>1. PICK busy : busy = (master.phase # "idle")
  OBVIOUS
<1>2. /\ incoming \in Seq(RunMessage)
      /\ busy \in BOOLEAN
      /\ busy => incoming # <<>>
  BY <1>1, MasterFacts
<1>3. PICK q \in Seq(RunMessage) :
            /\ q = Left(incoming, busy)
            /\ Left(Append(incoming, m), busy) = Append(q, m)
  <2>1. CASE busy
    <3>1. Tail(Append(incoming, m)) = Append(Tail(incoming), m)
      BY <1>2, <2>1, HeadTailAppend
    <3>2. Tail(incoming) \in Seq(RunMessage)
      BY <1>2, <2>1, RangeOfTail
    <3> QED BY <2>1, <3>1, <3>2 DEF Left
  <2>2. CASE ~busy
    BY <1>2, <2>2 DEF Left
  <2> QED BY <1>2, <2>1, <2>2
<1>4. /\ QueuedTries(r) = Cardinality(Slots(q, Tries(r)))
      /\ QueuedTries(r)' = Cardinality(Slots(Append(q, m), Tries(r)))
  BY <1>1, <1>3 DEF QueuedTries
<1>5. QueuedTries(r)' = QueuedTries(r) + Cardinality(Of(m, Tries(r)))
  BY <1>3, <1>4, SlotsOfAppend
<1>6. QueuedTries(r) \in Nat
  BY TriesAreNumbers
<1> QED BY <1>5, <1>6, TriesOfMessage

(* srcloner spends a try it had, and only a redelivery gives a run new ones. *)
LEMMA NoTryIsMade ==
    ASSUME TypeInv, AcceptedInv, [Next]_vars, NEW r \in Requests
    PROVE  \/ Budget(r)' <= Budget(r)
           \/ /\ failures' = failures + 1
              /\ Budget(r)' <= Budget(r) + Attempts
           \/ Budget(r)' <= Attempts
<1>1. PICK c, q, u, e : /\ c = clones[r]
                        /\ q = QueuedTries(r)
                        /\ u = RunningTries(r)
                        /\ e = DeferredTries(r)
  OBVIOUS
<1>2. PICK c1, q1, u1, e1 : /\ c1 = clones'[r]
                            /\ q1 = QueuedTries(r)'
                            /\ u1 = RunningTries(r)'
                            /\ e1 = DeferredTries(r)'
  OBVIOUS
<1>3. PICK all, rest, h, M :
            /\ all = Cardinality(Slots(incoming, Tries(r)))
            /\ rest = Cardinality(Slots(Tail(incoming), Tries(r)))
            /\ h = Head(incoming)
            /\ M = Attempts
  OBVIOUS
<1>4. /\ c \in Nat /\ q \in Nat /\ u \in Nat /\ e \in Nat
      /\ all \in Nat
      /\ M \in Nat \ {0}
  BY <1>1, <1>3, TriesAreNumbers, AttemptsFacts
<1>5. SUFFICES \/ c1 + (q1 + u1 + e1) <= c + (q + u + e)
               \/ /\ failures' = failures + 1
                  /\ c1 + (q1 + u1 + e1) <= c + (q + u + e) + M
               \/ c1 + (q1 + u1 + e1) <= M
  BY <1>1, <1>2, <1>3 DEF Budget, TriesLeft
<1>6. /\ master.phase = "idle" => q = all
      /\ master.phase # "idle" => q = rest
      /\ UNCHANGED incoming /\ master'.phase = "idle" => q1 = all
      /\ UNCHANGED incoming /\ master'.phase # "idle" => q1 = rest
  BY <1>1, <1>2, <1>3 DEF QueuedTries, Left
<1>7. incoming # <<>> =>
        /\ rest \in Nat
        /\ h.attempt \in 1 .. M
        /\ \/ h.srid.run = r /\ all = rest + (M - h.attempt + 1)
           \/ h.srid.run # r /\ all = rest
  BY <1>3, TriesAreNumbers
<1>8. master.phase # "idle" =>
        incoming # <<>> /\ master.srid.run = h.srid.run
  BY <1>3 DEF TypeInv, BusyOnMessage
<1>9. UNCHANGED deferrers => e1 = e
  BY <1>1, <1>2 DEF DeferredTries
<1>10. /\ master.phase = "cloning" /\ h.srid.run = r => u = M - h.attempt
       /\ master'.phase # "cloning" => u1 = 0
  BY <1>1, <1>2, <1>3, <1>8 DEF RunningTries
<1>11. CASE MasterReceive
  <2>1. /\ master.phase = "idle" /\ incoming # <<>>
        /\ master'.phase = "cloning"
        /\ master'.srid.run = h.srid.run
        /\ clones' = [clones EXCEPT ![h.srid.run] = @ + 1]
        /\ UNCHANGED <<incoming, deferrers>>
    BY <1>3, <1>11, MasterFacts DEF MasterReceive, MasterState, queueVars, Srid
  <2>2. q = all /\ q1 = rest /\ e1 = e
    BY <1>6, <1>9, <2>1
  <2>3. CASE h.srid.run = r
    <3>1. c1 = c + 1
      BY <1>1, <1>2, <2>1, <2>3, MasterFacts
    <3>2. u1 = M - h.attempt
      BY <1>2, <1>3, <2>1, <2>3 DEF RunningTries
    <3>3. all = rest + (M - h.attempt + 1) /\ rest \in Nat /\ h.attempt \in 1 .. M
      BY <1>7, <2>1, <2>3
    <3> QED BY <1>4, <2>2, <3>1, <3>2, <3>3
  <2>4. CASE h.srid.run # r
    <3>1. c1 = c
      BY <1>1, <1>2, <2>1, <2>4, MasterFacts
    <3>2. u1 = 0
      BY <1>2, <2>1, <2>4 DEF RunningTries
    <3>3. all = rest
      BY <1>7, <2>1, <2>4
    <3> QED BY <1>4, <2>2, <3>1, <3>2, <3>3
  <2> QED BY <2>3, <2>4
<1>12. CASE /\ UNCHANGED <<incoming, clones, deferrers>>
            /\ master.phase # "idle"
            /\ master'.phase # "idle" /\ master'.phase # "cloning"
  <2>1. c1 = c /\ q1 = q /\ u1 = 0 /\ e1 = e
    BY <1>1, <1>2, <1>6, <1>9, <1>10, <1>12
  <2> QED BY <1>4, <2>1
<1>13. CASE CloneSucceeds \/ CloneCancels \/ CloneDrops
  BY <1>12, <1>13, MasterFacts DEF CloneSucceeds, CloneCancels, CloneDrops,
     MasterReturns, MasterState, queueVars
<1>14. CASE MasterWakes \/ \E nc \in NETCONFIGS : MasterEnqueue(nc)
  BY <1>12, <1>14, MasterFacts
  DEF MasterWakes, MasterEnqueue, MasterState, queueVars
<1>15. CASE CloneDefers
  <2>1. PICK d : /\ d.srid = master.srid
                 /\ d.attempt = h.attempt + 1
                 /\ deferrers' = deferrers \union {d}
    BY <1>3, <1>15 DEF CloneDefers
  <2>2. /\ master.phase = "cloning"
        /\ master'.phase = "dispatching"
        /\ h.attempt + 1 <= MaxAttempts
        /\ UNCHANGED <<incoming, clones>>
    BY <1>3, <1>15, MasterFacts
    DEF CloneDefers, MasterReturns, MasterState, queueVars
  <2>3. c1 = c /\ q1 = q /\ u1 = 0
    BY <1>1, <1>2, <1>6, <1>10, <2>2
  <2>4. h.attempt \in 1 .. M /\ master.srid.run = h.srid.run
    BY <1>7, <1>8, <2>2
  <2>5. d.attempt \in 1 .. Attempts /\ h.attempt + 1 <= M
    BY <1>3, <1>4, <2>1, <2>2, <2>4, AttemptsFacts
  <2>6. /\ e1 \in Nat
        /\ e1 <= e + (M - d.attempt + 1)
        /\ d.srid.run # r => e1 = e
    BY <1>1, <1>2, <1>3, <2>1, <2>5, DeferredTriesChange
  <2>7. CASE h.srid.run = r
    <3>1. u = M - h.attempt
      BY <1>10, <2>2, <2>7
    <3>2. e1 <= e + u
      BY <1>4, <2>1, <2>4, <2>6, <3>1
    <3> QED BY <1>4, <2>3, <2>6, <3>2
  <2>8. CASE h.srid.run # r
    <3>1. e1 = e
      BY <2>1, <2>4, <2>6, <2>8
    <3> QED BY <1>4, <2>3, <3>1
  <2> QED BY <2>7, <2>8
<1>16. CASE MasterAck
  <2>1. /\ master.phase # "idle" /\ master'.phase = "idle"
        /\ incoming' = Tail(incoming)
        /\ UNCHANGED <<clones, deferrers>>
    BY <1>16 DEF MasterAck, Idle
  <2>2. q = rest /\ q1 = rest
    BY <1>2, <1>3, <1>6, <2>1 DEF QueuedTries, Left
  <2>3. c1 = c /\ u1 = 0 /\ e1 = e
    BY <1>1, <1>2, <1>9, <1>10, <2>1
  <2> QED BY <1>4, <2>2, <2>3
<1>17. CASE MasterFails
  <2>1. /\ master.phase # "idle" /\ master'.phase = "idle"
        /\ failures' = failures + 1
        /\ UNCHANGED <<incoming, clones, deferrers>>
    BY <1>17 DEF MasterFails, Fails, Idle, queueVars
  <2>2. q = rest /\ q1 = all /\ c1 = c /\ u1 = 0 /\ e1 = e
    BY <1>1, <1>2, <1>6, <1>9, <1>10, <2>1
  <2>3. rest \in Nat /\ all <= rest + M
    <3>1. incoming # <<>>
      BY <1>8, <2>1
    <3> QED BY <1>4, <1>7, <3>1
  <2> QED BY <1>4, <2>1, <2>2, <2>3
<1>18. ASSUME NEW d \in deferrers, DeferrerWakes(d)
       PROVE  c1 + (q1 + u1 + e1) <= c + (q + u + e)
  <2>1. PICK m \in RunMessage : /\ m.srid = d.srid
                                /\ m.attempt = d.attempt
                                /\ incoming' = Append(incoming, m)
    <3>1. [srid |-> d.srid, attempt |-> d.attempt] \in RunMessage
      BY MasterFacts DEF RunMessage, Deferrer
    <3> QED BY <1>18, <3>1 DEF DeferrerWakes
  <2>2. /\ deferrers' = deferrers \ {d}
        /\ UNCHANGED <<master, clones>>
    BY <1>18 DEF DeferrerWakes
  <2>3. d.attempt \in 1 .. Attempts
    BY DEF AcceptedInv
  <2>4. PICK w \in Nat : w = Attempts - d.attempt + 1
    BY <2>3, AttemptsFacts
  <2>5. \/ d.srid.run = r /\ q1 = q + w
        \/ d.srid.run # r /\ q1 = q
    BY <1>1, <1>2, <2>1, <2>2, <2>3, <2>4, TriesOfAppend
  <2>6. /\ e1 \in Nat
        /\ e1 <= e
        /\ d.srid.run = r => e = e1 + w
    BY <1>1, <1>2, <2>2, <2>3, <2>4, DeferredTriesChange
  <2>7. c1 = c
    BY <1>1, <1>2, <2>2
  <2>8. u1 = u
    <3>1. master.phase = "cloning" => Head(incoming') = Head(incoming)
      BY <2>1, MasterFacts, RangeOfAppend
    <3> QED BY <1>1, <1>2, <2>2, <3>1 DEF RunningTries
  <2> QED BY <1>4, <2>4, <2>5, <2>6, <2>7, <2>8
<1>19. ASSUME NEW d \in deferrers, DeferrerDies(d)
       PROVE  c1 + (q1 + u1 + e1) <= c + (q + u + e)
  <2>1. /\ deferrers' = deferrers \ {d}
        /\ UNCHANGED <<incoming, master, clones>>
    BY <1>19 DEF DeferrerDies, queueVars
  <2>2. d.attempt \in 1 .. Attempts
    BY DEF AcceptedInv
  <2>3. e1 \in Nat /\ e1 <= e
    BY <1>1, <1>2, <2>1, <2>2, DeferredTriesChange
  <2>4. c1 = c /\ q1 = q /\ u1 = u
    BY <1>1, <1>2, <2>1 DEF QueuedTries, RunningTries
  <2> QED BY <1>4, <2>3, <2>4
<1>20. ASSUME NEW s \in Requests, Submit(s)
       PROVE  \/ c1 + (q1 + u1 + e1) <= c + (q + u + e)
              \/ c1 + (q1 + u1 + e1) <= M
  <2>1. PICK m \in RunMessage : /\ m.srid.run = s
                                /\ m.attempt = 1
                                /\ incoming' = Append(incoming, m)
    <3>1. [srid |-> FirstSrid(s), attempt |-> 1] \in RunMessage
      BY DEF RunMessage, FirstSrid, Srid
    <3> QED BY <1>20, <3>1 DEF Submit, FirstSrid
  <2>2. UNCHANGED <<master, clones, deferrers>> /\ s \notin accepted
    BY <1>20 DEF Submit
  <2>3. m.attempt \in 1 .. Attempts
    BY <2>1, AttemptsFacts
  <2>4. \/ s = r /\ q1 = q + M
        \/ s # r /\ q1 = q
    <3>1. Attempts - m.attempt + 1 = M
      BY <1>3, <1>4, <2>1
    <3> QED BY <1>1, <1>2, <2>1, <2>2, <2>3, <3>1, TriesOfAppend
  <2>5. c1 = c /\ e1 = e
    BY <1>1, <1>2, <1>9, <2>2
  <2>6. u1 = u
    <3>1. master.phase = "cloning" => Head(incoming') = Head(incoming)
      BY <2>1, MasterFacts, RangeOfAppend
    <3> QED BY <1>1, <1>2, <2>2, <3>1 DEF RunningTries
  <2>7. CASE s # r
    BY <1>4, <2>4, <2>5, <2>6, <2>7
  <2>8. CASE s = r
    <3>1. \A i \in 1 .. Len(incoming) : RunAt(i) # r
      BY <2>2, <2>8 DEF AcceptedInv
    <3>2. c = 0
      BY <1>1, <2>2, <2>8 DEF AcceptedInv
    <3>3. u = 0
      BY <1>1, <3>1, MasterFacts DEF RunningTries
    <3>4. e = 0
      <4>1. {x \in deferrers \X (1 .. Attempts) :
                x[1].srid.run = r /\ x[1].attempt <= x[2]} = {}
        BY <2>2, <2>8 DEF AcceptedInv
      <4> QED BY <1>1, <4>1, FS_EmptySet DEF DeferredTries
    <3>5. all = 0
      <4>1. Slots(incoming, Tries(r)) = {}
        BY <3>1 DEF Slots, Tries, RunAt
      <4> QED BY <1>3, <4>1, FS_EmptySet
    <3>6. q = 0
      BY <1>4, <1>6, <1>7, <1>8, <3>1, <3>5, MasterFacts
    <3> QED BY <1>4, <2>4, <2>5, <2>6, <2>8, <3>2, <3>3, <3>4, <3>6
  <2> QED BY <2>7, <2>8
<1>21. CASE UNCHANGED <<incoming, masterVars>>
  <2>1. c1 = c /\ q1 = q /\ u1 = u /\ e1 = e
    BY <1>1, <1>2, <1>21
    DEF masterVars, QueuedTries, RunningTries, DeferredTries
  <2> QED BY <1>4, <2>1
<1> QED
  BY <1>11, <1>13, <1>14, <1>15, <1>16, <1>17, <1>18, <1>19, <1>20, <1>21,
     RestLeavesRuns, MasterActions

(* Attempts * (1 + failures), as failures grows.                             *)
LEMMA LimitGrows ==
    ASSUME NEW M \in Nat, NEW f \in Nat
    PROVE  /\ M * (1 + f) \in Nat
           /\ M <= M * (1 + f)
           /\ M * (1 + (f + 1)) = M * (1 + f) + M
<1>1. M * (1 + (f + 1)) = M * (1 + f) + M
  OBVIOUS
<1>2. M * (1 + f) = M + M * f
  OBVIOUS
<1>3. M * f \in Nat
  OBVIOUS
<1> QED BY <1>1, <1>2, <1>3

Budgets == \A r \in Requests : Budget(r) \in Nat

LEMMA BudgetsNext ==
    TypeInv /\ AcceptedInv /\ [Next]_vars => Budgets'
<1>1. TypeInv /\ AcceptedInv /\ [Next]_vars => TypeInv' /\ AcceptedInv'
  BY NextTypeInv, NextAcceptedInv
<1>2. TypeInv /\ AcceptedInv => Budgets
  BY TriesAreNumbers DEF Budgets, Budget, TriesLeft
<1>3. TypeInv' /\ AcceptedInv' => Budgets'
  BY <1>2, PTL
<1> QED BY <1>1, <1>3

LEMMA NextBudgetInv ==
    ASSUME TypeInv, AcceptedInv, BudgetInv, [Next]_vars
    PROVE  BudgetInv'
<1> SUFFICES ASSUME NEW r \in Requests
             PROVE  Budget(r)' <= Attempts * (1 + failures')
  BY DEF BudgetInv, Budget
<1>1. PICK M, f, f1, l, l1, n, n1 : /\ M = Attempts
                                    /\ f = failures
                                    /\ f1 = failures'
                                    /\ l = Attempts * (1 + failures)
                                    /\ l1 = Attempts * (1 + failures')
                                    /\ n = Budget(r)
                                    /\ n1 = Budget(r)'
  OBVIOUS
<1>2. /\ M \in Nat
      /\ f \in Nat
      /\ f1 = f \/ f1 = f + 1
  BY <1>1, MasterFacts, AttemptsFacts, FailuresCounted
<1>3. /\ l \in Nat
      /\ M <= l
      /\ f1 = f => l1 = l
      /\ f1 = f + 1 => l1 = l + M
  BY <1>1, <1>2, LimitGrows
<1>4. n \in Nat
  BY <1>1, TriesAreNumbers DEF Budget, TriesLeft
<1>5. n1 \in Nat
  BY <1>1, BudgetsNext DEF Budgets
<1>6. n <= l
  BY <1>1 DEF BudgetInv, Budget
<1>7. \/ n1 <= n
      \/ f1 = f + 1 /\ n1 <= n + M
      \/ n1 <= M
  BY <1>1, NoTryIsMade
<1>8. n1 <= l1
  BY <1>2, <1>3, <1>4, <1>5, <1>6, <1>7
<1> QED BY <1>1, <1>8

(* Whatever limit is configured, 0 and less included, srcloner runs for a    *)
(* run at most that often but at least once, and as often again for each     *)
(* message delivered again, wherever the run waits in between; without a     *)
(* redelivery a run is cancelled after exactly that many.                    *)
THEOREM ClonesWithinBudget == Spec => []AttemptBudget
<1>1. Init => BudgetInv
  <2> SUFFICES ASSUME Init, NEW r \in Requests
               PROVE  Budget(r) <= Attempts * (1 + failures)
    BY DEF BudgetInv, Budget
  <2>1. QueuedTries(r) = 0
    BY SlotsOfEmpty DEF Init, QueuesInit, MasterInit, Idle, QueuedTries, Left
  <2>2. RunningTries(r) = 0
    BY DEF Init, MasterInit, Idle, RunningTries
  <2>3. DeferredTries(r) = 0
    <3>1. deferrers = {}
      BY DEF Init, MasterInit
    <3>2. {x \in deferrers \X (1 .. Attempts) :
                x[1].srid.run = r /\ x[1].attempt <= x[2]} = {}
      BY <3>1
    <3> QED BY <3>2, FS_EmptySet DEF DeferredTries
  <2>4. clones[r] = 0 /\ failures = 0
    BY DEF Init, MasterInit, QueuesInit
  <2>5. Attempts * (1 + 0) \in Nat
    BY AttemptsFacts
  <2> QED BY <2>1, <2>2, <2>3, <2>4, <2>5 DEF Budget, TriesLeft
<1>2. TypeInv /\ AcceptedInv /\ BudgetInv /\ [Next]_vars => BudgetInv'
  BY NextBudgetInv
<1>3. TypeInv /\ AcceptedInv /\ SingleInv /\ BudgetInv => AttemptBudget
  <2> SUFFICES ASSUME TypeInv, AcceptedInv, SingleInv, BudgetInv,
                      NEW r \in Requests
               PROVE  /\ clones[r] <= Attempts * (1 + failures)
                      /\ failures = 0 /\ r \in cancelled =>
                            clones[r] = Attempts
    BY DEF AttemptBudget
  <2>1. clones[r] <= Attempts * (1 + failures)
    <3>1. PICK l : l = Attempts * (1 + failures)
      OBVIOUS
    <3>2. PICK c, t : c = clones[r] /\ t = TriesLeft(r)
      OBVIOUS
    <3>3. l \in Nat
      BY <3>1, MasterFacts, AttemptsFacts, LimitGrows
    <3>4. c \in Nat /\ t \in Nat
      BY <3>2, TriesAreNumbers DEF TriesLeft
    <3>5. c + t <= l
      BY <3>1, <3>2 DEF BudgetInv
    <3>6. c <= l
      BY <3>3, <3>4, <3>5
    <3> QED BY <3>1, <3>2, <3>6
  <2>2. failures = 0 /\ r \in cancelled => clones[r] = Attempts
    BY DEF SingleInv, OneLife, ClonesInv
  <2> QED BY <2>1, <2>2
<1> QED
  BY <1>1, <1>2, <1>3, TypeInvHolds, SingleInvHolds, PTL DEF Spec
=============================================================================
