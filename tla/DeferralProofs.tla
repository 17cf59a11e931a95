--------------------------- MODULE DeferralProofs ---------------------------
(***************************************************************************)
(* A proof about module Deferral: srcloner does not run out of patience     *)
(* before all the intervals between its attempts have passed.               *)
(***************************************************************************)
EXTENDS Deferral, SequenceTheorems, TLAPS

(* The types of what the proof is about, and what srmaster is working on.    *)
TypeInv ==
    /\ incoming \in Seq(RunMessage)
    /\ master \in MasterState
    /\ master.phase # "idle" =>
            /\ incoming # <<>>
            /\ master.srid.run = Head(incoming).srid.run
            /\ clones[master.srid.run] > 0
    /\ deferrers \subseteq Deferrer
    /\ clock \in Nat
    /\ uuids \in Nat
    /\ clones \in [Requests -> Nat]
    /\ cancelled \subseteq Requests
    /\ first \in [Requests -> 0 .. clock]
    /\ since \in [deferrers -> 0 .. clock]

(* What has passed before attempt k.                                         *)
Wait(k) == (k - 1) * Interval

(* A message is not on sr_incoming before its time, and its deferrer did not *)
(* begin to sleep before the time of the attempt it follows.                 *)
Ready(m) ==
    /\ m.attempt \in 1 .. Attempts
    /\ m.attempt > 1 => clones[m.srid.run] > 0
    /\ clock - first[m.srid.run] >= Wait(m.attempt)

Asleep(d) ==
    /\ d.attempt \in 2 .. Attempts
    /\ clones[d.srid.run] > 0
    /\ since[d] - first[d.srid.run] >= Wait(d.attempt - 1)

Overdue(r) == clones[r] > 0 /\ clock - first[r] >= Wait(Attempts)

WaitInv ==
    /\ \A i \in 1 .. Len(incoming) : Ready(incoming[i])
    /\ \A d \in deferrers : Asleep(d)
    /\ \A r \in cancelled : Overdue(r)
-----------------------------------------------------------------------------
LEMMA WaitFacts ==
    ASSUME Interval \in Int
    PROVE  /\ Wait(1) = 0
           /\ \A k \in Nat : /\ Wait(k) \in Int
                             /\ Wait(k + 1) = Wait(k) + Interval
<1>1. Wait(1) = 0
  BY DEF Wait
<1>2. ASSUME NEW k \in Nat
      PROVE  Wait(k) \in Int /\ Wait(k + 1) = Wait(k) + Interval
  <2>1. Wait(k) \in Int
    BY DEF Wait
  <2>2. ((k + 1) - 1) * Interval = (k - 1) * Interval + Interval
    OBVIOUS
  <2> QED BY <2>1, <2>2 DEF Wait
<1> QED BY <1>1, <1>2

(* srcloner has run once before it looks at the limit.                       *)
LEMMA LimitFacts ==
    /\ Attempts \in Nat \ {0}
    /\ \A a \in Nat \ {0} : a + 1 <= MaxAttempts <=> a + 1 <= Attempts
    /\ \A a \in 1 .. Attempts : a + 1 > MaxAttempts <=> a = Attempts
BY BoundsAssumption DEF Attempts

(* The types of a message and a deferrer, and of the head of sr_incoming.    *)
LEMMA Facts ==
    ASSUME TypeInv
    PROVE  /\ incoming \in Seq(RunMessage) /\ Len(incoming) \in Nat
           /\ \A m \in RunMessage :
                m.attempt \in Nat /\ m.srid \in Srid /\ m.srid.run \in Requests
           /\ \A d \in Deferrer :
                d.attempt \in Nat /\ d.srid \in Srid /\ d.srid.run \in Requests
           /\ \A i \in 1 .. Len(incoming) : incoming[i] \in RunMessage
           /\ incoming # <<>> =>
                /\ Head(incoming) = incoming[1] /\ 1 \in 1 .. Len(incoming)
                /\ Head(incoming) \in RunMessage
                /\ Tail(incoming) \in Seq(RunMessage)
                /\ Len(Tail(incoming)) = Len(incoming) - 1
                /\ \A i \in 1 .. Len(Tail(incoming)) :
                        /\ i + 1 \in 1 .. Len(incoming)
                        /\ Tail(incoming)[i] = incoming[i + 1]
           /\ master \in MasterState /\ master.srid \in Srid
           /\ master.srid.run \in Requests
<1>1. incoming \in Seq(RunMessage)
  BY DEF TypeInv
<1>2. Len(incoming) \in Nat /\ \A i \in 1 .. Len(incoming) : incoming[i] \in RunMessage
  BY <1>1
<1>3. ASSUME incoming # <<>>
      PROVE  /\ Head(incoming) = incoming[1] /\ 1 \in 1 .. Len(incoming)
             /\ Head(incoming) \in RunMessage
             /\ Tail(incoming) \in Seq(RunMessage)
             /\ Len(Tail(incoming)) = Len(incoming) - 1
             /\ \A i \in 1 .. Len(Tail(incoming)) :
                    /\ i + 1 \in 1 .. Len(incoming)
                    /\ Tail(incoming)[i] = incoming[i + 1]
  BY <1>1, <1>2, <1>3, EmptySeq, HeadTailProperties
<1>4. \A m \in RunMessage :
        m.attempt \in Nat /\ m.srid \in Srid /\ m.srid.run \in Requests
  BY DEF RunMessage, Srid
<1>5. \A d \in Deferrer :
        d.attempt \in Nat /\ d.srid \in Srid /\ d.srid.run \in Requests
  BY DEF Deferrer, Srid
<1>6. master \in MasterState /\ master.srid \in Srid /\ master.srid.run \in Requests
  BY DEF TypeInv, MasterState, Srid
<1> QED BY <1>1, <1>2, <1>3, <1>4, <1>5, <1>6
-----------------------------------------------------------------------------
(* What is common to all steps: the clock goes on, and srcloner ran first    *)
(* when it did.                                                              *)
Later ==
    /\ clock' \in Nat /\ clock' >= clock
    /\ clones' \in [Requests -> Nat]
    /\ first' \in [Requests -> 0 .. clock']
    /\ \A r \in Requests : /\ clones'[r] >= clones[r]
                           /\ clones[r] > 0 => first'[r] = first[r]

LEMMA NextLater ==
    ASSUME TypeInv, Next
    PROVE  Later
<1>1. CASE Tick
  BY <1>1 DEF Tick, TypeInv, Later
<1>2. CASE Step /\ Dates
  <2>1. clock' = clock \/ clock' = clock + 1
    BY <1>2
    DEF Step, Submit, MasterStep, MasterReceive, CloneSucceeds, CloneDefers,
        CloneCancels, CloneDrops, MasterWakes, MasterEnqueue, MasterAck,
        MasterFails, DeferrerWakes, DeferrerDies
  <2>2. \/ clones' = clones
        \/ incoming # <<>> /\ clones' =
                [clones EXCEPT ![Head(incoming).srid.run] = @ + 1]
    BY <1>2
    DEF Step, Submit, MasterStep, MasterReceive, CloneSucceeds, CloneDefers,
        CloneCancels, CloneDrops, MasterWakes, MasterEnqueue, MasterAck,
        MasterFails, DeferrerWakes, DeferrerDies
  <2>3. /\ clones' \in [Requests -> Nat]
        /\ \A r \in Requests : clones'[r] >= clones[r]
    <3>1. CASE clones' = clones
      BY <3>1 DEF TypeInv
    <3>2. ASSUME NEW h \in Requests, clones' = [clones EXCEPT ![h] = @ + 1]
          PROVE  /\ clones' \in [Requests -> Nat]
                 /\ \A r \in Requests : clones'[r] >= clones[r]
      BY <3>2 DEF TypeInv
    <3>3. incoming # <<>> => Head(incoming).srid.run \in Requests
      BY Facts
    <3> QED BY <2>2, <3>1, <3>2, <3>3
  <2>4. \A r \in Requests : /\ first'[r] = first[r] \/ first'[r] = clock
                            /\ clones[r] > 0 => first'[r] = first[r]
    BY <1>2, <2>3 DEF Dates, TypeInv
  <2>5. first' \in [Requests -> 0 .. clock']
    <3>1. ASSUME NEW r \in Requests PROVE first'[r] \in 0 .. clock'
      <4>1. first[r] \in 0 .. clock /\ clock \in Nat
        BY DEF TypeInv
      <4> QED BY <2>1, <2>4, <4>1
    <3> QED BY <1>2, <3>1 DEF Dates
  <2> QED BY <2>1, <2>3, <2>4, <2>5 DEF Later, TypeInv
<1> QED BY <1>1, <1>2 DEF Next

(* Who has waited has waited long enough later, too.                         *)
LEMMA WaitedLater ==
    ASSUME Interval \in Int, TypeInv, Later
    PROVE  /\ \A m \in RunMessage : Ready(m) => Ready(m)'
           /\ \A d \in Deferrer : since'[d] = since[d] /\ Asleep(d) => Asleep(d)'
           /\ \A r \in Requests : Overdue(r) => Overdue(r)'
<1>1. ASSUME NEW r \in Requests, NEW k \in Nat, clones[r] > 0,
             clock - first[r] >= Wait(k)
      PROVE  clones'[r] > 0 /\ clock' - first'[r] >= Wait(k)
  <2>1. /\ first'[r] = first[r] /\ clones'[r] >= clones[r]
        /\ clock' \in Nat /\ clock' >= clock
        /\ clones'[r] \in Nat
    BY <1>1 DEF Later
  <2>2. first[r] \in Nat /\ clock \in Nat /\ clones[r] \in Nat
    BY DEF TypeInv
  <2>3. Wait(k) \in Int
    BY WaitFacts
  <2> QED BY <1>1, <2>1, <2>2, <2>3
<1>2. ASSUME NEW m \in RunMessage, Ready(m) PROVE Ready(m)'
  <2>1. m.attempt \in 1 .. Attempts /\ m.srid.run \in Requests
    BY <1>2, Facts DEF Ready
  <2>2. CASE clones[m.srid.run] > 0
    BY <1>1, <1>2, <2>1, <2>2, LimitFacts DEF Ready
  <2>3. CASE m.attempt = 1
    <3>1. clock' - first'[m.srid.run] >= 0
      BY <2>1 DEF Later
    <3>2. Wait(m.attempt) = 0
      BY <2>3, WaitFacts
    <3> QED BY <2>1, <2>3, <3>1, <3>2 DEF Ready
  <2> QED BY <1>2, <2>1, <2>2, <2>3, LimitFacts DEF Ready, Later, TypeInv
<1>3. ASSUME NEW d \in Deferrer, since'[d] = since[d], Asleep(d)
      PROVE  Asleep(d)'
  BY <1>3, Facts DEF Asleep, Later, TypeInv
<1>4. ASSUME NEW r \in Requests, Overdue(r) PROVE Overdue(r)'
  BY <1>1, <1>4, LimitFacts DEF Overdue
<1> QED BY <1>2, <1>3, <1>4

LEMMA NextTypeInv ==
    ASSUME Interval \in Int, TypeInv, WaitInv, Next
    PROVE  TypeInv'
<1>1. Later
  BY NextLater
<1>2. /\ first' \in [Requests -> 0 .. clock']
      /\ clones' \in [Requests -> Nat]
      /\ clock' \in Nat
  BY <1>1 DEF Later
<1>3. CASE Tick
  <2>1. UNCHANGED <<incoming, master, deferrers, uuids, clones, cancelled,
                    first, since>>
    BY <1>3 DEF Tick, queueVars, ledgerVars
  <2>2. since' \in [deferrers' -> 0 .. clock']
    BY <1>1, <2>1 DEF TypeInv, Later
  <2> QED BY <1>2, <2>1, <2>2 DEF TypeInv
<1>4. CASE Step /\ Dates
  <2>1. since' \in [deferrers' -> 0 .. clock']
    <3>1. \A d \in deferrers' : since'[d] \in 0 .. clock'
      BY <1>1, <1>4 DEF Dates, TypeInv, Later
    <3> QED BY <1>4, <3>1 DEF Dates
  <2>2. CASE MasterReceive
    <3>1. /\ incoming # <<>>
          /\ UNCHANGED <<incoming, deferrers, cancelled>>
          /\ clones' = [clones EXCEPT ![Head(incoming).srid.run] = @ + 1]
          /\ uuids' \in Nat
      BY <2>2 DEF MasterReceive, queueVars, ledgerVars, TypeInv
    <3>2. PICK s \in Srid : /\ master' = [master EXCEPT !.phase = "cloning",
                                                        !.srid = s]
                            /\ s.run = Head(incoming).srid.run
      <4>1. Head(incoming).srid \in Srid
        BY <3>1, Facts
      <4>2. [Head(incoming).srid EXCEPT !.uuid = uuids'] \in Srid
        BY <3>1, <4>1 DEF Srid
      <4> QED BY <2>2, <4>1, <4>2 DEF MasterReceive, Srid
    <3>3. /\ master' \in MasterState
          /\ master'.srid.run = Head(incoming).srid.run
      BY <3>2, Facts DEF MasterState
    <3>4. clones'[Head(incoming).srid.run] > 0
      <4>1. Head(incoming).srid.run \in Requests
        BY <3>1, Facts
      <4> QED BY <3>1, <4>1 DEF TypeInv
    <3>5. UNCHANGED incoming
      BY <3>1
    <3>6. /\ master'.srid.run = Head(incoming').srid.run
          /\ clones'[master'.srid.run] > 0
      BY <3>3, <3>4, <3>5
    <3> QED BY <1>2, <2>1, <3>1, <3>3, <3>5, <3>6 DEF TypeInv
  <2>3. CASE CloneSucceeds \/ CloneCancels \/ CloneDrops \/ MasterWakes
                \/ (\E nc \in NETCONFIGS : MasterEnqueue(nc)) \/ MasterFails
    <3>1. UNCHANGED <<incoming, deferrers, uuids, clones>>
      BY <2>3 DEF CloneSucceeds, CloneCancels, CloneDrops, MasterWakes,
         MasterEnqueue, MasterFails, queueVars
    <3>2. cancelled' = cancelled \/ cancelled' = cancelled \union {master.srid.run}
      BY <2>3 DEF CloneSucceeds, CloneCancels, CloneDrops, MasterWakes,
         MasterEnqueue, MasterFails, ledgerVars
    <3>3. \/ /\ master.phase # "idle"
             /\ master'.phase # "idle"
             /\ master'.srid = master.srid
             /\ master' \in MasterState
          \/ /\ master'.phase = "idle"
             /\ master' \in MasterState
      <4>1. CASE CloneSucceeds
        BY <4>1, Facts DEF CloneSucceeds, MasterState, TypeInv
      <4>2. CASE CloneCancels \/ CloneDrops
        BY <4>2, Facts DEF CloneCancels, CloneDrops, MasterReturns, MasterState
      <4>3. CASE MasterWakes
        <5>1. Netconfigs(master.srid.run) \subseteq NETCONFIGS
          BY RequestsAssumption, Facts DEF Netconfigs
        <5> QED BY <4>3, <5>1, Facts DEF MasterWakes, MasterState
      <4>4. ASSUME NEW nc \in NETCONFIGS, MasterEnqueue(nc)
            PROVE  /\ master.phase # "idle"
                   /\ master'.phase # "idle"
                   /\ master'.srid = master.srid
                   /\ master' \in MasterState
        BY <4>4, Facts DEF MasterEnqueue, MasterState
      <4>5. CASE MasterFails
        BY <4>5, Facts DEF MasterFails, Idle, MasterState
      <4> QED BY <2>3, <4>1, <4>2, <4>3, <4>4, <4>5
    <3>4. master' \in MasterState
      BY <3>3
    <3>5. cancelled' \subseteq Requests
      BY <3>2, Facts DEF TypeInv
    <3>6. master'.phase # "idle" =>
            /\ incoming' # <<>>
            /\ master'.srid.run = Head(incoming').srid.run
            /\ clones'[master'.srid.run] > 0
      BY <3>1, <3>3 DEF TypeInv
    <3>7. /\ incoming' \in Seq(RunMessage)
          /\ deferrers' \subseteq Deferrer
          /\ uuids' \in Nat
      BY <3>1 DEF TypeInv
    <3> QED BY <1>2, <2>1, <3>4, <3>5, <3>6, <3>7 DEF TypeInv
  <2>4. CASE CloneDefers
    <3>1. PICK d : /\ d = [srid |-> master.srid,
                           attempt |-> Head(incoming).attempt + 1,
                           cloner |-> clones[master.srid.run]]
                   /\ deferrers' = deferrers \union {d}
      BY <2>4 DEF CloneDefers
    <3>2. d \in Deferrer
      <4>1. incoming # <<>>
        BY <2>4 DEF CloneDefers, TypeInv
      <4>2. /\ Head(incoming).attempt \in Nat
            /\ master.srid \in Srid
            /\ clones[master.srid.run] \in Nat
        BY <4>1, Facts DEF TypeInv
      <4> QED BY <3>1, <4>2 DEF Deferrer
    <3>3. /\ UNCHANGED <<incoming, uuids, clones, cancelled>>
          /\ master.phase # "idle"
          /\ master' = [master EXCEPT !.phase = "dispatching", !.todo = {}]
      BY <2>4 DEF CloneDefers, MasterReturns, queueVars, ledgerVars
    <3>4. master' \in MasterState /\ master'.srid = master.srid
      BY <3>3, Facts DEF MasterState
    <3>5. deferrers' \subseteq Deferrer
      BY <3>1, <3>2 DEF TypeInv
    <3> QED BY <1>2, <2>1, <3>3, <3>4, <3>5 DEF TypeInv
  <2>5. CASE MasterAck
    <3>1. /\ incoming # <<>>
          /\ incoming' = Tail(incoming)
          /\ master' = Idle(master.srid)
          /\ UNCHANGED <<deferrers, uuids, clones, cancelled>>
      BY <2>5 DEF MasterAck, ledgerVars, TypeInv
    <3>2. master' \in MasterState /\ master'.phase = "idle"
      BY <3>1, Facts DEF Idle, MasterState
    <3>3. incoming' \in Seq(RunMessage)
      BY <3>1, Facts
    <3> QED BY <1>2, <2>1, <3>1, <3>2, <3>3 DEF TypeInv
  <2>6. ASSUME NEW m \in RunMessage, incoming' = Append(incoming, m),
               UNCHANGED <<master, uuids, clones, cancelled>>,
               deferrers' \subseteq deferrers
        PROVE  TypeInv'
    <3>1. /\ incoming' \in Seq(RunMessage)
          /\ incoming # <<>> =>
                incoming' # <<>> /\ Head(incoming') = Head(incoming)
      BY <2>6, Facts, AppendProperties, EmptySeq, HeadTailProperties
    <3> QED BY <1>2, <2>1, <2>6, <3>1 DEF TypeInv
  <2>7. ASSUME NEW r \in Requests, Submit(r) PROVE TypeInv'
    <3>1. [srid |-> FirstSrid(r), attempt |-> 1] \in RunMessage
      BY DEF RunMessage, Srid, FirstSrid
    <3> QED BY <2>6, <2>7, <3>1 DEF Submit
  <2>8. ASSUME NEW d \in deferrers, DeferrerWakes(d) PROVE TypeInv'
    <3>1. [srid |-> d.srid, attempt |-> d.attempt] \in RunMessage
      BY DEF RunMessage, Deferrer, TypeInv
    <3> QED BY <2>6, <2>8, <3>1 DEF DeferrerWakes, ledgerVars
  <2>9. ASSUME NEW d \in deferrers, DeferrerDies(d) PROVE TypeInv'
    <3>1. /\ deferrers' \subseteq deferrers
          /\ UNCHANGED <<incoming, master, uuids, clones, cancelled>>
      BY <2>9 DEF DeferrerDies, queueVars
    <3> QED BY <1>2, <2>1, <3>1 DEF TypeInv
  <2> QED
    BY <1>4, <2>2, <2>3, <2>4, <2>5, <2>7, <2>8, <2>9 DEF Step, MasterStep
<1> QED BY <1>3, <1>4 DEF Next

(* A deferrer that is not new went to sleep when it did, and a new one just  *)
(* now.                                                                      *)
LEMMA Sleepers ==
    ASSUME Interval \in Int, TypeInv, WaitInv, Next,
           \A d \in deferrers' \ deferrers :
                /\ d \in Deferrer
                /\ d.attempt \in 2 .. Attempts
                /\ clones[d.srid.run] > 0
                /\ clock - first[d.srid.run] >= Wait(d.attempt - 1)
    PROVE  \A d \in deferrers' : Asleep(d)'
<1>1. Later
  BY NextLater
<1>2. /\ deferrers' \subseteq Deferrer
      /\ \A d \in deferrers' :
            since'[d] = IF d \in deferrers THEN since[d] ELSE clock
  <2>1. CASE Tick
    BY <2>1 DEF Tick, TypeInv
  <2>2. CASE Dates
    BY <2>2 DEF Dates, TypeInv
  <2> QED BY <2>1, <2>2 DEF Next
<1>3. ASSUME NEW d \in deferrers', d \in deferrers PROVE Asleep(d)'
  BY <1>1, <1>2, <1>3, WaitedLater DEF WaitInv
<1>4. ASSUME NEW d \in deferrers', d \notin deferrers PROVE Asleep(d)'
  <2>1. d.srid.run \in Requests
    BY <1>2, Facts
  <2>2. /\ clones'[d.srid.run] > 0
        /\ first'[d.srid.run] = first[d.srid.run]
    BY <1>1, <1>4, <2>1 DEF Later, TypeInv
  <2>3. since'[d] = clock
    BY <1>2, <1>4
  <2> QED BY <1>4, <2>2, <2>3 DEF Asleep
<1> QED BY <1>3, <1>4

LEMMA NextWaitInv ==
    ASSUME Interval \in Int, TypeInv, WaitInv, Next
    PROVE  WaitInv'
<1>1. Later
  BY NextLater
<1>2. \A m \in RunMessage, i \in 1 .. Len(incoming) :
            m = incoming[i] => Ready(m)'
  BY <1>1, WaitedLater DEF WaitInv
<1>3. \A r \in cancelled : Overdue(r)'
  BY <1>1, WaitedLater DEF WaitInv, TypeInv
(* It is enough to look at what is new.                                      *)
<1>4. ASSUME \/ incoming' = incoming
             \/ incoming # <<>> /\ incoming' = Tail(incoming)
             \/ \E m \in RunMessage : /\ incoming' = Append(incoming, m)
                                      /\ Ready(m)'
      PROVE  \A i \in 1 .. Len(incoming') : Ready(incoming[i])'
  <2> SUFFICES ASSUME NEW i \in 1 .. Len(incoming')
               PROVE  \E m \in RunMessage : m = incoming'[i] /\ Ready(m)'
    BY DEF Ready
  <2>1. CASE incoming' = incoming
    BY <1>2, <2>1, Facts
  <2>2. CASE incoming # <<>> /\ incoming' = Tail(incoming)
    BY <1>2, <2>2, Facts
  <2>3. ASSUME NEW m \in RunMessage, incoming' = Append(incoming, m), Ready(m)'
        PROVE  \E n \in RunMessage : n = incoming'[i] /\ Ready(n)'
    <3>1. \/ i \in 1 .. Len(incoming) /\ incoming'[i] = incoming[i]
          \/ incoming'[i] = m
      BY <2>3, Facts, AppendProperties
    <3> QED BY <1>2, <2>3, <3>1, Facts
  <2> QED BY <1>4, <2>1, <2>2, <2>3
<1>5. ASSUME deferrers' \subseteq deferrers
      PROVE  \A d \in deferrers' : Asleep(d)'
  BY <1>5, Sleepers
<1>6. CASE Tick
  <2>1. UNCHANGED <<incoming, deferrers, cancelled>>
    BY <1>6 DEF Tick, queueVars, ledgerVars
  <2> QED BY <1>3, <1>4, <1>5, <2>1 DEF WaitInv
<1>7. CASE \/ MasterReceive \/ CloneSucceeds \/ CloneDrops \/ MasterWakes
           \/ (\E nc \in NETCONFIGS : MasterEnqueue(nc)) \/ MasterAck
           \/ MasterFails \/ \E d \in deferrers : DeferrerDies(d)
  <2>1. \/ UNCHANGED incoming
        \/ incoming # <<>> /\ incoming' = Tail(incoming)
    BY <1>7 DEF MasterReceive, CloneSucceeds, CloneDrops, MasterWakes,
       MasterEnqueue, MasterAck, MasterFails, DeferrerDies, queueVars, TypeInv
  <2>2. deferrers' \subseteq deferrers /\ UNCHANGED cancelled
    BY <1>7 DEF MasterReceive, CloneSucceeds, CloneDrops, MasterWakes,
       MasterEnqueue, MasterAck, MasterFails, DeferrerDies, ledgerVars
  <2> QED BY <1>3, <1>4, <1>5, <2>1, <2>2 DEF WaitInv
(* The message that srcloner runs for.                                       *)
<1>8. ASSUME master.phase = "cloning"
      PROVE  /\ master.srid \in Srid
             /\ Head(incoming).attempt \in 1 .. Attempts
             /\ clones[master.srid.run] > 0
             /\ clock - first[master.srid.run] >= Wait(Head(incoming).attempt)
  <2>1. incoming # <<>> /\ master.srid.run = Head(incoming).srid.run
    BY <1>8 DEF TypeInv
  <2>2. Ready(Head(incoming))
    BY <2>1, Facts DEF WaitInv
  <2> QED BY <1>8, <2>1, <2>2, Facts DEF Ready, TypeInv
<1>9. CASE CloneDefers
  <2>1. PICK d : /\ d = [srid |-> master.srid,
                         attempt |-> Head(incoming).attempt + 1,
                         cloner |-> clones[master.srid.run]]
                 /\ deferrers' = deferrers \union {d}
    BY <1>9 DEF CloneDefers
  <2>2. /\ master.phase = "cloning"
        /\ Head(incoming).attempt + 1 <= MaxAttempts
        /\ UNCHANGED <<incoming, cancelled>>
    BY <1>9 DEF CloneDefers, queueVars, ledgerVars
  <2>3. d.attempt - 1 = Head(incoming).attempt /\ d.attempt \in 2 .. Attempts
    BY <1>8, <2>1, <2>2, LimitFacts
  <2>4. d \in Deferrer
    <3>1. clones[master.srid.run] \in Nat /\ d.attempt \in Nat
      BY <2>3, LimitFacts, Facts DEF TypeInv
    <3> QED BY <1>8, <2>1, <2>2, <3>1 DEF Deferrer
  <2>5. /\ clones[d.srid.run] > 0
        /\ clock - first[d.srid.run] >= Wait(d.attempt - 1)
    BY <1>8, <2>1, <2>2, <2>3
  <2>6. \A e \in deferrers' : Asleep(e)'
    BY <2>1, <2>3, <2>4, <2>5, Sleepers
  <2> QED BY <1>3, <1>4, <2>2, <2>6 DEF WaitInv
<1>10. CASE CloneCancels
  <2>1. /\ master.phase = "cloning"
        /\ Head(incoming).attempt + 1 > MaxAttempts
        /\ UNCHANGED <<incoming, deferrers>>
        /\ cancelled' = cancelled \union {master.srid.run}
    BY <1>10 DEF CloneCancels, queueVars
  <2>2. Overdue(master.srid.run)
    BY <1>8, <2>1, LimitFacts DEF Overdue
  <2>3. \A r \in Requests : Overdue(r) => Overdue(r)'
    BY <1>1, WaitedLater
  <2>4. \A r \in cancelled' : Overdue(r)'
    BY <1>3, <2>1, <2>2, <2>3, Facts
  <2> QED BY <1>4, <1>5, <2>1, <2>4 DEF WaitInv
<1>11. ASSUME NEW r \in Requests, Submit(r) PROVE WaitInv'
  <2>1. PICK m \in RunMessage : /\ m.attempt = 1
                                /\ m.srid.run = r
                                /\ incoming' = Append(incoming, m)
    <3>1. [srid |-> FirstSrid(r), attempt |-> 1] \in RunMessage
      BY DEF RunMessage, Srid, FirstSrid
    <3> QED BY <1>11, <3>1 DEF Submit, FirstSrid
  <2>2. Ready(m)'
    <3>1. clock' - first'[m.srid.run] >= 0
      BY <1>1, <2>1 DEF Later
    <3>2. m.attempt \in 1 .. Attempts /\ ~(m.attempt > 1)
      BY <2>1, LimitFacts
    <3> QED BY <2>1, <3>1, <3>2, WaitFacts DEF Ready
  <2>3. UNCHANGED <<deferrers, cancelled>>
    BY <1>11 DEF Submit
  <2> QED BY <1>3, <1>4, <1>5, <2>1, <2>2, <2>3 DEF WaitInv
<1>12. ASSUME NEW d \in deferrers, Slept(d), DeferrerWakes(d) PROVE WaitInv'
  <2>1. PICK m \in RunMessage : /\ m.attempt = d.attempt
                                /\ m.srid = d.srid
                                /\ incoming' = Append(incoming, m)
    <3>1. [srid |-> d.srid, attempt |-> d.attempt] \in RunMessage
      BY DEF RunMessage, Deferrer, TypeInv
    <3> QED BY <1>12, <3>1 DEF DeferrerWakes
  <2>2. PICK k \in Nat : k = d.attempt - 1
    BY LimitFacts DEF WaitInv, Asleep
  <2>3. /\ d.attempt = k + 1 /\ d.attempt \in 2 .. Attempts
        /\ clones[d.srid.run] > 0
        /\ since[d] - first[d.srid.run] >= Wait(k)
        /\ clock >= since[d] + Interval
    BY <1>12, <2>2, LimitFacts DEF WaitInv, Asleep, Slept
  <2>4. /\ d.srid.run \in Requests
        /\ since[d] \in Int /\ clock \in Int /\ first[d.srid.run] \in Int
    BY Facts DEF TypeInv
  <2>5. clock - first[d.srid.run] >= Wait(d.attempt)
    <3>1. Wait(d.attempt) = Wait(k) + Interval /\ Wait(k) \in Int
      BY <2>3, WaitFacts
    <3>2. PICK w, u \in Int : w = Wait(k) /\ u = Interval
      BY <3>1
    <3>3. PICK c, s, f \in Int :
                c = clock /\ s = since[d] /\ f = first[d.srid.run]
      BY <2>4
    <3>4. s - f >= w /\ c >= s + u
      BY <2>3, <3>2, <3>3
    <3>5. c - f >= w + u
      BY <3>4
    <3> QED BY <3>1, <3>2, <3>3, <3>5
  <2>6. Ready(m)
    BY <2>1, <2>3, <2>5, LimitFacts DEF Ready
  <2>7. Ready(m)'
    BY <1>1, <2>6, WaitedLater
  <2>8. deferrers' \subseteq deferrers /\ UNCHANGED cancelled
    BY <1>12 DEF DeferrerWakes, ledgerVars
  <2> QED BY <1>3, <1>4, <1>5, <2>1, <2>7, <2>8 DEF WaitInv
<1> QED
  BY <1>6, <1>7, <1>9, <1>10, <1>11, <1>12 DEF Next, Step, MasterStep

(* Whatever the limit and the interval, and however often messages are       *)
(* delivered again, srcloner cancels no run before as many intervals as it   *)
(* has attempts, but one, have passed since the first of them.               *)
THEOREM WaitsBeforeCancelling ==
    ASSUME Interval \in Int
    PROVE  Spec => []Patience
<1>1. Init => TypeInv /\ WaitInv
  <2> SUFFICES ASSUME Init PROVE TypeInv /\ WaitInv
    OBVIOUS
  <2>1. /\ incoming = <<>> /\ deferrers = {} /\ cancelled = {}
        /\ clock = 1 /\ uuids = 0
        /\ clones = [r \in Requests |-> 0]
        /\ first = [r \in Requests |-> 0]
        /\ since = [d \in deferrers |-> clock]
    BY DEF Init, QueuesInit, MasterInit
  <2>2. master \in MasterState /\ master.phase = "idle"
    <3>1. (CHOOSE r \in Requests : TRUE) \in Requests
      BY RequestsAssumption
    <3> QED BY <3>1 DEF Init, MasterInit, Idle, FirstSrid, MasterState, Srid
  <2>3. incoming \in Seq(RunMessage) /\ Len(incoming) = 0
    BY <2>1
  <2> QED BY <2>1, <2>2, <2>3 DEF TypeInv, WaitInv
<1>2. TypeInv /\ WaitInv /\ [Next]_deferralVars => TypeInv' /\ WaitInv'
  <2> SUFFICES ASSUME TypeInv, WaitInv, UNCHANGED deferralVars
               PROVE  TypeInv' /\ WaitInv'
    BY NextTypeInv, NextWaitInv
  <2> QED
    BY DEF TypeInv, WaitInv, Ready, Asleep, Overdue, deferralVars, queueVars,
       masterVars, ledgerVars
<1>3. TypeInv /\ WaitInv => Patience
  BY LimitFacts DEF TypeInv, WaitInv, Overdue, Patience, Wait
<1> QED BY <1>1, <1>2, <1>3, PTL DEF Spec
=============================================================================
