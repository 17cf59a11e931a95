---------------------------- MODULE BuildsProofs ----------------------------
(***************************************************************************)
(* Proofs about the way of builds from a push to a client, module Builds,    *)
(* for every value of its constants.                                        *)
(***************************************************************************)
EXTENDS Builds, FiniteSetTheorems, SequenceTheorems, TLAPS

(* A process has each entry of its list once, and nothing that nobody asked   *)
(* for has been queued.                                                      *)
ListsInv ==
    /\ \A c \in Crons : IsInjective(todo[c])
    /\ \A r \in Requests \ asked : queued[r] = 0

TypeInv == TypeOK /\ ListsInv

(* Process c is between the mark of r and its enqueue.                       *)
HasMarked(c, r) == Running(c) /\ ~marking[c] /\ Head(todo[c]) = r
Markers(r) == {c \in Crons : HasMarked(c, r)}

(* Process c has r on its list.                                              *)
OnList(c, r) == \E i \in 1 .. Len(todo[c]) : todo[c][i] = r
Readers(r) == {c \in Crons : OnList(c, r)}

(* A push that the server still lists is queued once for each refused mark;  *)
(* from then on only those who have it on their list can queue it.           *)
CountInv(r) ==
    /\ r \in unhandled => queued[r] + Cardinality(Markers(r)) <= refusals
    /\ queued[r] + Cardinality(Readers(r)) <= Cardinality(Crons) + refusals

QueuedInv == \A r \in Requests : CountInv(r)

(* The pushes that the server no longer lists and whose marks led to         *)
(* nothing.                                                                  *)
Lost == {r \in asked \ unhandled : queued[r] = 0 /\ Markers(r) = {}}
LostInv == Cardinality(Lost) <= losses
-----------------------------------------------------------------------------
(* What there is to know of sequences.                                       *)
LEMMA TailOfInjective ==
    ASSUME NEW S, NEW s \in Seq(S), s # <<>>, IsInjective(s)
    PROVE  /\ IsInjective(Tail(s)) /\ Tail(s) \in Seq(S)
           /\ \A i \in 1 .. Len(Tail(s)) : Tail(s)[i] # Head(s)
           /\ \A i \in 1 .. Len(Tail(s)) : \E k \in 1 .. Len(s) : s[k] = Tail(s)[i]
           /\ \A k \in 1 .. Len(s) : s[k] = Head(s)
                    \/ \E i \in 1 .. Len(Tail(s)) : Tail(s)[i] = s[k]
<1>1. /\ Head(s) = s[1] /\ Tail(s) \in Seq(S) /\ Len(Tail(s)) = Len(s) - 1
      /\ \A i \in 1 .. Len(Tail(s)) : Tail(s)[i] = s[i + 1]
      /\ Len(s) \in Nat \ {0}
  BY HeadTailProperties, EmptySeq
<1>2. DOMAIN s = 1 .. Len(s) /\ DOMAIN Tail(s) = 1 .. Len(Tail(s))
  BY <1>1, LenProperties
<1>3. \A i \in 1 .. Len(s) - 1 : i + 1 \in 1 .. Len(s) /\ i + 1 # 1
  BY <1>1
<1>4. \A k \in 1 .. Len(s) : k = 1 \/ (k - 1 \in 1 .. Len(s) - 1 /\ (k - 1) + 1 = k)
  BY <1>1
<1>5. 1 \in 1 .. Len(s)
  BY <1>1
<1>6. IsInjective(Tail(s))
  <2> SUFFICES ASSUME NEW a \in 1 .. Len(s) - 1, NEW b \in 1 .. Len(s) - 1,
                      Tail(s)[a] = Tail(s)[b]
               PROVE  a = b
    BY <1>1, <1>2 DEF IsInjective
  <2>1. s[a + 1] = s[b + 1]
    BY <1>1
  <2>2. a + 1 = b + 1
    BY <1>2, <1>3, <2>1 DEF IsInjective
  <2> QED BY <2>2
<1>7. \A i \in 1 .. Len(Tail(s)) : Tail(s)[i] # Head(s)
  BY <1>1, <1>2, <1>3, <1>5 DEF IsInjective
<1>8. \A k \in 1 .. Len(s) : s[k] = Head(s)
            \/ \E i \in 1 .. Len(Tail(s)) : Tail(s)[i] = s[k]
  BY <1>1, <1>4
<1> QED BY <1>1, <1>3, <1>6, <1>7, <1>8

(* A list of all that the server calls unhandled.                            *)
LEMMA Entries ==
    ASSUME NEW S, IsFiniteSet(S), NEW s \in SetToSeqs(S)
    PROVE  s \in Seq(S) /\ IsInjective(s)
<1>1. Cardinality(S) \in Nat
  BY FS_CardinalityType
<1>2. /\ s \in [1 .. Cardinality(S) -> S]
      /\ \A i, j \in 1 .. Cardinality(S) : i # j => s[i] # s[j]
  BY DEF SetToSeqs
<1> QED BY <1>1, <1>2 DEF IsInjective

LEMMA AtTheEnd ==
    ASSUME NEW S, NEW s \in Seq(S), NEW e \in S
    PROVE  /\ Append(s, e) \in Seq(S) /\ Append(s, e) # <<>>
           /\ s # <<>> => Head(Append(s, e)) = Head(s)
<1>1. s # <<>> => Len(s) \in Nat \ {0}
  BY EmptySeq
<1>2. s # <<>> => 1 \in 1 .. Len(s)
  BY <1>1
<1>3. /\ Append(s, e) \in Seq(S) /\ Append(s, e) # <<>>
      /\ \A i \in 1 .. Len(s) : Append(s, e)[i] = s[i]
  BY AppendProperties
<1>4. s # <<>> => Head(s) = s[1] /\ Head(Append(s, e)) = Append(s, e)[1]
  BY <1>3, HeadTailProperties
<1> QED BY <1>2, <1>3, <1>4
-----------------------------------------------------------------------------
(* The types of what srenqueuer does.                                        *)
LEMMA FaultTypes ==
    ASSUME TypeInv, NoFault \/ Refuses \/ Loses
    PROVE  /\ faults' \in 0 .. MaxFaults /\ faults' >= faults
           /\ refusals' \in 0 .. faults' /\ losses' \in 0 .. faults'
           /\ refusals' >= refusals /\ losses' >= losses
<1>1. /\ faults \in 0 .. MaxFaults
      /\ refusals \in 0 .. faults /\ losses \in 0 .. faults
      /\ MaxFaults \in Nat
  BY EnqueuerAssumption DEF TypeInv, TypeOK, EnqueuerTypeOK
<1>2. CASE NoFault
  BY <1>1, <1>2 DEF NoFault
<1>3. CASE Refuses
  BY <1>1, <1>3 DEF Refuses, Fault
<1>4. CASE Loses
  BY <1>1, <1>4 DEF Loses, Fault
<1> QED BY <1>2, <1>3, <1>4

(* A longer list of pushes that were asked for.                              *)
LEMMA MoreAsked ==
    ASSUME TypeInv, NEW r \in Requests, Push(r)
    PROVE  todo' \in [Crons -> Seq(asked')]
<1>1. todo \in [Crons -> Seq(asked)] /\ todo' = todo
  BY DEF TypeInv, TypeOK, EnqueuerTypeOK, Push
<1>2. asked \subseteq asked'
  BY DEF Push
<1>3. ASSUME NEW c \in Crons PROVE todo[c] \in Seq(asked')
  BY <1>1, <1>2
<1> QED BY <1>1, <1>3

LEMMA EnqueuerTypes ==
    ASSUME TypeInv, EnqueuerStep
    PROVE  /\ EnqueuerTypeOK' /\ ListsInv' /\ faults' >= faults
           /\ incoming' \in Seq(RunMessage)
           /\ incoming # <<>> => incoming' # <<>> /\ Head(incoming') = Head(incoming)
<1>1. EnqueuerTypeOK /\ ListsInv /\ incoming \in Seq(RunMessage)
  BY DEF TypeInv, TypeOK, StoreTypeOK
<1>2. IsFiniteSet(unhandled)
  <2>1. unhandled \in SUBSET Requests
    BY <1>1 DEF EnqueuerTypeOK
  <2> QED BY <2>1, EnqueuerAssumption, FS_Subset
<1>3. NoFault \/ Refuses \/ Loses =>
          /\ faults' \in 0 .. MaxFaults /\ faults' >= faults
          /\ refusals' \in 0 .. faults' /\ losses' \in 0 .. faults'
  BY FaultTypes
<1>4. ASSUME NEW r \in Requests, Push(r)
      PROVE  EnqueuerTypeOK' /\ ListsInv' /\ incoming' = incoming /\ faults' >= faults
  <2>1. UNCHANGED <<todo, marking, incoming, queued>> /\ NoFault
    BY <1>4 DEF Push
  <2>2. asked' = asked \union {r} /\ unhandled' = unhandled \union {r}
    BY <1>4 DEF Push
  <2>3. ListsInv'
    BY <1>1, <2>1, <2>2 DEF ListsInv
  <2>4. todo' \in [Crons -> Seq(asked')]
    BY <1>4, MoreAsked
  <2>5. EnqueuerTypeOK'
    BY <1>1, <1>3, <2>1, <2>2, <2>4 DEF EnqueuerTypeOK
  <2> QED BY <1>3, <2>1, <2>3, <2>5
<1>5. ASSUME NEW c \in Crons, NEW s \in Seq(asked), IsInjective(s),
             todo' = [todo EXCEPT ![c] = s], unhandled' \subseteq unhandled,
             asked' = asked, marking' \in [Crons -> BOOLEAN],
             queued' \in [Requests -> Nat],
             \A r \in Requests \ asked : queued'[r] = 0,
             NoFault \/ Refuses \/ Loses
      PROVE  EnqueuerTypeOK' /\ ListsInv'
  <2>1. todo' \in [Crons -> Seq(asked')]
    BY <1>1, <1>5 DEF EnqueuerTypeOK
  <2>2. \A d \in Crons : IsInjective(todo'[d])
    BY <1>1, <1>5 DEF EnqueuerTypeOK, ListsInv
  <2>3. asked' \subseteq Requests /\ unhandled' \subseteq asked'
    BY <1>1, <1>5 DEF EnqueuerTypeOK
  <2>4. ListsInv'
    BY <1>5, <2>2 DEF ListsInv
  <2>5. EnqueuerTypeOK'
    BY <1>3, <1>5, <2>1, <2>3 DEF EnqueuerTypeOK
  <2> QED BY <2>4, <2>5
<1>6. <<>> \in Seq(asked) /\ IsInjective(<<>>)
  <2>1. <<>> \in Seq(asked) /\ Len(<<>>) = 0
    BY EmptySeq
  <2>2. DOMAIN <<>> = {}
    OBVIOUS
  <2> QED BY <2>1, <2>2 DEF IsInjective
<1>7. ASSUME NEW c \in Crons,
             Mark(c) \/ MarkIsRefused(c)
      PROVE  EnqueuerTypeOK' /\ ListsInv' /\ incoming' = incoming
             /\ (NoFault \/ Refuses \/ Loses)
  <2>1. /\ UNCHANGED <<asked, todo, incoming, queued>>
        /\ unhandled' \subseteq unhandled
        /\ marking' = [marking EXCEPT ![c] = FALSE]
        /\ NoFault \/ Refuses
    BY <1>7 DEF Mark, MarkIsRefused
  <2>2. marking' \in [Crons -> BOOLEAN]
    BY <1>1, <2>1 DEF EnqueuerTypeOK
  <2>3. todo[c] \in Seq(asked) /\ todo' = [todo EXCEPT ![c] = todo[c]]
    BY <1>1, <2>1 DEF EnqueuerTypeOK
  <2>4. \A r \in Requests \ asked : queued'[r] = 0
    BY <1>1, <2>1 DEF ListsInv
  <2> QED BY <1>1, <1>5, <2>1, <2>2, <2>3, <2>4 DEF EnqueuerTypeOK, ListsInv
<1>8. ASSUME NEW c \in Crons, MarkRaises(c) \/ EnqueueRaises(c)
      PROVE  EnqueuerTypeOK' /\ ListsInv' /\ incoming' = incoming
             /\ (NoFault \/ Refuses \/ Loses)
  <2>1. /\ UNCHANGED <<asked, marking, incoming, queued>>
        /\ unhandled' \subseteq unhandled
        /\ todo' = [todo EXCEPT ![c] = <<>>]
        /\ NoFault \/ Loses
    BY <1>8 DEF MarkRaises, EnqueueRaises
  <2> QED BY <1>1, <1>5, <1>6, <2>1 DEF EnqueuerTypeOK, ListsInv
<1>9. ASSUME NEW c \in Crons, List(c)
      PROVE  EnqueuerTypeOK' /\ ListsInv' /\ incoming' = incoming
             /\ (NoFault \/ Refuses \/ Loses)
  <2>1. PICK s \in SetToSeqs(unhandled) : todo' = [todo EXCEPT ![c] = s]
    BY <1>9 DEF List
  <2>2. s \in Seq(unhandled) /\ IsInjective(s)
    BY <1>2, Entries
  <2>3. s \in Seq(asked)
    BY <1>1, <2>2 DEF EnqueuerTypeOK
  <2>4. /\ UNCHANGED <<asked, unhandled, incoming, queued>> /\ NoFault
        /\ marking' = [marking EXCEPT ![c] = TRUE]
    BY <1>9 DEF List
  <2>5. marking' \in [Crons -> BOOLEAN]
    BY <1>1, <2>4 DEF EnqueuerTypeOK
  <2> QED
    BY <1>1, <1>5, <2>1, <2>2, <2>3, <2>4, <2>5 DEF EnqueuerTypeOK, ListsInv
<1>10. ASSUME NEW c \in Crons, Enqueue(c)
       PROVE  /\ EnqueuerTypeOK' /\ ListsInv' /\ (NoFault \/ Refuses \/ Loses)
              /\ incoming' \in Seq(RunMessage)
              /\ incoming # <<>> =>
                    incoming' # <<>> /\ Head(incoming') = Head(incoming)
  <2>1. todo[c] \in Seq(asked) /\ todo[c] # <<>> /\ IsInjective(todo[c])
    BY <1>1, <1>10 DEF EnqueuerTypeOK, ListsInv, Enqueue, Running
  <2>2. /\ Head(todo[c]) \in asked /\ Tail(todo[c]) \in Seq(asked)
        /\ IsInjective(Tail(todo[c]))
    BY <2>1, TailOfInjective, HeadTailProperties
  <2>3. /\ incoming' = Append(incoming, [srid |-> Head(todo[c]), attempt |-> 1])
        /\ queued' = [queued EXCEPT ![Head(todo[c])] = @ + 1]
        /\ todo' = [todo EXCEPT ![c] = Tail(todo[c])]
        /\ marking' = [marking EXCEPT ![c] = TRUE]
        /\ UNCHANGED <<asked, unhandled>> /\ NoFault
    BY <1>1, <1>10 DEF Enqueue, EnqueuerTypeOK
  <2>4. [srid |-> Head(todo[c]), attempt |-> 1] \in RunMessage
    BY <1>1, <2>2 DEF RunMessage, EnqueuerTypeOK
  <2>5. queued' \in [Requests -> Nat] /\ \A r \in Requests \ asked : queued'[r] = 0
    BY <1>1, <2>2, <2>3 DEF EnqueuerTypeOK, ListsInv
  <2>6. marking' \in [Crons -> BOOLEAN]
    BY <1>1, <2>3 DEF EnqueuerTypeOK
  <2>7. EnqueuerTypeOK' /\ ListsInv'
    BY <1>5, <2>2, <2>3, <2>5, <2>6
  <2> QED BY <1>1, <2>3, <2>4, <2>7, AtTheEnd
<1> QED BY <1>1, <1>3, <1>4, <1>7, <1>8, <1>9, <1>10 DEF EnqueuerStep
-----------------------------------------------------------------------------
(* How often a push is queued.                                               *)
LEMMA Counting ==
    ASSUME NEW S, IsFiniteSet(S), NEW T
    PROVE  /\ Cardinality(S) \in Nat
           /\ T \subseteq S => Cardinality(T) \in Nat /\ Cardinality(T) <= Cardinality(S)
           /\ \A x : T \subseteq S \union {x} => Cardinality(T) <= Cardinality(S) + 1
           /\ \A x \in S : T \subseteq S \ {x} => Cardinality(T) + 1 <= Cardinality(S)
<1>1. Cardinality(S) \in Nat
  BY FS_CardinalityType
<1>2. ASSUME T \subseteq S
      PROVE  Cardinality(T) \in Nat /\ Cardinality(T) <= Cardinality(S)
  BY <1>2, FS_Subset, FS_CardinalityType
<1>3. ASSUME NEW x, T \subseteq S \union {x}
      PROVE  Cardinality(T) <= Cardinality(S) + 1
  <2>1. /\ IsFiniteSet(S \union {x})
        /\ Cardinality(S \union {x}) \in {Cardinality(S), Cardinality(S) + 1}
    BY FS_AddElement
  <2>2. Cardinality(T) <= Cardinality(S \union {x}) /\ Cardinality(T) \in Nat
    BY <1>3, <2>1, FS_Subset, FS_CardinalityType
  <2> QED BY <1>1, <2>1, <2>2
<1>4. ASSUME NEW x \in S, T \subseteq S \ {x}
      PROVE  Cardinality(T) + 1 <= Cardinality(S)
  <2>1. IsFiniteSet(S \ {x}) /\ Cardinality(S \ {x}) = Cardinality(S) - 1
    BY FS_RemoveElement
  <2>2. Cardinality(T) <= Cardinality(S \ {x}) /\ Cardinality(T) \in Nat
    BY <1>4, <2>1, FS_Subset, FS_CardinalityType
  <2> QED BY <1>1, <2>1, <2>2
<1> QED BY <1>1, <1>2, <1>3, <1>4

LEMMA MarkersAndReaders ==
    ASSUME NEW r
    PROVE  /\ IsFiniteSet(Markers(r)) /\ IsFiniteSet(Readers(r))
           /\ IsFiniteSet(Readers(r)') /\ IsFiniteSet(Markers(r)')
           /\ Cardinality(Markers(r)) \in Nat /\ Cardinality(Readers(r)) \in Nat
           /\ Cardinality(Markers(r)') \in Nat /\ Cardinality(Readers(r)') \in Nat
           /\ Cardinality(Readers(r)') <= Cardinality(Crons)
           /\ Cardinality(Crons) \in Nat
<1>1. /\ Markers(r) \in SUBSET Crons /\ Readers(r) \in SUBSET Crons
      /\ Markers(r)' \in SUBSET Crons /\ Readers(r)' \in SUBSET Crons
  BY DEF Markers, Readers
<1> QED BY <1>1, EnqueuerAssumption, FS_Subset, FS_CardinalityType

(* The head of a list is on it.                                              *)
LEMMA HeadIsOnList ==
    ASSUME TypeInv, NEW c \in Crons, Running(c)
    PROVE  /\ todo[c] \in Seq(asked) /\ IsInjective(todo[c])
           /\ Head(todo[c]) \in asked /\ Head(todo[c]) \in Requests
           /\ OnList(c, Head(todo[c]))
<1>1. /\ todo[c] \in Seq(asked) /\ todo[c] # <<>> /\ IsInjective(todo[c])
      /\ asked \subseteq Requests
  BY DEF TypeInv, TypeOK, EnqueuerTypeOK, ListsInv, Running
<1>2. Head(todo[c]) \in asked /\ Head(todo[c]) = todo[c][1] /\ Len(todo[c]) \in Nat \ {0}
  BY <1>1, HeadTailProperties, EmptySeq
<1>3. 1 \in 1 .. Len(todo[c])
  BY <1>2
<1> QED BY <1>1, <1>2, <1>3 DEF OnList

(* What one process does, seen from a push.                                  *)
LEMMA OtherProcesses ==
    ASSUME TypeInv, NEW c \in Crons, NEW s, NEW b,
           todo' = [todo EXCEPT ![c] = s], marking' = [marking EXCEPT ![c] = b]
    PROVE  /\ todo'[c] = s /\ marking'[c] = b
           /\ \A d \in Crons \ {c} : \A r :
                  /\ HasMarked(d, r)' <=> HasMarked(d, r)
                  /\ OnList(d, r)' <=> OnList(d, r)
<1>1. todo \in [Crons -> Seq(asked)] /\ marking \in [Crons -> BOOLEAN]
  BY DEF TypeInv, TypeOK, EnqueuerTypeOK
<1>2. \A d \in Crons \ {c} : todo'[d] = todo[d] /\ marking'[d] = marking[d]
  BY <1>1
<1>3. todo'[c] = s /\ marking'[c] = b
  BY <1>1
<1> QED BY <1>2, <1>3 DEF HasMarked, OnList, Running

LEMMA EmptyList == \A c, r : todo[c] = <<>> => ~OnList(c, r) /\ ~HasMarked(c, r)
<1> SUFFICES ASSUME NEW c, NEW r, todo[c] = <<>>
             PROVE  ~OnList(c, r) /\ ~HasMarked(c, r)
  OBVIOUS
<1>1. Len(todo[c]) = 0
  BY EmptySeq
<1> QED BY <1>1 DEF OnList, HasMarked, Running

(* The numbers that CountInv adds and compares.                              *)
LEMMA CountTypes ==
    ASSUME TypeInv, NEW r \in Requests
    PROVE  queued[r] \in Nat /\ refusals \in Nat
BY EnqueuerAssumption DEF TypeInv, TypeOK, EnqueuerTypeOK

(* A step that queues r no more, and marks it for nobody, leaves the count.   *)
LEMMA QuietCount ==
    ASSUME TypeInv, TypeInv', NEW r \in Requests, CountInv(r),
           queued'[r] = queued[r], refusals' >= refusals,
           r \in unhandled' => r \in unhandled /\ Markers(r)' \subseteq Markers(r),
           Readers(r)' \subseteq Readers(r)
    PROVE  CountInv(r)'
<1>1. /\ queued[r] \in Nat /\ refusals \in Nat
      /\ queued'[r] \in Nat /\ refusals' \in Nat
  BY CountTypes, EnqueuerAssumption DEF TypeInv, TypeOK, EnqueuerTypeOK
<1>2. /\ Cardinality(Markers(r)) \in Nat /\ Cardinality(Readers(r)) \in Nat
      /\ Cardinality(Markers(r)') \in Nat /\ Cardinality(Readers(r)') \in Nat
      /\ Cardinality(Crons) \in Nat
      /\ IsFiniteSet(Markers(r)) /\ IsFiniteSet(Readers(r))
  BY MarkersAndReaders
<1>3. Cardinality(Readers(r)') <= Cardinality(Readers(r))
  BY <1>2, Counting
<1>4. r \in unhandled' => Cardinality(Markers(r)') <= Cardinality(Markers(r))
  BY <1>2, Counting
<1> QED BY <1>1, <1>2, <1>3, <1>4 DEF CountInv

(* The same, said of the processes: c is the only one that does anything.     *)
LEMMA QuietProcess ==
    ASSUME NEW c \in Crons, NEW r,
           \A d \in Crons \ {c} : /\ HasMarked(d, r)' <=> HasMarked(d, r)
                                  /\ OnList(d, r)' <=> OnList(d, r)
    PROVE  /\ (HasMarked(c, r)' => HasMarked(c, r))
                => Markers(r)' \subseteq Markers(r)
           /\ (OnList(c, r)' => OnList(c, r))
                => Readers(r)' \subseteq Readers(r)
           /\ Markers(r)' \subseteq Markers(r) \union {c}
           /\ ~HasMarked(c, r)' => Markers(r)' \subseteq Markers(r) \ {c}
           /\ ~OnList(c, r)' => Readers(r)' \subseteq Readers(r) \ {c}
BY DEF Markers, Readers

LEMMA PushCounts ==
    ASSUME TypeInv, TypeInv', QueuedInv, NEW p \in Requests, Push(p)
    PROVE  QueuedInv'
<1> SUFFICES ASSUME NEW r \in Requests PROVE CountInv(r)'
  BY DEF QueuedInv
<1>1. /\ todo' = todo /\ marking' = marking /\ queued' = queued
      /\ refusals' = refusals /\ unhandled' = unhandled \union {p} /\ p \notin asked
  BY DEF Push, NoFault
<1>2. Markers(r)' = Markers(r) /\ Readers(r)' = Readers(r)
  BY <1>1 DEF Markers, Readers, HasMarked, OnList, Running
<1>3. CASE r # p
  BY <1>1, <1>2, <1>3, QuietCount, CountTypes DEF QueuedInv
<1>4. CASE r = p
  <2>1. queued[r] = 0
    BY <1>1, <1>4 DEF TypeInv, ListsInv
  <2>2. \A c \in Crons : ~OnList(c, r)
    <3> SUFFICES ASSUME NEW c \in Crons, OnList(c, r) PROVE FALSE
      OBVIOUS
    <3>1. todo[c] \in Seq(asked)
      BY DEF TypeInv, TypeOK, EnqueuerTypeOK
    <3>2. r \in asked
      BY <3>1, ElementOfSeq DEF OnList
    <3> QED BY <1>1, <1>4, <3>2
  <2>3. \A c \in Crons : ~HasMarked(c, r)
    BY <2>2, HeadIsOnList DEF HasMarked
  <2>4. Markers(r)' = {} /\ Readers(r)' = {}
    BY <1>2, <2>2, <2>3 DEF Markers, Readers
  <2>5. Cardinality({}) = 0
    BY FS_EmptySet
  <2>6. /\ queued'[r] = 0 /\ refusals' \in Nat /\ Cardinality(Crons) \in Nat
    BY <1>1, <2>1, CountTypes, MarkersAndReaders
  <2> QED BY <2>4, <2>5, <2>6 DEF CountInv
<1> QED BY <1>3, <1>4

(* Whoever reads the list from the server may queue what is on it once.      *)
LEMMA ListCounts ==
    ASSUME TypeInv, TypeInv', QueuedInv, NEW c \in Crons, List(c)
    PROVE  QueuedInv'
<1> SUFFICES ASSUME NEW r \in Requests PROVE CountInv(r)'
  BY DEF QueuedInv
<1>1. PICK s \in SetToSeqs(unhandled) : todo' = [todo EXCEPT ![c] = s]
  BY DEF List
<1>2. /\ marking' = [marking EXCEPT ![c] = TRUE]
      /\ UNCHANGED <<unhandled, queued, refusals>> /\ ~Running(c)
  BY DEF List, NoFault
<1>3. s \in Seq(unhandled)
  <2>1. unhandled \in SUBSET Requests
    BY DEF TypeInv, TypeOK, EnqueuerTypeOK
  <2>2. IsFiniteSet(unhandled)
    BY <2>1, EnqueuerAssumption, FS_Subset
  <2> QED BY <2>2, Entries
<1>4. /\ todo'[c] = s /\ marking'[c] = TRUE
      /\ \A d \in Crons \ {c} : /\ HasMarked(d, r)' <=> HasMarked(d, r)
                                /\ OnList(d, r)' <=> OnList(d, r)
  BY <1>1, <1>2, OtherProcesses
<1>5. ~HasMarked(c, r)'
  BY <1>4 DEF HasMarked
<1>6. Markers(r)' \subseteq Markers(r)
  BY <1>4, <1>5, QuietProcess
<1>7. /\ queued'[r] = queued[r] /\ refusals' = refusals
      /\ queued[r] \in Nat /\ refusals \in Nat
  BY <1>2, CountTypes
<1>8. CASE r \notin unhandled
  <2>1. ~OnList(c, r)'
    <3>1. OnList(c, r)' <=> \E i \in 1 .. Len(s) : s[i] = r
      BY <1>4 DEF OnList
    <3>2. \A i \in 1 .. Len(s) : s[i] \in unhandled
      BY <1>3, ElementOfSeq
    <3> QED BY <1>8, <3>1, <3>2
  <2>2. Readers(r)' \subseteq Readers(r)
    BY <1>4, <2>1, QuietProcess
  <2> QED BY <1>2, <1>6, <1>7, <2>2, QuietCount DEF QueuedInv
<1>9. CASE r \in unhandled
  <2>1. /\ Cardinality(Markers(r)) \in Nat /\ Cardinality(Markers(r)') \in Nat
        /\ Cardinality(Readers(r)') \in Nat
        /\ Cardinality(Readers(r)') <= Cardinality(Crons)
        /\ Cardinality(Crons) \in Nat /\ IsFiniteSet(Markers(r))
    BY MarkersAndReaders
  <2>2. Cardinality(Markers(r)') <= Cardinality(Markers(r))
    BY <1>6, <2>1, Counting
  <2>3. queued[r] + Cardinality(Markers(r)) <= refusals
    BY <1>9 DEF QueuedInv, CountInv
  <2> QED BY <1>7, <2>1, <2>2, <2>3 DEF CountInv
<1> QED BY <1>8, <1>9

LEMMA MarkCounts ==
    ASSUME TypeInv, TypeInv', QueuedInv, NEW c \in Crons,
           Mark(c) \/ MarkIsRefused(c)
    PROVE  QueuedInv'
<1> SUFFICES ASSUME NEW r \in Requests PROVE CountInv(r)'
  BY DEF QueuedInv
<1>1. /\ Running(c) /\ marking' = [marking EXCEPT ![c] = FALSE]
      /\ UNCHANGED <<todo, queued>> /\ refusals' \in {refusals, refusals + 1}
      /\ \/ unhandled' = unhandled \ {Head(todo[c])}
         \/ unhandled' = unhandled /\ refusals' = refusals + 1
  BY DEF Mark, MarkIsRefused, NoFault, Refuses
<1>2. todo' = [todo EXCEPT ![c] = todo[c]]
  BY <1>1 DEF TypeInv, TypeOK, EnqueuerTypeOK
<1>3. /\ todo'[c] = todo[c] /\ marking'[c] = FALSE
      /\ \A d \in Crons \ {c} : /\ HasMarked(d, r)' <=> HasMarked(d, r)
                                /\ OnList(d, r)' <=> OnList(d, r)
  BY <1>1, <1>2, OtherProcesses
<1>4. Readers(r)' \subseteq Readers(r)
  BY <1>1 DEF Readers, OnList
<1>5. /\ queued'[r] = queued[r] /\ queued[r] \in Nat /\ refusals \in Nat
      /\ refusals' >= refusals
  BY <1>1, CountTypes
<1>6. CASE Head(todo[c]) # r \/ r \notin unhandled'
  <2>1. Head(todo[c]) # r => ~HasMarked(c, r)'
    BY <1>3 DEF HasMarked
  <2>2. Head(todo[c]) # r => Markers(r)' \subseteq Markers(r)
    BY <1>3, <2>1, QuietProcess
  <2>3. r \in unhandled' => r \in unhandled /\ Markers(r)' \subseteq Markers(r)
    BY <1>1, <1>6, <2>2
  <2> QED BY <1>4, <1>5, <2>3, QuietCount DEF QueuedInv
<1>7. CASE Head(todo[c]) = r /\ r \in unhandled'
  <2>1. r \in unhandled /\ refusals' = refusals + 1
    BY <1>1, <1>7
  <2>2. Markers(r)' \subseteq Markers(r) \union {c}
    BY <1>3, QuietProcess
  <2>3. /\ Cardinality(Markers(r)) \in Nat /\ Cardinality(Markers(r)') \in Nat
        /\ Cardinality(Readers(r)) \in Nat /\ Cardinality(Readers(r)') \in Nat
        /\ IsFiniteSet(Markers(r)) /\ IsFiniteSet(Readers(r))
        /\ Cardinality(Crons) \in Nat
    BY MarkersAndReaders
  <2>4. Cardinality(Markers(r)') <= Cardinality(Markers(r)) + 1
    BY <2>2, <2>3, Counting
  <2>5. Cardinality(Readers(r)') <= Cardinality(Readers(r))
    BY <1>4, <2>3, Counting
  <2>6. CountInv(r)
    BY DEF QueuedInv
  <2> QED BY <1>5, <2>1, <2>3, <2>4, <2>5, <2>6 DEF CountInv
<1> QED BY <1>6, <1>7

LEMMA EndCounts ==
    ASSUME TypeInv, TypeInv', QueuedInv, NEW c \in Crons,
           MarkRaises(c) \/ EnqueueRaises(c)
    PROVE  QueuedInv'
<1> SUFFICES ASSUME NEW r \in Requests PROVE CountInv(r)'
  BY DEF QueuedInv
<1>1. /\ todo' = [todo EXCEPT ![c] = <<>>] /\ UNCHANGED <<marking, queued, refusals>>
      /\ unhandled' \subseteq unhandled
  BY DEF MarkRaises, EnqueueRaises, NoFault, Loses
<1>2. marking' = [marking EXCEPT ![c] = marking[c]]
  BY <1>1 DEF TypeInv, TypeOK, EnqueuerTypeOK
<1>3. /\ todo'[c] = <<>>
      /\ \A d \in Crons \ {c} : /\ HasMarked(d, r)' <=> HasMarked(d, r)
                                /\ OnList(d, r)' <=> OnList(d, r)
  BY <1>1, <1>2, OtherProcesses
<1>4. ~OnList(c, r)' /\ ~HasMarked(c, r)'
  <2>1. Len(<<>>) = 0
    BY EmptySeq
  <2> QED BY <1>3, <2>1 DEF OnList, HasMarked, Running
<1>5. Readers(r)' \subseteq Readers(r) /\ Markers(r)' \subseteq Markers(r)
  BY <1>3, <1>4, QuietProcess
<1>6. refusals' >= refusals /\ queued'[r] = queued[r]
  BY <1>1, CountTypes
<1> QED BY <1>1, <1>5, <1>6, QuietCount DEF QueuedInv

(* What is left of a list after its head.                                    *)
LEMMA EnqueueTakes ==
    ASSUME TypeInv, NEW c \in Crons, Enqueue(c), NEW r, NEW h,
           h = Head(todo[c])
    PROVE  /\ \A d \in Crons \ {c} : /\ HasMarked(d, r)' <=> HasMarked(d, r)
                                     /\ OnList(d, r)' <=> OnList(d, r)
           /\ ~HasMarked(c, r)' /\ HasMarked(c, h)
           /\ OnList(c, r)' => OnList(c, r)
           /\ OnList(c, r) /\ r # h => OnList(c, r)'
           /\ ~OnList(c, h)'
<1>1. /\ todo' = [todo EXCEPT ![c] = Tail(todo[c])]
      /\ marking' = [marking EXCEPT ![c] = TRUE]
      /\ Running(c) /\ ~marking[c]
  BY DEF Enqueue, TypeInv, TypeOK, EnqueuerTypeOK
<1>2. /\ todo'[c] = Tail(todo[c]) /\ marking'[c] = TRUE
      /\ \A d \in Crons \ {c} : /\ HasMarked(d, r)' <=> HasMarked(d, r)
                                /\ OnList(d, r)' <=> OnList(d, r)
  BY <1>1, OtherProcesses
<1>3. todo[c] \in Seq(asked) /\ todo[c] # <<>> /\ IsInjective(todo[c])
  BY <1>1, HeadIsOnList DEF Running
<1> DEFINE s == todo[c]
<1>4. /\ \A i \in 1 .. Len(Tail(s)) : Tail(s)[i] # Head(s)
      /\ \A i \in 1 .. Len(Tail(s)) : \E k \in 1 .. Len(s) : s[k] = Tail(s)[i]
      /\ \A k \in 1 .. Len(s) : s[k] = Head(s)
                \/ \E i \in 1 .. Len(Tail(s)) : Tail(s)[i] = s[k]
  BY <1>3, TailOfInjective
<1> HIDE DEF s
<1>5. \A x : /\ OnList(c, x) <=> \E i \in 1 .. Len(s) : s[i] = x
             /\ OnList(c, x)' <=> \E i \in 1 .. Len(Tail(s)) : Tail(s)[i] = x
  BY <1>2 DEF OnList, s
<1>6. OnList(c, r)' => OnList(c, r)
  BY <1>4, <1>5
<1>7. OnList(c, r) /\ r # Head(s) => OnList(c, r)'
  BY <1>4, <1>5
<1>8. h = Head(s)
  BY DEF s
<1>9. ~OnList(c, h)'
  BY <1>4, <1>5, <1>8
<1>10. ~HasMarked(c, r)' /\ HasMarked(c, h)
  BY <1>1, <1>2 DEF HasMarked
<1> QED BY <1>2, <1>6, <1>7, <1>8, <1>9, <1>10

LEMMA EnqueueCounts ==
    ASSUME TypeInv, TypeInv', QueuedInv, NEW c \in Crons, Enqueue(c)
    PROVE  QueuedInv'
<1> SUFFICES ASSUME NEW r \in Requests PROVE CountInv(r)'
  BY DEF QueuedInv
<1> DEFINE h == Head(todo[c])
<1>1. PICK k : k = h
  OBVIOUS
<1> HIDE DEF h
<1>2. /\ queued' = [queued EXCEPT ![k] = @ + 1]
      /\ UNCHANGED <<unhandled, refusals>> /\ Running(c)
  BY <1>1 DEF Enqueue, NoFault, h
<1>3. k \in Requests /\ OnList(c, k)
  BY <1>1, <1>2, HeadIsOnList DEF h
<1>4. /\ \A d \in Crons \ {c} : /\ HasMarked(d, r)' <=> HasMarked(d, r)
                                /\ OnList(d, r)' <=> OnList(d, r)
      /\ ~HasMarked(c, r)' /\ HasMarked(c, k)
      /\ OnList(c, r)' => OnList(c, r)
      /\ ~OnList(c, k)'
  BY <1>1, EnqueueTakes DEF h
<1>5. /\ Markers(r)' \subseteq Markers(r) \ {c}
      /\ Readers(r)' \subseteq Readers(r)
      /\ r = k => Readers(r)' \subseteq Readers(r) \ {c}
  BY <1>4, QuietProcess
<1>6. /\ queued \in [Requests -> Nat] /\ queued[r] \in Nat /\ refusals \in Nat
      /\ refusals' = refusals
  BY <1>2, CountTypes DEF TypeInv, TypeOK, EnqueuerTypeOK
<1>7. CASE r # k
  <2>1. queued'[r] = queued[r] /\ refusals' >= refusals
    BY <1>2, <1>6, <1>7
  <2> QED BY <1>2, <1>5, <2>1, QuietCount DEF QueuedInv
<1>8. CASE r = k
  <2>1. c \in Markers(r) /\ c \in Readers(r)
    BY <1>3, <1>4, <1>8 DEF Markers, Readers
  <2>2. /\ Cardinality(Markers(r)) \in Nat /\ Cardinality(Markers(r)') \in Nat
        /\ Cardinality(Readers(r)) \in Nat /\ Cardinality(Readers(r)') \in Nat
        /\ IsFiniteSet(Markers(r)) /\ IsFiniteSet(Readers(r))
        /\ Cardinality(Crons) \in Nat
    BY MarkersAndReaders
  <2>3. Cardinality(Markers(r)') + 1 <= Cardinality(Markers(r))
    BY <1>5, <2>1, <2>2, Counting
  <2>4. Cardinality(Readers(r)') + 1 <= Cardinality(Readers(r))
    BY <1>5, <1>8, <2>1, <2>2, Counting
  <2>5. queued'[r] = queued[r] + 1
    BY <1>2, <1>6, <1>8
  <2>6. CountInv(r) /\ unhandled' = unhandled
    BY <1>2 DEF QueuedInv
  <2> QED BY <1>6, <2>2, <2>3, <2>4, <2>5, <2>6 DEF CountInv
<1> QED BY <1>7, <1>8

LEMMA EnqueuerCounts ==
    ASSUME TypeInv, TypeInv', QueuedInv, EnqueuerStep
    PROVE  QueuedInv'
BY PushCounts, ListCounts, MarkCounts, EndCounts, EnqueueCounts DEF EnqueuerStep
-----------------------------------------------------------------------------
(* What becomes of a push after its mark.                                    *)
LEMMA QuietLosses ==
    ASSUME TypeInv, TypeInv', LostInv, Lost' \subseteq Lost, losses' >= losses
    PROVE  LostInv'
<1>1. Lost \in SUBSET Requests /\ losses \in Nat /\ losses' \in Nat
  BY EnqueuerAssumption DEF Lost, TypeInv, TypeOK, EnqueuerTypeOK
<1>2. IsFiniteSet(Lost)
  BY <1>1, EnqueuerAssumption, FS_Subset
<1>3. /\ Cardinality(Lost) \in Nat /\ Cardinality(Lost') \in Nat
      /\ Cardinality(Lost') <= Cardinality(Lost)
  BY <1>2, Counting
<1> QED BY <1>1, <1>3 DEF LostInv

LEMMA OneMoreLoss ==
    ASSUME TypeInv, TypeInv', LostInv, NEW r, Lost' \subseteq Lost \union {r}, Loses
    PROVE  LostInv'
<1>1. Lost \in SUBSET Requests /\ losses \in Nat /\ Lost' \in SUBSET Requests
  BY EnqueuerAssumption DEF Lost, TypeInv, TypeOK, EnqueuerTypeOK
<1>2. IsFiniteSet(Lost) /\ IsFiniteSet(Lost')
  BY <1>1, EnqueuerAssumption, FS_Subset
<1>3. /\ Cardinality(Lost) \in Nat /\ Cardinality(Lost') \in Nat
      /\ Cardinality(Lost') <= Cardinality(Lost) + 1
  BY <1>2, Counting
<1>4. losses' = losses + 1
  BY DEF Loses
<1> QED BY <1>1, <1>3, <1>4 DEF LostInv

LEMMA LossTypes ==
    ASSUME TypeInv
    PROVE  /\ losses \in Nat /\ asked \subseteq Requests /\ unhandled \subseteq asked
           /\ queued \in [Requests -> Nat]
           /\ todo \in [Crons -> Seq(asked)] /\ marking \in [Crons -> BOOLEAN]
BY EnqueuerAssumption DEF TypeInv, TypeOK, EnqueuerTypeOK

LEMMA PushAndListLose ==
    ASSUME TypeInv, TypeInv', LostInv,
           (\E r \in Requests : Push(r)) \/ (\E c \in Crons : List(c))
    PROVE  LostInv'
<1>1. losses' >= losses
  BY LossTypes DEF Push, List, NoFault
<1>2. ASSUME NEW p \in Requests, Push(p) PROVE Lost' \subseteq Lost
  BY <1>2 DEF Push, Lost, Markers, HasMarked, Running
<1>3. ASSUME NEW c \in Crons, List(c) PROVE Lost' \subseteq Lost
  <2>1. PICK s \in SetToSeqs(unhandled) : todo' = [todo EXCEPT ![c] = s]
    BY <1>3 DEF List
  <2>2. /\ UNCHANGED <<asked, unhandled, queued>> /\ ~Running(c)
        /\ marking' = [marking EXCEPT ![c] = TRUE]
    BY <1>3 DEF List
  <2>3. \A d \in Crons \ {c} : \A r : HasMarked(d, r)' <=> HasMarked(d, r)
    BY <2>1, <2>2, OtherProcesses
  <2>4. \A r : ~HasMarked(c, r)
    BY <2>2 DEF HasMarked
  <2>5. \A r : Markers(r) \subseteq Markers(r)'
    BY <2>3, <2>4 DEF Markers
  <2> QED BY <2>2, <2>5 DEF Lost
<1> QED BY <1>1, <1>2, <1>3, QuietLosses

LEMMA MarkLoses ==
    ASSUME TypeInv, TypeInv', LostInv, NEW c \in Crons,
           Mark(c) \/ MarkIsRefused(c)
    PROVE  LostInv'
<1>1. /\ Running(c) /\ marking[c] /\ marking' = [marking EXCEPT ![c] = FALSE]
      /\ UNCHANGED <<asked, todo, queued>> /\ losses' = losses
      /\ unhandled' = unhandled \ {Head(todo[c])} \/ unhandled' = unhandled
  BY DEF Mark, MarkIsRefused, NoFault, Refuses
<1>2. todo' = [todo EXCEPT ![c] = todo[c]]
  BY <1>1, LossTypes
<1>3. /\ todo'[c] = todo[c] /\ marking'[c] = FALSE
      /\ \A d \in Crons \ {c} : \A r : HasMarked(d, r)' <=> HasMarked(d, r)
  BY <1>1, <1>2, OtherProcesses
<1>4. /\ \A r : ~HasMarked(c, r)
      /\ \A r : r = Head(todo[c]) => HasMarked(c, r)'
  BY <1>1, <1>3 DEF HasMarked, Running
<1>5. \A r : Markers(r) \subseteq Markers(r)'
  BY <1>3, <1>4 DEF Markers
<1>6. \A r : r = Head(todo[c]) => Markers(r)' # {}
  BY <1>4 DEF Markers
<1>7. Lost' \subseteq Lost
  BY <1>1, <1>5, <1>6 DEF Lost
<1>8. losses' >= losses
  BY <1>1, LossTypes
<1> QED BY <1>7, <1>8, QuietLosses

LEMMA EndLoses ==
    ASSUME TypeInv, TypeInv', LostInv, NEW c \in Crons,
           MarkRaises(c) \/ EnqueueRaises(c)
    PROVE  LostInv'
<1>1. /\ Running(c) /\ todo' = [todo EXCEPT ![c] = <<>>]
      /\ UNCHANGED <<asked, marking, queued>>
      /\ unhandled' = unhandled \ {Head(todo[c])} \/ unhandled' = unhandled
      /\ Loses \/ (losses' = losses /\ marking[c] /\ unhandled' = unhandled)
  BY DEF MarkRaises, EnqueueRaises, NoFault
<1>2. marking' = [marking EXCEPT ![c] = marking[c]]
  BY <1>1, LossTypes
<1>3. \A d \in Crons \ {c} : \A r : HasMarked(d, r)' <=> HasMarked(d, r)
  BY <1>1, <1>2, OtherProcesses
<1>4. PICK h : h = Head(todo[c])
  OBVIOUS
<1>5. \A r : HasMarked(c, r) => r = h
  BY <1>4 DEF HasMarked
<1>6. \A r : r # h => Markers(r) \subseteq Markers(r)'
  BY <1>3, <1>5 DEF Markers
<1>7. Lost' \subseteq Lost \union {h}
  BY <1>1, <1>4, <1>6 DEF Lost
<1>8. CASE Loses
  BY <1>7, <1>8, OneMoreLoss
<1>9. CASE losses' = losses /\ marking[c] /\ unhandled' = unhandled
  <2>1. \A r : ~HasMarked(c, r)
    BY <1>9 DEF HasMarked
  <2>2. \A r : Markers(r) \subseteq Markers(r)'
    BY <1>3, <2>1 DEF Markers
  <2>3. Lost' \subseteq Lost
    BY <1>1, <1>9, <2>2 DEF Lost
  <2>4. losses' >= losses
    BY <1>9, LossTypes
  <2> QED BY <2>3, <2>4, QuietLosses
<1> QED BY <1>1, <1>8, <1>9

LEMMA EnqueueLoses ==
    ASSUME TypeInv, TypeInv', LostInv, NEW c \in Crons, Enqueue(c)
    PROVE  LostInv'
<1>1. PICK k : k = Head(todo[c])
  OBVIOUS
<1>2. /\ queued' = [queued EXCEPT ![k] = queued[k] + 1]
      /\ UNCHANGED <<asked, unhandled, losses>> /\ Running(c)
  BY <1>1, LossTypes DEF Enqueue, NoFault
<1>3. k \in Requests
  BY <1>1, <1>2, HeadIsOnList
<1>4. \A d \in Crons \ {c} : \A r : HasMarked(d, r)' <=> HasMarked(d, r)
  BY <1>1, EnqueueTakes
<1>5. \A r : HasMarked(c, r) => r = k
  BY <1>1 DEF HasMarked
<1>6. \A r : r # k => Markers(r) \subseteq Markers(r)'
  BY <1>4, <1>5 DEF Markers
<1>7. queued'[k] # 0 /\ \A r \in Requests \ {k} : queued'[r] = queued[r]
  <2>1. queued[k] \in Nat /\ queued'[k] = queued[k] + 1
    BY <1>2, <1>3, LossTypes
  <2>2. queued[k] + 1 # 0
    BY <2>1
  <2> QED BY <1>2, <2>1, <2>2, LossTypes
<1>8. Lost' \subseteq Lost
  BY <1>2, <1>6, <1>7, LossTypes DEF Lost
<1>9. losses' >= losses
  BY <1>2, LossTypes
<1> QED BY <1>8, <1>9, QuietLosses

LEMMA EnqueuerLoses ==
    ASSUME TypeInv, TypeInv', LostInv, EnqueuerStep
    PROVE  LostInv'
BY PushAndListLose, MarkLoses, EndLoses, EnqueueLoses DEF EnqueuerStep

LEMMA StraysAreLost == ASSUME TypeInv, LostInv PROVE PushesAreQueued
<1>1. ASSUME NEW r \in Stray PROVE r \in Lost
  <2>1. r \in asked \ unhandled /\ queued[r] = 0 /\ \A c \in Crons : ~OnList(c, r)
    BY <1>1 DEF Stray, OnList
  <2>2. \A c \in Crons : ~HasMarked(c, r)
    BY <2>1, HeadIsOnList DEF HasMarked
  <2> QED BY <2>1, <2>2 DEF Lost, Markers
<1>2. Lost \in SUBSET Requests /\ losses \in Nat
  BY LossTypes DEF Lost
<1>3. IsFiniteSet(Lost)
  BY <1>2, EnqueuerAssumption, FS_Subset
<1>4. /\ Cardinality(Lost) \in Nat /\ Cardinality(Stray) \in Nat
      /\ Cardinality(Stray) <= Cardinality(Lost)
  BY <1>1, <1>3, Counting
<1> QED BY <1>2, <1>4 DEF LostInv, PushesAreQueued

LEMMA CountsBoundPushes == ASSUME TypeInv, QueuedInv PROVE PushesRunOncePerProcess
<1> SUFFICES ASSUME NEW r \in Requests
             PROVE  queued[r] <= Cardinality(Crons) + refusals
  BY DEF PushesRunOncePerProcess
<1>1. /\ queued[r] \in Nat /\ refusals \in Nat
      /\ Cardinality(Readers(r)) \in Nat /\ Cardinality(Crons) \in Nat
  BY CountTypes, MarkersAndReaders
<1>2. queued[r] + Cardinality(Readers(r)) <= Cardinality(Crons) + refusals
  BY DEF QueuedInv, CountInv
<1> QED BY <1>1, <1>2
-----------------------------------------------------------------------------
(* The order of the directories, as a sequence.                              *)
LEMMA Members ==
    ASSUME NEW S, NEW s \in Seq(S)
    PROVE  /\ Len(s) \in Nat /\ DOMAIN s = 1 .. Len(s)
           /\ \A x : x \in ToSet(s) <=> \E i \in 1 .. Len(s) : s[i] = x
           /\ ToSet(s) \subseteq S
           /\ s # <<>> => Len(s) > 0 /\ Head(s) = s[1] /\ Head(s) \in ToSet(s)
<1>1. Len(s) \in Nat /\ DOMAIN s = 1 .. Len(s)
  BY LenProperties
<1>2. \A x : x \in ToSet(s) <=> \E i \in 1 .. Len(s) : s[i] = x
  BY <1>1 DEF ToSet
<1>3. ToSet(s) \subseteq S
  BY <1>2, ElementOfSeq
<1>4. ASSUME s # <<>> PROVE Len(s) > 0 /\ Head(s) = s[1] /\ Head(s) \in ToSet(s)
  <2>1. Len(s) \in Nat \ {0}
    BY <1>4, EmptySeq
  <2>2. 1 \in 1 .. Len(s) /\ Head(s) = s[1]
    BY <1>4, <2>1, HeadTailProperties
  <2> QED BY <1>2, <2>1, <2>2
<1> QED BY <1>1, <1>2, <1>3, <1>4

LEMMA NewLast ==
    ASSUME NEW S, NEW s \in Seq(S), NEW e \in S
    PROVE  /\ Append(s, e) \in Seq(S) /\ Len(Append(s, e)) = Len(s) + 1
           /\ Append(s, e)[Len(s) + 1] = e
           /\ ToSet(Append(s, e)) = ToSet(s) \union {e}
           /\ IsInjective(s) /\ e \notin ToSet(s) => IsInjective(Append(s, e))
<1> DEFINE t == Append(s, e)
<1>1. /\ t \in Seq(S) /\ Len(t) = Len(s) + 1 /\ t[Len(s) + 1] = e
      /\ \A i \in 1 .. Len(s) : t[i] = s[i]
      /\ Len(s) \in Nat /\ DOMAIN s = 1 .. Len(s)
  BY AppendProperties, LenProperties
<1> HIDE DEF t
<1>2. \A i \in 1 .. Len(t) : i \in 1 .. Len(s) \/ i = Len(s) + 1
  BY <1>1
<1>3. \A i \in 1 .. Len(s) : i \in 1 .. Len(t) /\ i # Len(s) + 1
  BY <1>1
<1>4. Len(s) + 1 \in 1 .. Len(t)
  BY <1>1
<1>5. DOMAIN t = 1 .. Len(t)
  BY <1>1, LenProperties
<1>6. \A x : x \in ToSet(s) <=> \E i \in 1 .. Len(s) : s[i] = x
  BY Members
<1>7. \A x : x \in ToSet(t) <=> \E i \in 1 .. Len(t) : t[i] = x
  BY <1>1, Members
<1>8. ToSet(t) = ToSet(s) \union {e}
  BY <1>1, <1>2, <1>3, <1>4, <1>6, <1>7
<1>9. ASSUME IsInjective(s), e \notin ToSet(s) PROVE IsInjective(t)
  BY <1>1, <1>2, <1>3, <1>5, <1>6, <1>9 DEF IsInjective
<1> QED BY <1>1, <1>8, <1>9 DEF t

LEMMA Removing ==
    ASSUME NEW S, NEW s \in Seq(S), NEW i \in 1 .. Len(s), IsInjective(s)
    PROVE  /\ RemoveAt(s, i) \in Seq(S) /\ Len(RemoveAt(s, i)) = Len(s) - 1
           /\ IsInjective(RemoveAt(s, i))
           /\ ToSet(RemoveAt(s, i)) = ToSet(s) \ {s[i]}
<1> DEFINE a == SubSeq(s, 1, i - 1)
           b == SubSeq(s, i + 1, Len(s))
           t == a \o b
<1>1. /\ Len(s) \in Nat /\ DOMAIN s = 1 .. Len(s) /\ i \in Int
      /\ \A j \in 1 .. Len(s) : s[j] \in S
  BY LenProperties, ElementOfSeq
<1>2. /\ \A j \in 1 .. i - 1 : s[j] \in S
      /\ \A j \in i + 1 .. Len(s) : s[j] \in S
  BY <1>1
<1>3. /\ a \in Seq(S) /\ Len(a) = i - 1
      /\ \A j \in 1 .. i - 1 : a[j] = s[j]
  <2>1. 1 \in Int /\ i - 1 \in Int
    BY <1>1
  <2>2. /\ a \in Seq(S) /\ Len(a) = (IF 1 <= i - 1 THEN (i - 1) - 1 + 1 ELSE 0)
        /\ \A j \in 1 .. (i - 1) - 1 + 1 : a[j] = s[1 + j - 1]
    BY <1>2, <2>1, SubSeqProperties
  <2>3. (i - 1) - 1 + 1 = i - 1 /\ \A j \in 1 .. i - 1 : 1 + j - 1 = j
    BY <1>1
  <2>4. Len(a) = i - 1
    BY <1>1, <2>2
  <2> QED BY <2>2, <2>3, <2>4
<1>4. /\ b \in Seq(S) /\ Len(b) = Len(s) - i
      /\ \A j \in 1 .. Len(s) - i : b[j] = s[i + j]
  <2>1. i + 1 \in Int /\ Len(s) \in Int
    BY <1>1
  <2>2. /\ b \in Seq(S)
        /\ Len(b) = (IF i + 1 <= Len(s) THEN Len(s) - (i + 1) + 1 ELSE 0)
        /\ \A j \in 1 .. Len(s) - (i + 1) + 1 : b[j] = s[(i + 1) + j - 1]
    BY <1>2, <2>1, SubSeqProperties
  <2>3. /\ Len(s) - (i + 1) + 1 = Len(s) - i
        /\ \A j \in 1 .. Len(s) - i : (i + 1) + j - 1 = i + j
    BY <1>1
  <2>4. (IF i + 1 <= Len(s) THEN Len(s) - (i + 1) + 1 ELSE 0) = Len(s) - i
    <3>1. Len(s) \in Int /\ i \in Int /\ i <= Len(s)
      BY <1>1
    <3>2. CASE i = Len(s)
      BY <3>1, <3>2
    <3>3. CASE i < Len(s)
      <4>1. i + 1 <= Len(s) /\ Len(s) - (i + 1) + 1 = Len(s) - i
        BY <3>1, <3>3
      <4> QED BY <4>1
    <3> QED BY <3>1, <3>2, <3>3
  <2>5. Len(b) = Len(s) - i
    BY <2>2, <2>4
  <2> QED BY <2>2, <2>3, <2>5
<1> HIDE DEF a, b
<1>5. /\ t \in Seq(S) /\ Len(t) = Len(a) + Len(b)
      /\ \A j \in 1 .. Len(a) + Len(b) :
            t[j] = IF j <= Len(a) THEN a[j] ELSE b[j - Len(a)]
  BY <1>3, <1>4, ConcatProperties
<1> HIDE DEF t
<1>6. Len(t) = Len(s) - 1
  BY <1>1, <1>3, <1>4, <1>5
<1>7. \A j \in 1 .. Len(t) : j < i => t[j] = s[j] /\ j \in 1 .. Len(s)
  <2> SUFFICES ASSUME NEW j \in 1 .. Len(t), j < i
               PROVE  t[j] = s[j] /\ j \in 1 .. Len(s)
    OBVIOUS
  <2>1. j \in 1 .. i - 1 /\ j <= Len(a) /\ j \in 1 .. Len(a) + Len(b)
    BY <1>1, <1>3, <1>5, <1>6
  <2>2. t[j] = s[j]
    BY <1>3, <1>5, <2>1
  <2>3. j \in 1 .. Len(s)
    BY <1>1, <1>6
  <2> QED BY <2>2, <2>3
<1>8. \A j \in 1 .. Len(t) : j >= i => t[j] = s[j + 1] /\ j + 1 \in 1 .. Len(s)
  <2> SUFFICES ASSUME NEW j \in 1 .. Len(t), j >= i
               PROVE  t[j] = s[j + 1] /\ j + 1 \in 1 .. Len(s)
    OBVIOUS
  <2>1. /\ j - Len(a) \in 1 .. Len(s) - i /\ ~(j <= Len(a))
        /\ j \in 1 .. Len(a) + Len(b) /\ i + (j - Len(a)) = j + 1
    BY <1>1, <1>3, <1>5, <1>6
  <2>2. t[j] = s[j + 1]
    BY <1>4, <1>5, <2>1
  <2>3. j + 1 \in 1 .. Len(s)
    BY <1>1, <1>6
  <2> QED BY <2>2, <2>3
<1>9. DOMAIN t = 1 .. Len(t)
  BY <1>5, LenProperties
<1>10. \A j, k \in 1 .. Len(s) : s[j] = s[k] => j = k
  BY <1>1 DEF IsInjective
<1>11. IsInjective(t)
  <2> SUFFICES ASSUME NEW j \in 1 .. Len(t), NEW k \in 1 .. Len(t), t[j] = t[k]
               PROVE  j = k
    BY <1>9 DEF IsInjective
  <2>1. CASE j < i /\ k < i
    BY <1>7, <1>10, <2>1
  <2>2. CASE j >= i /\ k >= i
    <3>1. j + 1 = k + 1
      BY <1>8, <1>10, <2>2
    <3> QED BY <3>1
  <2>3. CASE j < i /\ k >= i
    <3>1. j = k + 1
      BY <1>7, <1>8, <1>10, <2>3
    <3> QED BY <1>1, <2>3, <3>1
  <2>4. CASE j >= i /\ k < i
    <3>1. j + 1 = k
      BY <1>7, <1>8, <1>10, <2>4
    <3> QED BY <1>1, <2>4, <3>1
  <2> QED BY <1>1, <2>1, <2>2, <2>3, <2>4
<1>12. \A x : x \in ToSet(t) => x \in ToSet(s) /\ x # s[i]
  <2>0. \A x : x \in ToSet(t) <=> \E j \in 1 .. Len(t) : t[j] = x
    BY <1>5, Members
  <2> SUFFICES ASSUME NEW j \in 1 .. Len(t)
               PROVE  t[j] \in ToSet(s) /\ t[j] # s[i]
    BY <2>0
  <2>1. CASE j < i
    <3>1. t[j] = s[j] /\ j \in 1 .. Len(s) /\ j # i
      BY <1>7, <2>1
    <3> QED BY <1>10, <3>1, Members
  <2>2. CASE j >= i
    <3>1. t[j] = s[j + 1] /\ j + 1 \in 1 .. Len(s)
      BY <1>8, <2>2
    <3>2. j + 1 # i
      BY <1>1, <2>2
    <3> QED BY <1>10, <3>1, <3>2, Members
  <2> QED BY <1>1, <2>1, <2>2
<1>13. \A x : x \in ToSet(s) /\ x # s[i] => x \in ToSet(t)
  <2> SUFFICES ASSUME NEW j \in 1 .. Len(s), s[j] # s[i]
               PROVE  s[j] \in ToSet(t)
    BY Members
  <2>1. CASE j < i
    <3>1. j \in 1 .. Len(t)
      BY <1>1, <1>6, <2>1
    <3> QED BY <1>5, <1>7, <2>1, <3>1, Members
  <2>2. CASE j > i
    <3>1. j - 1 \in 1 .. Len(t) /\ j - 1 >= i /\ (j - 1) + 1 = j
      BY <1>1, <1>6, <2>2
    <3>2. t[j - 1] = s[j]
      BY <1>8, <3>1
    <3> QED BY <1>5, <3>1, <3>2, Members
  <2> QED BY <1>1, <2>1, <2>2
<1>14. ToSet(t) = ToSet(s) \ {s[i]}
  BY <1>12, <1>13
<1>15. t = RemoveAt(s, i)
  BY DEF RemoveAt, t, a, b
<1> QED BY <1>5, <1>6, <1>11, <1>14, <1>15

(* A directory that is touched is the last in the order.                     *)
LEMMA Touching ==
    ASSUME directories \in Seq(Requests), IsInjective(directories),
           NEW r \in Requests
    PROVE  /\ Touch(r) \in Seq(Requests) /\ IsInjective(Touch(r))
           /\ ToSet(Touch(r)) = ToSet(directories) \union {r}
           /\ Len(Touch(r)) = IF r \in ToSet(directories) THEN Len(directories)
                              ELSE Len(directories) + 1
           /\ Touch(r)[Len(Touch(r))] = r
<1>1. CASE r \notin ToSet(directories)
  <2>1. Touch(r) = Append(directories, r)
    BY <1>1 DEF Touch
  <2> QED BY <1>1, <2>1, NewLast
<1>2. CASE r \in ToSet(directories)
  <2>1. Touch(r) = Append(RemoveAt(directories, Place(r)), r)
    BY <1>2 DEF Touch
  <2>2. DOMAIN directories = 1 .. Len(directories) /\ Len(directories) \in Nat
    BY LenProperties
  <2>3. Place(r) \in 1 .. Len(directories) /\ directories[Place(r)] = r
    BY <1>2, <2>2, Members DEF Place
  <2>4. PICK t : t = RemoveAt(directories, Place(r))
    OBVIOUS
  <2>5. /\ t \in Seq(Requests) /\ Len(t) = Len(directories) - 1
        /\ IsInjective(t) /\ ToSet(t) = ToSet(directories) \ {r}
    BY <2>3, <2>4, Removing
  <2>6. /\ Touch(r) \in Seq(Requests) /\ Len(Touch(r)) = Len(t) + 1
        /\ Touch(r)[Len(t) + 1] = r
        /\ ToSet(Touch(r)) = ToSet(t) \union {r} /\ IsInjective(Touch(r))
    BY <2>1, <2>4, <2>5, NewLast
  <2>7. Len(Touch(r)) = Len(directories)
    BY <2>2, <2>5, <2>6
  <2>8. Touch(r)[Len(Touch(r))] = r
    BY <2>6
  <2>9. ToSet(Touch(r)) = ToSet(directories) \union {r}
    BY <2>5, <2>6
  <2> QED BY <1>2, <2>6, <2>7, <2>8, <2>9
<1> QED BY <1>1, <1>2

(* What a cleanup leaves.                                                    *)
LEMMA Keeping ==
    ASSUME directories \in Seq(Requests), IsInjective(directories)
    PROVE  /\ Kept \in Seq(Requests) /\ IsInjective(Kept)
           /\ ToSet(Kept) \subseteq ToSet(directories)
           /\ keep > 0 => Len(Kept) <= keep
           /\ keep = 0 \/ Len(directories) <= keep => Kept = directories
           /\ keep > 0 /\ directories # <<>> =>
                  directories[Len(directories)] \in ToSet(Kept)
<1>1. /\ keep \in Nat /\ Len(directories) \in Nat
      /\ DOMAIN directories = 1 .. Len(directories)
      /\ \A j \in 1 .. Len(directories) : directories[j] \in Requests
  BY StoreAssumption, LenProperties, ElementOfSeq
<1>2. CASE keep = 0 \/ Len(directories) <= keep
  <2>1. Kept = directories
    BY <1>2 DEF Kept
  <2>2. keep > 0 => Len(directories) <= keep
    BY <1>1, <1>2
  <2>3. directories # <<>> => directories[Len(directories)] \in ToSet(directories)
    <3>1. directories # <<>> => Len(directories) > 0
      BY Members
    <3>2. directories # <<>> => Len(directories) \in 1 .. Len(directories)
      BY <1>1, <3>1
    <3> QED BY <3>2, Members
  <2> QED BY <2>1, <2>2, <2>3
<1>3. CASE ~(keep = 0 \/ Len(directories) <= keep)
  <2> DEFINE n == Len(directories)
             m == n - keep
  <2>1. /\ Kept = SubSeq(directories, m + 1, n)
        /\ keep > 0 /\ m \in Nat /\ n \in Nat /\ keep <= n
    BY <1>1, <1>3 DEF Kept
  <2>2. /\ \A j \in m + 1 .. n : j \in 1 .. n
        /\ m + 1 \in Int /\ n \in Int
    BY <2>1
  <2>3. /\ Kept \in Seq(Requests)
        /\ Len(Kept) = (IF m + 1 <= n THEN n - (m + 1) + 1 ELSE 0)
        /\ \A j \in 1 .. n - (m + 1) + 1 : Kept[j] = directories[(m + 1) + j - 1]
    BY <1>1, <2>1, <2>2, SubSeqProperties
  <2>4. /\ m + 1 <= n /\ n - (m + 1) + 1 = keep
        /\ \A j \in 1 .. keep : (m + 1) + j - 1 = m + j /\ m + j \in 1 .. n
        /\ keep \in 1 .. keep /\ m + keep = n
    BY <1>1, <2>1
  <2> HIDE DEF m
  <2>5. Len(Kept) = keep
    BY <2>3, <2>4
  <2>6. \A j \in 1 .. keep : Kept[j] = directories[m + j]
    BY <2>3, <2>4
  <2>7. \A x : x \in ToSet(Kept) <=> \E j \in 1 .. keep : Kept[j] = x
    BY <2>3, <2>5, Members
  <2>8. ToSet(Kept) \subseteq ToSet(directories)
    <3>1. \A x : x \in ToSet(directories) <=> \E j \in 1 .. n : directories[j] = x
      BY Members
    <3> QED BY <2>4, <2>6, <2>7, <3>1
  <2>9. IsInjective(Kept)
    <3>1. DOMAIN Kept = 1 .. keep
      BY <2>3, <2>5, LenProperties
    <3> SUFFICES ASSUME NEW j \in 1 .. keep, NEW k \in 1 .. keep, Kept[j] = Kept[k]
                 PROVE  j = k
      BY <3>1 DEF IsInjective
    <3>2. m + j = m + k
      BY <1>1, <2>4, <2>6 DEF IsInjective
    <3> QED BY <2>1, <3>2
  <2>10. directories[n] \in ToSet(Kept)
    BY <2>4, <2>6, <2>7
  <2> QED BY <1>1, <1>3, <2>3, <2>5, <2>8, <2>9, <2>10
<1> QED BY <1>2, <1>3
-----------------------------------------------------------------------------
(* What srcloner does next, and what a client is after.                      *)
StepSet(r) == [build : AskedSystems[r], file : Names \union {"directory"}]

CloneInv ==
    phase = "cloning" => /\ current \in ToSet(directories)
                         /\ steps \in Seq(StepSet(current))

DownloadInv ==
    downloading # NoDownload =>
        downloading.build \in AskedSystems[downloading.run]

StoreInv == TypeInv /\ CloneInv /\ DownloadInv

LEMMA CurrentRun ==
    ASSUME TypeInv, incoming # <<>>
    PROVE  /\ Head(incoming) \in RunMessage /\ current \in Requests
           /\ Tail(incoming) \in Seq(RunMessage)
           /\ AskedSystems[current] \subseteq OPERATING_SYSTEMS
           /\ AskedSystems[current] # {}
<1>1. incoming \in Seq(RunMessage)
  BY DEF TypeInv, TypeOK, StoreTypeOK
<1>2. Head(incoming) \in RunMessage /\ Tail(incoming) \in Seq(RunMessage)
  BY <1>1, HeadTailProperties
<1>3. current \in Requests
  BY <1>2 DEF current, RunMessage
<1> QED BY <1>2, <1>3, StoreAssumption

LEMMA StepsTyped ==
    ASSUME TypeInv, incoming # <<>>
    PROVE  Steps \in Seq(StepSet(current))
<1>1. ASSUME NEW o PROVE StepsFor(o) \in Seq(StepSet(current))
  <2>1. CASE o \notin AskedSystems[current]
    BY <2>1, EmptySeq DEF StepsFor
  <2>2. CASE o \in AskedSystems[current]
    <3>1. /\ [build |-> o, file |-> "directory"] \in StepSet(current)
          /\ [build |-> o, file |-> "firefox"] \in StepSet(current)
          /\ [build |-> o, file |-> "tests"] \in StepSet(current)
      BY <2>2 DEF StepSet, Names
    <3> QED BY <2>2, <3>1 DEF StepsFor
  <2> QED BY <2>1, <2>2
<1>2. StepsFor("mac") \o StepsFor("linux") \in Seq(StepSet(current))
  BY <1>1, ConcatProperties
<1> QED BY <1>1, <1>2, ConcatProperties DEF Steps
-----------------------------------------------------------------------------
(* The types of what srcloner and the clients do.                            *)
LEMMA StoreFacts ==
    ASSUME TypeInv
    PROVE  /\ ftp \in [Requests -> [OPERATING_SYSTEMS ->
                            {"nothing", "directory", "files"}]]
           /\ incoming \in Seq(RunMessage)
           /\ directories \in Seq(Requests) /\ IsInjective(directories)
           /\ platforms \in [Requests -> SUBSET OPERATING_SYSTEMS]
           /\ files \in [Requests -> [OPERATING_SYSTEMS -> [Names -> Contents]]]
           /\ phase # "idle" => incoming # <<>>
           /\ unclean \in Nat /\ faults \in Nat /\ unclean <= faults
           /\ dispatched \subseteq Requests /\ evicted \subseteq Requests
           /\ missed \subseteq dispatched
           /\ downloading # NoDownload =>
                 downloading \in [run : dispatched, build : OPERATING_SYSTEMS,
                                  got : SUBSET Names]
BY EnqueuerAssumption DEF TypeInv, TypeOK, EnqueuerTypeOK, StoreTypeOK

LEMMA StoreKeepsLists ==
    ASSUME TypeInv, UNCHANGED enqueuerVars, Fault \/ UNCHANGED faults
    PROVE  EnqueuerTypeOK' /\ ListsInv' /\ faults' >= faults
<1>1. faults \in 0 .. MaxFaults /\ MaxFaults \in Nat
  BY EnqueuerAssumption DEF TypeInv, TypeOK, EnqueuerTypeOK
<1>2. faults' \in 0 .. MaxFaults /\ faults' >= faults
  BY <1>1 DEF Fault
<1>3. 0 .. faults \subseteq 0 .. faults'
  BY <1>1, <1>2
<1> QED BY <1>2, <1>3 DEF TypeInv, TypeOK, EnqueuerTypeOK, ListsInv, enqueuerVars

LEMMA EnqueuerKeepsStore ==
    ASSUME StoreInv, EnqueuerStep, UNCHANGED <<ftpVars, storeVars, clonerVars, clientVars>>
    PROVE  /\ StoreTypeOK' /\ CloneInv' /\ DownloadInv'
           /\ incoming # <<>> => current' = current
<1>1. /\ faults' >= faults /\ incoming' \in Seq(RunMessage)
      /\ incoming # <<>> => incoming' # <<>> /\ Head(incoming') = Head(incoming)
      /\ EnqueuerTypeOK'
  BY EnqueuerTypes DEF StoreInv
<1>2. faults' \in Nat /\ faults \in Nat
  BY <1>1, EnqueuerAssumption DEF EnqueuerTypeOK, StoreInv, TypeInv, TypeOK
<1>3. 0 .. faults \subseteq 0 .. faults'
  BY <1>1, <1>2
<1>4. incoming # <<>> => current' = current
  BY <1>1 DEF current
<1>5. StoreTypeOK'
  BY <1>1, <1>3 DEF StoreInv, TypeInv, TypeOK, StoreTypeOK, ftpVars, storeVars,
                   clonerVars, clientVars
<1>6. CloneInv'
  <2>1. phase' = "cloning" => current' = current
    BY <1>4 DEF clonerVars, StoreInv, TypeInv, TypeOK, StoreTypeOK
  <2> QED BY <2>1 DEF StoreInv, CloneInv, StepSet, storeVars, clonerVars
<1>7. DownloadInv'
  BY DEF StoreInv, DownloadInv, clientVars
<1> QED BY <1>4, <1>5, <1>6, <1>7

LEMMA PublishTypes ==
    ASSUME StoreInv, NEW r \in Requests, NEW o \in OPERATING_SYSTEMS,
           Publishes(r, o), UNCHANGED faults
    PROVE  StoreTypeOK' /\ CloneInv' /\ DownloadInv'
<1>1. ftp' \in [Requests -> [OPERATING_SYSTEMS -> {"nothing", "directory", "files"}]]
  BY StoreFacts DEF Publishes, StoreInv
<1>2. UNCHANGED <<incoming, storeVars, clonerVars, clientVars, faults>>
  BY DEF Publishes
<1> QED
  BY <1>1, <1>2 DEF StoreInv, TypeInv, TypeOK, StoreTypeOK, CloneInv, DownloadInv,
                   current, storeVars, clonerVars, clientVars

(* A step of srmaster with no srcloner running after it.                     *)
LEMMA MasterTypes ==
    ASSUME StoreInv, phase' = "idle", incoming' \in Seq(RunMessage),
           UNCHANGED <<ftpVars, storeVars, clientVars>>,
           dispatched \subseteq dispatched', dispatched' \subseteq Requests,
           unclean' \in 0 .. faults'
    PROVE  StoreTypeOK' /\ CloneInv' /\ DownloadInv'
<1>1. StoreTypeOK'
  BY DEF StoreInv, TypeInv, TypeOK, StoreTypeOK, ftpVars, storeVars, clientVars
<1>2. CloneInv' /\ DownloadInv'
  BY DEF StoreInv, CloneInv, DownloadInv, clientVars
<1> QED BY <1>1, <1>2

LEMMA HandlingTypes ==
    ASSUME StoreInv, Defers \/ Drops \/ Dispatches, UNCHANGED faults
    PROVE  StoreTypeOK' /\ CloneInv' /\ DownloadInv'
<1>1. TypeInv /\ incoming # <<>>
  BY StoreFacts DEF StoreInv, Defers, Drops, Dispatches
<1>2. /\ Head(incoming) \in RunMessage /\ current \in Requests
      /\ Tail(incoming) \in Seq(RunMessage)
  BY <1>1, CurrentRun
<1>3. incoming' \in Seq(RunMessage)
  <2>1. CASE incoming' = Tail(incoming)
    BY <1>2, <2>1
  <2>2. CASE /\ Head(incoming).attempt < MaxAttempts
             /\ incoming' = Append(Tail(incoming),
                                   [Head(incoming) EXCEPT !.attempt = @ + 1])
    <3>1. Head(incoming).attempt + 1 \in Nat \ {0}
      BY <1>2 DEF RunMessage
    <3>2. [Head(incoming) EXCEPT !.attempt = @ + 1] \in RunMessage
      BY <1>2, <3>1 DEF RunMessage
    <3> QED BY <1>2, <2>2, <3>2, AppendProperties
  <2> QED BY <2>1, <2>2 DEF Defers, Drops, Dispatches
<1>4. /\ phase' = "idle" /\ UNCHANGED <<ftpVars, storeVars, clientVars, unclean>>
      /\ dispatched' = dispatched \/ dispatched' = dispatched \union {current}
  BY DEF Defers, Drops, Dispatches, clonerVars
<1>5. /\ dispatched \subseteq dispatched' /\ dispatched' \subseteq Requests
      /\ unclean' \in 0 .. faults'
  BY <1>1, <1>2, <1>4, StoreFacts
<1> QED BY <1>3, <1>4, <1>5, MasterTypes

LEMMA StoreFaultTypes ==
    ASSUME StoreInv, StoreFault
    PROVE  /\ StoreTypeOK' /\ CloneInv' /\ DownloadInv'
           /\ phase' = "idle" /\ Fault
<1>1. TypeInv /\ incoming # <<>>
  BY StoreFacts DEF StoreInv, StoreFault, Fails, Redelivered
<1>2. incoming' \in Seq(RunMessage)
  BY <1>1, CurrentRun, StoreFacts DEF StoreFault, Fails, Redelivered
<1>3. /\ phase' = "idle" /\ UNCHANGED <<ftpVars, storeVars, clientVars, dispatched>>
      /\ Fault /\ unclean' \in {unclean + 1, unclean}
  BY DEF StoreFault, Fails, Redelivered
<1>4. unclean' \in 0 .. faults'
  BY <1>1, <1>3, StoreFacts DEF Fault
<1>5. dispatched \subseteq dispatched' /\ dispatched' \subseteq Requests
  BY <1>1, <1>3, StoreFacts
<1> QED BY <1>2, <1>3, <1>4, <1>5, MasterTypes

(* A step of srcloner, of which the types say the following.                 *)
LEMMA ClonerTypes ==
    ASSUME StoreInv, UNCHANGED <<ftpVars, incoming, faults, unclean, dispatched, clientVars>>,
           directories' \in Seq(Requests), IsInjective(directories'),
           platforms' \in [Requests -> SUBSET OPERATING_SYSTEMS],
           files' \in [Requests -> [OPERATING_SYSTEMS -> [Names -> Contents]]],
           evicted' \subseteq Requests,
           phase' \in {"cloning", "cloned"}, incoming # <<>>,
           phase' = "cloning" => /\ current \in ToSet(directories')
                                 /\ steps' \in Seq(StepSet(current))
    PROVE  StoreTypeOK' /\ CloneInv' /\ DownloadInv'
<1>1. StoreTypeOK'
  BY DEF StoreInv, TypeInv, TypeOK, StoreTypeOK, ftpVars, clientVars
<1>2. CloneInv'
  BY DEF CloneInv, StepSet, current
<1>3. DownloadInv'
  BY DEF StoreInv, DownloadInv, clientVars
<1> QED BY <1>1, <1>2, <1>3

LEMMA NextStep ==
    ASSUME StoreInv, phase = "cloning", steps # <<>>
    PROVE  /\ Step \in StepSet(current) /\ Tail(steps) \in Seq(StepSet(current))
           /\ Step.build \in AskedSystems[current]
           /\ Step.build \in OPERATING_SYSTEMS
           /\ Step.file # "directory" => Step.file \in Names
           /\ current \in Requests /\ incoming # <<>>
<1>1. TypeInv /\ incoming # <<>>
  BY StoreFacts DEF StoreInv
<1>2. Step \in StepSet(current) /\ Tail(steps) \in Seq(StepSet(current))
  BY HeadTailProperties DEF StoreInv, CloneInv, Step
<1>3. current \in Requests /\ AskedSystems[current] \subseteq OPERATING_SYSTEMS
  BY <1>1, CurrentRun
<1> QED BY <1>1, <1>2, <1>3 DEF StepSet

LEMMA BeginTypes ==
    ASSUME StoreInv, Begins, UNCHANGED faults
    PROVE  StoreTypeOK' /\ CloneInv' /\ DownloadInv'
<1>1. TypeInv /\ incoming # <<>> /\ current \in Requests
  BY CurrentRun DEF StoreInv, Begins
<1>2. Steps \in Seq(StepSet(current))
  BY <1>1, StepsTyped
<1>3. /\ Touch(current) \in Seq(Requests) /\ IsInjective(Touch(current))
      /\ ToSet(Touch(current)) = ToSet(directories) \union {current}
  BY <1>1, Touching, StoreFacts
<1>4. /\ directories' \in Seq(Requests) /\ IsInjective(directories')
      /\ current \in ToSet(directories')
  BY <1>1, <1>3, StoreFacts DEF Begins
<1>5. /\ UNCHANGED <<ftpVars, incoming, faults, unclean, dispatched, clientVars>>
      /\ UNCHANGED <<platforms, files, evicted>>
      /\ phase' = "cloning" /\ steps' = Steps
  BY DEF Begins
<1> QED BY <1>1, <1>2, <1>4, <1>5, ClonerTypes, StoreFacts

LEMMA OutdirTypes ==
    ASSUME StoreInv, EnsuresOutdir, UNCHANGED faults
    PROVE  StoreTypeOK' /\ CloneInv' /\ DownloadInv'
<1>1. TypeInv /\ phase = "cloning" /\ steps # <<>>
  BY DEF StoreInv, EnsuresOutdir
<1>2. /\ current \in Requests /\ Step.build \in OPERATING_SYSTEMS
      /\ Tail(steps) \in Seq(StepSet(current)) /\ incoming # <<>>
  BY <1>1, NextStep
<1>3. /\ Touch(current) \in Seq(Requests) /\ IsInjective(Touch(current))
      /\ ToSet(Touch(current)) = ToSet(directories) \union {current}
  BY <1>1, <1>2, Touching, StoreFacts
<1>4. /\ directories' \in Seq(Requests) /\ IsInjective(directories')
      /\ current \in ToSet(directories')
  BY <1>1, <1>3, StoreFacts DEF EnsuresOutdir, StoreInv, CloneInv
<1>5. platforms' \in [Requests -> SUBSET OPERATING_SYSTEMS]
  BY <1>1, <1>2, StoreFacts DEF EnsuresOutdir
<1>6. /\ UNCHANGED <<ftpVars, incoming, faults, unclean, dispatched, clientVars>>
      /\ UNCHANGED <<files, evicted, phase>> /\ steps' = Tail(steps)
  BY DEF EnsuresOutdir
<1> QED BY <1>1, <1>2, <1>4, <1>5, <1>6, ClonerTypes, StoreFacts

LEMMA DownloadTypes ==
    ASSUME StoreInv, Downloads, UNCHANGED faults
    PROVE  StoreTypeOK' /\ CloneInv' /\ DownloadInv'
<1>1. TypeInv /\ phase = "cloning" /\ steps # <<>>
  BY DEF StoreInv, Downloads
<1>2. /\ current \in Requests /\ Step.build \in OPERATING_SYSTEMS
      /\ Step.file \in Names
      /\ Tail(steps) \in Seq(StepSet(current)) /\ incoming # <<>>
  BY <1>1, NextStep DEF Downloads
<1>3. PICK v \in Contents :
          files' = [files EXCEPT ![current][Step.build][Step.file] = v]
  <2>1. "archive" \in Contents /\ "error page" \in Contents
    BY DEF Contents
  <2> QED BY <2>1 DEF Downloads
<1>4. files' \in [Requests -> [OPERATING_SYSTEMS -> [Names -> Contents]]]
  BY <1>1, <1>2, <1>3, StoreFacts
<1>5. current \in ToSet(directories)
  BY <1>1 DEF StoreInv, CloneInv
<1>6. /\ UNCHANGED <<ftpVars, incoming, faults, unclean, dispatched, clientVars>>
      /\ UNCHANGED <<directories, platforms, evicted, phase>> /\ steps' = Tail(steps)
  BY DEF Downloads
<1> QED BY <1>1, <1>2, <1>4, <1>5, <1>6, ClonerTypes, StoreFacts

LEMMA CleanupTypes ==
    ASSUME StoreInv, CleansUp, UNCHANGED faults
    PROVE  StoreTypeOK' /\ CloneInv' /\ DownloadInv'
<1>1. TypeInv /\ phase = "cloning" /\ incoming # <<>>
  BY StoreFacts DEF StoreInv, CleansUp
<1>2. Kept \in Seq(Requests) /\ IsInjective(Kept)
  BY <1>1, Keeping, StoreFacts
<1>3. PICK gone : gone = ToSet(directories) \ ToSet(Kept)
  OBVIOUS
<1>4. gone \subseteq Requests
  BY <1>1, <1>3, Members, StoreFacts
<1>5. /\ platforms' = [r \in Requests |-> IF r \in gone THEN {} ELSE platforms[r]]
      /\ files' = [r \in Requests |-> IF r \in gone THEN NoFiles ELSE files[r]]
      /\ evicted' = evicted \union gone /\ directories' = Kept /\ phase' = "cloned"
      /\ UNCHANGED <<ftpVars, incoming, faults, unclean, dispatched, clientVars>>
  BY <1>3 DEF CleansUp
<1>6. platforms' \in [Requests -> SUBSET OPERATING_SYSTEMS]
  BY <1>1, <1>5, StoreFacts
<1>7. NoFiles \in [OPERATING_SYSTEMS -> [Names -> Contents]]
  BY DEF NoFiles, Contents
<1>8. files' \in [Requests -> [OPERATING_SYSTEMS -> [Names -> Contents]]]
  BY <1>1, <1>5, <1>7, StoreFacts
<1>9. evicted' \subseteq Requests
  BY <1>1, <1>4, <1>5, StoreFacts
<1> QED BY <1>1, <1>2, <1>5, <1>6, <1>8, <1>9, ClonerTypes

LEMMA ClientTypes ==
    ASSUME StoreInv, UNCHANGED faults,
           \/ \E r \in Requests, o \in OPERATING_SYSTEMS : TakesJob(r, o)
           \/ ClientDownloads \/ ClientFindsNothing
    PROVE  /\ StoreTypeOK' /\ CloneInv' /\ DownloadInv'
           /\ UNCHANGED <<ftpVars, incoming, storeVars, clonerVars>>
<1>1. UNCHANGED <<ftpVars, incoming, storeVars, clonerVars>>
  BY DEF TakesJob, ClientDownloads, ClientFindsNothing
<1>2. CloneInv'
  BY <1>1 DEF StoreInv, CloneInv, current, storeVars, clonerVars, StepSet
<1>3. /\ missed' \subseteq dispatched'
      /\ \/ downloading' = NoDownload
         \/ downloading' \in [run : dispatched', build : OPERATING_SYSTEMS,
                              got : SUBSET Names]
      /\ DownloadInv'
  <2>1. dispatched' = dispatched /\ TypeInv
    BY <1>1 DEF clonerVars, StoreInv
  <2>2. ASSUME NEW r \in Requests, NEW o \in OPERATING_SYSTEMS, TakesJob(r, o)
        PROVE  /\ missed' = missed
               /\ downloading' \in [run : dispatched, build : OPERATING_SYSTEMS,
                                    got : SUBSET Names]
               /\ DownloadInv'
    BY <2>2 DEF TakesJob, DownloadInv
  <2>3. CASE ClientDownloads
    <3>1. missed' = missed /\ downloading # NoDownload
      BY <2>3 DEF ClientDownloads
    <3>2. downloading \in [run : dispatched, build : OPERATING_SYSTEMS,
                           got : SUBSET Names]
      BY <2>1, <3>1, StoreFacts
    <3>3. {Wanted} \in SUBSET Names
      BY DEF Wanted, Names
    <3>4. downloading' \in {NoDownload, [downloading EXCEPT !.got = {Wanted}]}
      BY <2>3 DEF ClientDownloads
    <3>5. \/ downloading' = NoDownload
          \/ downloading' \in [run : dispatched, build : OPERATING_SYSTEMS,
                               got : SUBSET Names]
      BY <3>2, <3>3, <3>4
    <3>6. DownloadInv'
      BY <3>1, <3>2, <3>4 DEF StoreInv, DownloadInv
    <3> QED BY <2>1, <3>1, <3>5, <3>6, StoreFacts
  <2>4. CASE ClientFindsNothing
    <3>1. /\ downloading # NoDownload /\ downloading' = NoDownload
          /\ missed' = missed \union {downloading.run}
      BY <2>4 DEF ClientFindsNothing
    <3>2. downloading.run \in dispatched /\ missed \subseteq dispatched
      BY <2>1, <3>1, StoreFacts
    <3> QED BY <2>1, <3>1, <3>2 DEF DownloadInv
  <2> QED BY <2>1, <2>2, <2>3, <2>4, StoreFacts
<1>4. StoreTypeOK'
  BY <1>1, <1>3 DEF StoreInv, TypeInv, TypeOK, StoreTypeOK, ftpVars, storeVars, clonerVars
<1> QED BY <1>1, <1>2, <1>3, <1>4
-----------------------------------------------------------------------------
LEMMA StoreInvInit == ASSUME Init PROVE StoreInv
<1>1. EnqueuerTypeOK
  <2>1. <<>> \in Seq({})
    BY EmptySeq
  <2>2. 0 \in 0 .. 0 /\ 0 \in 0 .. MaxFaults
    BY EnqueuerAssumption
  <2> QED BY <2>1, <2>2 DEF Init, EnqueuerInit, EnqueuerTypeOK
<1>2. IsInjective(<<>>)
  BY DEF IsInjective
<1>3. ListsInv
  BY <1>2 DEF Init, EnqueuerInit, ListsInv
<1>4. NoFiles \in [OPERATING_SYSTEMS -> [Names -> Contents]]
  BY DEF NoFiles, Contents
<1>5. StoreTypeOK
  <2>1. 0 \in 0 .. 0 /\ <<>> \in Seq(RunMessage) /\ <<>> \in Seq(Requests)
    BY EmptySeq
  <2> QED BY <1>2, <1>4, <2>1 DEF Init, EnqueuerInit, StoreInit, StoreTypeOK
<1>6. CloneInv /\ DownloadInv
  BY DEF Init, StoreInit, CloneInv, DownloadInv
<1> QED BY <1>1, <1>3, <1>5, <1>6 DEF StoreInv, TypeInv, TypeOK

LEMMA StoreInvNext == ASSUME StoreInv, [Next]_vars PROVE StoreInv'
<1>1. CASE EnqueuerStep /\ UNCHANGED <<ftpVars, storeVars, clonerVars, clientVars>>
  <2>1. EnqueuerTypeOK' /\ ListsInv'
    BY <1>1, EnqueuerTypes DEF StoreInv
  <2>2. StoreTypeOK' /\ CloneInv' /\ DownloadInv'
    BY <1>1, EnqueuerKeepsStore
  <2> QED BY <2>1, <2>2 DEF StoreInv, TypeInv, TypeOK
<1>2. CASE StoreStep /\ UNCHANGED <<enqueuerVars, faults>>
  <2>1. EnqueuerTypeOK' /\ ListsInv'
    BY <1>2, StoreKeepsLists DEF StoreInv
  <2>2. StoreTypeOK' /\ CloneInv' /\ DownloadInv'
    BY <1>2, PublishTypes, HandlingTypes, BeginTypes, OutdirTypes, DownloadTypes,
       CleanupTypes, ClientTypes DEF StoreStep
  <2> QED BY <2>1, <2>2 DEF StoreInv, TypeInv, TypeOK
<1>3. CASE StoreFault /\ UNCHANGED enqueuerVars
  <2>1. StoreTypeOK' /\ CloneInv' /\ DownloadInv' /\ Fault
    BY <1>3, StoreFaultTypes
  <2>2. EnqueuerTypeOK' /\ ListsInv'
    BY <1>3, <2>1, StoreKeepsLists DEF StoreInv
  <2> QED BY <2>1, <2>2 DEF StoreInv, TypeInv, TypeOK
<1>4. CASE UNCHANGED vars
  BY <1>4 DEF StoreInv, TypeInv, TypeOK, EnqueuerTypeOK, StoreTypeOK, ListsInv,
              CloneInv, DownloadInv, current, StepSet, vars, enqueuerVars,
              ftpVars, storeVars, clonerVars, clientVars
<1> QED BY <1>1, <1>2, <1>3, <1>4 DEF Next

(* Srcloner, srenqueuer and srdownloader keep their state in shape.           *)
LEMMA StoreInvHolds == Spec => []StoreInv
<1>1. Init => StoreInv
  BY StoreInvInit
<1>2. StoreInv /\ [Next]_vars => StoreInv'
  BY StoreInvNext
<1> QED BY <1>1, <1>2, PTL DEF Spec

(* The lists of srenqueuer, the directories of srcloner and the download of  *)
(* a client hold what they can hold: pushes that were made, each directory   *)
(* once, a run at hand whenever srcloner runs.                               *)
THEOREM TypeCorrect == Spec => []TypeOK
<1>1. StoreInv => TypeOK
  BY DEF StoreInv, TypeInv
<1> QED BY <1>1, StoreInvHolds, PTL
-----------------------------------------------------------------------------
(* The two promises of srenqueuer.                                           *)
LEMMA CountsKept == ASSUME TypeInv, TypeInv', QueuedInv, [Next]_vars PROVE QueuedInv'
<1>1. CASE EnqueuerStep
  BY <1>1, EnqueuerCounts
<1>2. CASE UNCHANGED enqueuerVars
  BY <1>2 DEF QueuedInv, CountInv, Markers, Readers, HasMarked, OnList, Running,
              enqueuerVars
<1> QED BY <1>1, <1>2 DEF Next, vars

LEMMA LossesKept == ASSUME TypeInv, TypeInv', LostInv, [Next]_vars PROVE LostInv'
<1>1. CASE EnqueuerStep
  BY <1>1, EnqueuerLoses
<1>2. CASE UNCHANGED enqueuerVars
  BY <1>2 DEF LostInv, Lost, Markers, HasMarked, Running, enqueuerVars
<1> QED BY <1>1, <1>2 DEF Next, vars

LEMMA EnqueuerInvInit == ASSUME Init PROVE QueuedInv /\ LostInv
<1>1. Cardinality({}) = 0
  BY FS_EmptySet
<1>2. \A r : Readers(r) = {} /\ Markers(r) = {}
  BY EmptyList DEF Init, EnqueuerInit, Readers, Markers
<1>3. Cardinality(Crons) \in Nat
  BY EnqueuerAssumption, FS_CardinalityType
<1>4. QueuedInv
  <2> SUFFICES ASSUME NEW r \in Requests PROVE CountInv(r)
    BY DEF QueuedInv
  <2>1. queued[r] = 0 /\ refusals = 0 /\ unhandled = {}
    BY DEF Init, EnqueuerInit
  <2>2. Cardinality(Readers(r)) = 0
    BY <1>1, <1>2
  <2> QED BY <1>3, <2>1, <2>2 DEF CountInv
<1>5. Lost = {}
  BY DEF Init, EnqueuerInit, Lost
<1> QED BY <1>1, <1>4, <1>5 DEF Init, EnqueuerInit, LostInv

(* A push is queued by each process that read its list before the mark, and  *)
(* once for each mark that the server refused, and not more often.           *)
THEOREM PushesRunOnce == Spec => []PushesRunOncePerProcess
<1>1. Init => QueuedInv
  BY EnqueuerInvInit
<1>2. StoreInv /\ StoreInv' /\ QueuedInv /\ [Next]_vars => QueuedInv'
  BY CountsKept DEF StoreInv
<1>3. StoreInv /\ QueuedInv => PushesRunOncePerProcess
  BY CountsBoundPushes DEF StoreInv
<1> QED BY <1>1, <1>2, <1>3, StoreInvHolds, PTL DEF Spec

(* A push that the server no longer lists is queued or on a list, but for    *)
(* one for each process that ended between the mark and the enqueue.         *)
THEOREM PushesQueued == Spec => []PushesAreQueued
<1>1. Init => LostInv
  BY EnqueuerInvInit
<1>2. StoreInv /\ StoreInv' /\ LostInv /\ [Next]_vars => LostInv'
  BY LossesKept DEF StoreInv
<1>3. StoreInv /\ LostInv => PushesAreQueued
  BY StraysAreLost DEF StoreInv
<1> QED BY <1>1, <1>2, <1>3, StoreInvHolds, PTL DEF Spec
-----------------------------------------------------------------------------
(* Whether the builds of a run are there, and what is still to fetch.        *)
Present(r, o, f) == files[r][o][f] # "none"
Complete(r) == \A o \in AskedSystems[r], f \in Names : Present(r, o, f)
ToDo(o, f) == \E i \in 1 .. Len(steps) : steps[i] = [build |-> o, file |-> f]

(* Every file of the run being cloned is there or still to be fetched.       *)
StepsInv ==
    phase = "cloning" =>
        \A o \in AskedSystems[current], f \in Names :
            Present(current, o, f) \/ ToDo(o, f)

(* Unless an earlier srcloner left its directories behind, the run being      *)
(* cloned is the last that a cleanup would remove.                           *)
Newest ==
    phase = "cloning" /\ unclean = 0 /\ keep > 0 =>
        \/ Len(directories) <= keep
        \/ directories[Len(directories)] = current

ClonedInv ==
    phase = "cloned" =>
        Complete(current) \/ (current \in evicted /\ unclean # 0)

DispatchedInv == \A r \in dispatched : Complete(r) \/ r \in evicted

BuildsInv == DiskIsBounded /\ Newest /\ StepsInv /\ ClonedInv /\ DispatchedInv

LEMMA QuietBuilds ==
    ASSUME StoreInv, BuildsInv, UNCHANGED <<storeVars, clonerVars>>,
           incoming # <<>> => current' = current
    PROVE  BuildsInv'
<1>1. UNCHANGED <<directories, files, evicted, phase, steps, unclean, dispatched>>
  BY DEF storeVars, clonerVars
<1>2. phase # "idle" => current' = current
  BY StoreFacts DEF StoreInv
<1>3. DiskIsBounded' /\ Newest'
  BY <1>1, <1>2 DEF BuildsInv, DiskIsBounded, Newest
<1>4. StepsInv' /\ ClonedInv' /\ DispatchedInv'
  BY <1>1, <1>2 DEF BuildsInv, StepsInv, ClonedInv, DispatchedInv, Complete,
                   Present, ToDo
<1> QED BY <1>3, <1>4 DEF BuildsInv

(* Srmaster is done with a run, whatever came of it.                         *)
LEMMA DoneBuilds ==
    ASSUME StoreInv, BuildsInv, UNCHANGED storeVars, phase' = "idle",
           \/ /\ unclean' = unclean /\ phase # "cloning"
           \/ unclean' = unclean + 1,
           \/ dispatched' = dispatched
           \/ phase = "cloned" /\ dispatched' = dispatched \union {current}
    PROVE  BuildsInv'
<1>1. /\ unclean \in Nat /\ Len(directories) \in Nat /\ keep \in Nat
      /\ UNCHANGED <<directories, files, evicted>>
  BY StoreFacts, StoreAssumption, LenProperties DEF StoreInv, storeVars
<1>2. DiskIsBounded'
  BY <1>1 DEF BuildsInv, DiskIsBounded
<1>3. DispatchedInv'
  BY <1>1 DEF BuildsInv, DispatchedInv, ClonedInv, Complete, Present
<1> QED BY <1>2, <1>3 DEF BuildsInv, Newest, StepsInv, ClonedInv

LEMMA Concatenation ==
    ASSUME NEW S, NEW a \in Seq(S), NEW b \in Seq(S)
    PROVE  /\ a \o b \in Seq(S)
           /\ ToSet(a) \union ToSet(b) \subseteq ToSet(a \o b)
<1>1. /\ a \o b \in Seq(S) /\ Len(a \o b) = Len(a) + Len(b)
      /\ \A i \in 1 .. Len(a) + Len(b) :
            (a \o b)[i] = IF i <= Len(a) THEN a[i] ELSE b[i - Len(a)]
  BY ConcatProperties
<1>2. Len(a) \in Nat /\ Len(b) \in Nat
  BY LenProperties
<1>3. \A x : x \in ToSet(a \o b) <=>
                \E i \in 1 .. Len(a) + Len(b) : (a \o b)[i] = x
  <2> DEFINE t == a \o b
  <2>1. t \in Seq(S) /\ Len(t) = Len(a) + Len(b)
    BY <1>1
  <2> HIDE DEF t
  <2>2. \A x : x \in ToSet(t) <=> \E i \in 1 .. Len(t) : t[i] = x
    BY <2>1, Members
  <2>3. \A x : x \in ToSet(t) <=> \E i \in 1 .. Len(a) + Len(b) : t[i] = x
    BY <2>1, <2>2
  <2> QED BY <2>3 DEF t
<1>4. ASSUME NEW i \in 1 .. Len(a) PROVE a[i] \in ToSet(a \o b)
  <2>1. i \in 1 .. Len(a) + Len(b) /\ i <= Len(a)
    BY <1>2
  <2> QED BY <1>1, <1>3, <2>1
<1>5. ASSUME NEW i \in 1 .. Len(b) PROVE b[i] \in ToSet(a \o b)
  <2>1. /\ Len(a) + i \in 1 .. Len(a) + Len(b) /\ ~(Len(a) + i <= Len(a))
        /\ (Len(a) + i) - Len(a) = i
    BY <1>2
  <2> QED BY <1>1, <1>3, <2>1
<1>6. /\ \A x : x \in ToSet(a) <=> \E i \in 1 .. Len(a) : a[i] = x
      /\ \A x : x \in ToSet(b) <=> \E i \in 1 .. Len(b) : b[i] = x
  BY Members
<1> QED BY <1>1, <1>4, <1>5, <1>6

(* Where the steps of a srcloner come from and go to.                        *)
LEMMA StepsAreAll ==
    ASSUME TypeInv, incoming # <<>>, steps' = Steps
    PROVE  \A o \in AskedSystems[current], f \in Names : ToDo(o, f)'
<1> DEFINE S == StepSet(current)
           m == StepsFor("mac")
           l == StepsFor("linux")
           w == StepsFor("windows")
<1>1. ASSUME NEW o
      PROVE  /\ StepsFor(o) \in Seq(S)
             /\ o \in AskedSystems[current] =>
                    \A f \in Names : \E i \in 1 .. Len(StepsFor(o)) :
                        StepsFor(o)[i] = [build |-> o, file |-> f]
  <2>1. CASE o \notin AskedSystems[current]
    BY <2>1, EmptySeq DEF StepsFor
  <2>2. CASE o \in AskedSystems[current]
    <3>1. StepsFor(o) = <<[build |-> o, file |-> "directory"],
                          [build |-> o, file |-> "firefox"],
                          [build |-> o, file |-> "tests"]>>
      BY <2>2 DEF StepsFor
    <3>2. /\ [build |-> o, file |-> "directory"] \in S
          /\ [build |-> o, file |-> "firefox"] \in S
          /\ [build |-> o, file |-> "tests"] \in S
      BY <2>2 DEF StepSet, Names
    <3>3. StepsFor(o) \in Seq(S)
      BY <3>1, <3>2
    <3>4. /\ Len(StepsFor(o)) = 3
          /\ StepsFor(o)[2] = [build |-> o, file |-> "firefox"]
          /\ StepsFor(o)[3] = [build |-> o, file |-> "tests"]
      BY <3>1
    <3>5. 2 \in 1 .. 3 /\ 3 \in 1 .. 3
      OBVIOUS
    <3> QED BY <3>3, <3>4, <3>5 DEF Names
  <2> QED BY <2>1, <2>2
<1>3. m \in Seq(S) /\ l \in Seq(S) /\ w \in Seq(S)
  BY <1>1
<1>4. AskedSystems[current] \subseteq {"linux", "mac", "windows"}
  BY CurrentRun, StoreAssumption
<1> SUFFICES ASSUME NEW o \in AskedSystems[current], NEW f \in Names
             PROVE  ToDo(o, f)'
  OBVIOUS
<1> DEFINE x == [build |-> o, file |-> f]
<1> HIDE DEF m, l, w, S, x
<1>5. x \in ToSet(m) \/ x \in ToSet(l) \/ x \in ToSet(w)
  <2>1. ASSUME NEW e, e = o PROVE x \in ToSet(StepsFor(e))
    BY <1>1, <2>1, Members DEF x
  <2> QED BY <1>4, <2>1 DEF m, l, w
<1>6. m \o l \in Seq(S) /\ ToSet(m) \union ToSet(l) \subseteq ToSet(m \o l)
  BY <1>3, Concatenation
<1>7. /\ Steps \in Seq(S)
      /\ ToSet(m \o l) \union ToSet(w) \subseteq ToSet(Steps)
  BY <1>3, <1>6, Concatenation DEF Steps, m, l, w
<1>8. x \in ToSet(Steps)
  BY <1>5, <1>6, <1>7
<1>9. \E i \in 1 .. Len(Steps) : Steps[i] = x
  BY <1>7, <1>8, Members
<1> QED BY <1>9 DEF ToDo, x

LEMMA AfterHead ==
    ASSUME NEW S, NEW s \in Seq(S), s # <<>>, NEW x, \E i \in 1 .. Len(s) : s[i] = x
    PROVE  x = Head(s) \/ \E i \in 1 .. Len(Tail(s)) : Tail(s)[i] = x
<1>1. /\ Head(s) = s[1] /\ Len(Tail(s)) = Len(s) - 1 /\ Len(s) \in Nat
      /\ \A i \in 1 .. Len(Tail(s)) : Tail(s)[i] = s[i + 1]
  BY HeadTailProperties, LenProperties
<1>2. PICK k \in 1 .. Len(s) : s[k] = x
  OBVIOUS
<1>3. CASE k = 1
  BY <1>1, <1>2, <1>3
<1>4. CASE k # 1
  <2>1. k - 1 \in 1 .. Len(Tail(s)) /\ (k - 1) + 1 = k
    BY <1>1, <1>4
  <2> QED BY <1>1, <1>2, <2>1
<1> QED BY <1>3, <1>4

LEMMA BeginBuilds ==
    ASSUME StoreInv, BuildsInv, Begins PROVE BuildsInv'
<1>1. /\ TypeInv /\ incoming # <<>> /\ current \in Requests
      /\ directories \in Seq(Requests) /\ IsInjective(directories)
      /\ Len(directories) \in Nat /\ unclean \in Nat /\ keep \in Nat
  BY CurrentRun, StoreFacts, StoreAssumption, LenProperties DEF StoreInv, Begins
<1>2. /\ phase = "idle" /\ phase' = "cloning" /\ steps' = Steps
      /\ UNCHANGED <<incoming, files, evicted, unclean, dispatched>>
      /\ current' = current
      /\ directories' = IF current \in ToSet(directories) THEN directories
                        ELSE Touch(current)
  BY DEF Begins, current
<1>3. /\ Len(Touch(current)) = IF current \in ToSet(directories)
                               THEN Len(directories) ELSE Len(directories) + 1
      /\ Touch(current)[Len(Touch(current))] = current
  BY <1>1, Touching
<1>4. keep > 0 => Len(directories) <= keep + unclean
  BY <1>1, <1>2 DEF BuildsInv, DiskIsBounded
<1>5. Len(directories') \in {Len(directories), Len(directories) + 1}
  BY <1>2, <1>3
<1>6. DiskIsBounded'
  BY <1>1, <1>2, <1>4, <1>5 DEF DiskIsBounded
<1>7. Newest'
  <2>1. CASE current \in ToSet(directories)
    BY <1>1, <1>2, <1>4, <2>1 DEF Newest
  <2>2. CASE current \notin ToSet(directories)
    BY <1>2, <1>3, <2>2 DEF Newest
  <2> QED BY <2>1, <2>2
<1>8. StepsInv'
  BY <1>1, <1>2, StepsAreAll DEF StepsInv
<1>9. ClonedInv' /\ DispatchedInv'
  BY <1>2 DEF BuildsInv, ClonedInv, DispatchedInv, Complete, Present
<1> QED BY <1>6, <1>7, <1>8, <1>9 DEF BuildsInv

LEMMA OutdirBuilds ==
    ASSUME StoreInv, BuildsInv, EnsuresOutdir PROVE BuildsInv'
<1>1. /\ current \in Requests /\ directories \in Seq(Requests)
      /\ IsInjective(directories) /\ current \in ToSet(directories)
      /\ steps \in Seq(StepSet(current))
  BY NextStep, StoreFacts DEF StoreInv, CloneInv, EnsuresOutdir
<1>2. /\ phase = "cloning" /\ phase' = phase /\ steps # <<>> /\ steps' = Tail(steps)
      /\ UNCHANGED <<incoming, files, evicted, unclean, dispatched>>
      /\ current' = current /\ Head(steps).file = "directory"
      /\ directories' \in {directories, Touch(current)}
  BY DEF EnsuresOutdir, Step, current
<1>3. /\ Len(Touch(current)) = Len(directories)
      /\ Touch(current)[Len(Touch(current))] = current
  BY <1>1, Touching
<1>4. Len(directories') = Len(directories)
  BY <1>2, <1>3
<1>5. DiskIsBounded'
  BY <1>2, <1>4 DEF BuildsInv, DiskIsBounded
<1>6. Newest'
  BY <1>2, <1>3 DEF BuildsInv, Newest
<1>7. ASSUME NEW o \in AskedSystems[current], NEW f \in Names, ToDo(o, f)
      PROVE  ToDo(o, f)'
  <2>1. Head(steps) # [build |-> o, file |-> f]
    BY <1>2 DEF Names
  <2>2. \E i \in 1 .. Len(Tail(steps)) : Tail(steps)[i] = [build |-> o, file |-> f]
    BY <1>1, <1>2, <1>7, <2>1, AfterHead DEF ToDo
  <2> QED BY <1>2, <2>2 DEF ToDo
<1>8. StepsInv'
  BY <1>2, <1>7 DEF BuildsInv, StepsInv, Present
<1>9. ClonedInv' /\ DispatchedInv'
  BY <1>2 DEF BuildsInv, ClonedInv, DispatchedInv, Complete, Present
<1> QED BY <1>5, <1>6, <1>8, <1>9 DEF BuildsInv

LEMMA DownloadBuilds ==
    ASSUME StoreInv, BuildsInv, Downloads PROVE BuildsInv'
<1>1. /\ steps \in Seq(StepSet(current)) /\ Step \in StepSet(current)
      /\ Step.file \in Names /\ Step.build \in OPERATING_SYSTEMS
      /\ current \in Requests
      /\ AskedSystems[current] \subseteq OPERATING_SYSTEMS
  BY NextStep, StoreAssumption DEF StoreInv, CloneInv, Downloads
<1>2. /\ phase = "cloning" /\ phase' = phase /\ steps # <<>> /\ steps' = Tail(steps)
      /\ UNCHANGED <<directories, incoming, evicted, unclean, dispatched>>
      /\ current' = current
  BY DEF Downloads, current
<1>3. PICK v \in {"archive", "error page"} :
          files' = [files EXCEPT ![current][Step.build][Step.file] = v]
  BY DEF Downloads
<1>4. /\ files \in [Requests -> [OPERATING_SYSTEMS -> [Names -> Contents]]]
      /\ v # "none"
  BY <1>3, StoreFacts DEF StoreInv
<1>5. /\ files'[current][Step.build][Step.file] # "none"
      /\ \A r \in Requests, o \in OPERATING_SYSTEMS, f \in Names :
            Present(r, o, f) => Present(r, o, f)'
  BY <1>1, <1>3, <1>4 DEF Present
<1>6. DiskIsBounded' /\ Newest'
  BY <1>2 DEF BuildsInv, DiskIsBounded, Newest
<1>7. ASSUME NEW o \in AskedSystems[current], NEW f \in Names, ToDo(o, f)
      PROVE  ToDo(o, f)' \/ Present(current, o, f)'
  <2>1. \/ Step = [build |-> o, file |-> f]
        \/ \E i \in 1 .. Len(Tail(steps)) : Tail(steps)[i] = [build |-> o, file |-> f]
    BY <1>1, <1>2, <1>7, AfterHead DEF ToDo, Step
  <2>2. CASE Step = [build |-> o, file |-> f]
    <3>1. Step.build = o /\ Step.file = f
      BY <2>2
    <3> QED BY <1>2, <1>5, <3>1 DEF Present
  <2>3. CASE \E i \in 1 .. Len(Tail(steps)) :
                 Tail(steps)[i] = [build |-> o, file |-> f]
    BY <1>2, <2>3 DEF ToDo
  <2> QED BY <2>1, <2>2, <2>3
<1>8. StepsInv'
  BY <1>1, <1>2, <1>5, <1>7 DEF BuildsInv, StepsInv
<1>9. \A r \in Requests : Complete(r) => Complete(r)'
  BY <1>5, StoreAssumption DEF Complete
<1>10. DispatchedInv'
  BY <1>2, <1>9, StoreFacts DEF StoreInv, BuildsInv, DispatchedInv
<1>11. ClonedInv'
  BY <1>2 DEF ClonedInv
<1> QED BY <1>6, <1>8, <1>10, <1>11 DEF BuildsInv

LEMMA CleanupBuilds ==
    ASSUME StoreInv, BuildsInv, CleansUp PROVE BuildsInv'
<1>1. /\ TypeInv /\ phase = "cloning" /\ incoming # <<>> /\ steps = <<>>
      /\ directories \in Seq(Requests) /\ IsInjective(directories)
      /\ current \in Requests /\ current \in ToSet(directories)
      /\ unclean \in Nat /\ keep \in Nat /\ Len(directories) \in Nat
      /\ dispatched \subseteq Requests
  BY CurrentRun, StoreFacts, StoreAssumption, LenProperties
     DEF StoreInv, CleansUp, CloneInv
<1>2. /\ Kept \in Seq(Requests)
      /\ keep > 0 => Len(Kept) <= keep
      /\ keep = 0 \/ Len(directories) <= keep => Kept = directories
      /\ keep > 0 /\ directories # <<>> =>
             directories[Len(directories)] \in ToSet(Kept)
  BY <1>1, Keeping
<1>3. PICK gone : gone = ToSet(directories) \ ToSet(Kept)
  OBVIOUS
<1>4. /\ phase' = "cloned" /\ directories' = Kept
      /\ files' = [r \in Requests |-> IF r \in gone THEN NoFiles ELSE files[r]]
      /\ evicted' = evicted \union gone
      /\ UNCHANGED <<incoming, unclean, dispatched>> /\ current' = current
  BY <1>3 DEF CleansUp, current
<1>5. Len(Kept) \in Nat
  BY <1>2, LenProperties
<1>6. DiskIsBounded'
  BY <1>1, <1>2, <1>4, <1>5 DEF DiskIsBounded
<1>7. \A r \in Requests \ gone : Complete(r) => Complete(r)'
  BY <1>4 DEF Complete, Present
<1>8. DispatchedInv'
  BY <1>1, <1>4, <1>7 DEF BuildsInv, DispatchedInv
<1>9. Complete(current)
  <2>1. Len(steps) = 0
    BY <1>1, EmptySeq
  <2>2. \A o, f : ~ToDo(o, f)
    BY <2>1 DEF ToDo
  <2> QED BY <1>1, <2>2 DEF BuildsInv, StepsInv, Complete
<1>10. ClonedInv'
  <2>1. CASE current \notin gone
    BY <1>1, <1>4, <1>7, <1>9, <2>1 DEF ClonedInv, Complete
  <2>2. CASE current \in gone
    <3>1. unclean # 0
      <4> SUFFICES ASSUME unclean = 0 PROVE FALSE
        OBVIOUS
      <4>1. Kept # directories
        BY <1>3, <2>2
      <4>2. keep > 0 /\ ~(Len(directories) <= keep)
        BY <1>1, <1>2, <4>1
      <4>3. directories[Len(directories)] = current
        BY <1>1, <4>2 DEF BuildsInv, Newest
      <4>4. directories # <<>>
        BY <1>1, <4>2, EmptySeq
      <4> QED BY <1>2, <1>3, <2>2, <4>2, <4>3, <4>4
    <3> QED BY <1>4, <2>2, <3>1 DEF ClonedInv
  <2> QED BY <2>1, <2>2
<1>11. Newest' /\ StepsInv'
  BY <1>4 DEF Newest, StepsInv
<1> QED BY <1>6, <1>8, <1>10, <1>11 DEF BuildsInv

LEMMA BuildsInvNext ==
    ASSUME StoreInv, StoreInv', BuildsInv, [Next]_vars PROVE BuildsInv'
<1>1. CASE EnqueuerStep /\ UNCHANGED <<ftpVars, storeVars, clonerVars, clientVars>>
  BY <1>1, EnqueuerKeepsStore, QuietBuilds
<1>2. CASE \E r \in Requests, o \in OPERATING_SYSTEMS : Publishes(r, o)
  BY <1>2, QuietBuilds DEF Publishes, current
<1>3. CASE \/ \E r \in Requests, o \in OPERATING_SYSTEMS : TakesJob(r, o)
           \/ ClientDownloads \/ ClientFindsNothing
  BY <1>3, QuietBuilds DEF TakesJob, ClientDownloads, ClientFindsNothing, current
<1>4. CASE Defers \/ Drops \/ Dispatches
  <2>1. /\ phase # "cloning" /\ phase' = "idle" /\ unclean' = unclean
        /\ \/ dispatched' = dispatched
           \/ phase = "cloned" /\ dispatched' = dispatched \union {current}
        /\ UNCHANGED storeVars
    BY <1>4 DEF Defers, Drops, Dispatches, clonerVars
  <2> QED BY <2>1, DoneBuilds
<1>5. CASE StoreFault
  <2>1. /\ phase' = "idle" /\ UNCHANGED <<storeVars, dispatched>>
        /\ \/ unclean' = unclean /\ phase # "cloning"
           \/ unclean' = unclean + 1
    BY <1>5 DEF StoreFault, Fails, Redelivered
  <2> QED BY <2>1, DoneBuilds
<1>6. CASE UNCHANGED vars
  <2>1. UNCHANGED <<storeVars, clonerVars>> /\ current' = current
    BY <1>6 DEF vars, current
  <2> QED BY <2>1, QuietBuilds
<1> QED
  BY <1>1, <1>2, <1>3, <1>4, <1>5, <1>6, BeginBuilds, OutdirBuilds, DownloadBuilds,
     CleanupBuilds DEF Next, StoreStep

LEMMA BuildsInvInit == ASSUME Init PROVE BuildsInv
<1>1. Len(<<>>) = 0 /\ keep \in Nat
  BY EmptySeq, StoreAssumption
<1>2. DiskIsBounded
  BY <1>1 DEF Init, StoreInit, DiskIsBounded
<1> QED BY <1>2 DEF Init, StoreInit, BuildsInv, Newest, StepsInv, ClonedInv, DispatchedInv

LEMMA BuildsInvHolds == Spec => []BuildsInv
<1>1. Init => BuildsInv
  BY BuildsInvInit
<1>2. StoreInv /\ StoreInv' /\ BuildsInv /\ [Next]_vars => BuildsInv'
  BY BuildsInvNext
<1> QED BY <1>1, <1>2, StoreInvHolds, PTL DEF Spec

(* The disk holds no more than keep builds, the one being fetched, and one   *)
(* for each srcloner that ended before its cleanup.                          *)
THEOREM DiskBounded == Spec => []DiskIsBounded
<1>1. BuildsInv => DiskIsBounded
  BY DEF BuildsInv
<1> QED BY <1>1, BuildsInvHolds, PTL

(* A srcloner that exits cleanly leaves every build of its run in place, if  *)
(* every one before it has cleaned up.                                       *)
THEOREM ClonedBuildsComplete == Spec => []ClonedBuildsAreComplete
<1>1. StoreInv /\ BuildsInv => ClonedBuildsAreComplete
  <2> SUFFICES ASSUME StoreInv, BuildsInv, phase = "cloned", unclean = 0,
                      NEW o \in AskedSystems[current], NEW f \in Names
               PROVE  files[current][o][f] \in {"archive", "error page"}
    BY DEF ClonedBuildsAreComplete, Holds
  <2>1. TypeInv /\ incoming # <<>>
    BY StoreFacts DEF StoreInv
  <2>2. current \in Requests /\ o \in OPERATING_SYSTEMS
    BY <2>1, CurrentRun
  <2>3. files[current][o][f] \in Contents
    BY <2>1, <2>2, StoreFacts
  <2>4. files[current][o][f] # "none"
    BY DEF BuildsInv, ClonedInv, Complete, Present
  <2> QED BY <2>3, <2>4 DEF Contents
<1> QED BY <1>1, StoreInvHolds, BuildsInvHolds, PTL

LEMMA MissesKept ==
    ASSUME StoreInv, BuildsInv, MissedBuildsWereEvicted, [Next]_vars
    PROVE  MissedBuildsWereEvicted'
<1>1. CASE ClientFindsNothing /\ UNCHANGED storeVars
  <2>1. /\ downloading # NoDownload /\ missed' = missed \union {downloading.run}
        /\ files[downloading.run][downloading.build][Wanted] = "none"
        /\ evicted' = evicted
    BY <1>1 DEF ClientFindsNothing, Served, storeVars
  <2>2. /\ downloading.run \in dispatched
        /\ downloading.build \in AskedSystems[downloading.run]
    BY <2>1, StoreFacts DEF StoreInv, DownloadInv
  <2>3. Wanted \in Names
    BY DEF Wanted, Names
  <2>4. ~Complete(downloading.run)
    BY <2>1, <2>2, <2>3 DEF Complete, Present
  <2>5. downloading.run \in evicted
    BY <2>2, <2>4 DEF BuildsInv, DispatchedInv
  <2> QED BY <2>1, <2>5 DEF MissedBuildsWereEvicted
<1>2. CASE missed' = missed /\ evicted \subseteq evicted'
  BY <1>2 DEF MissedBuildsWereEvicted
<1>3. CASE StoreStep
  BY <1>1, <1>2, <1>3
     DEF StoreStep, Publishes, Defers, Drops, Begins, EnsuresOutdir, Downloads,
         CleansUp, Dispatches, TakesJob, ClientDownloads, ClientFindsNothing,
         storeVars, clientVars
<1>4. CASE UNCHANGED <<missed, evicted>>
  BY <1>2, <1>4
<1> QED
  BY <1>3, <1>4
     DEF Next, StoreFault, Fails, Redelivered, vars, storeVars, clientVars

(* A client finds nothing only where a cleanup has been.                     *)
THEOREM MissedWereEvicted == Spec => []MissedBuildsWereEvicted
<1>1. Init => MissedBuildsWereEvicted
  BY DEF Init, StoreInit, MissedBuildsWereEvicted
<1>2. StoreInv /\ BuildsInv /\ MissedBuildsWereEvicted /\ [Next]_vars
          => MissedBuildsWereEvicted'
  BY MissesKept
<1> QED BY <1>1, <1>2, StoreInvHolds, BuildsInvHolds, PTL DEF Spec
=============================================================================
