------------------------------ MODULE Enqueuer ------------------------------
(***************************************************************************)
(* srenqueuer, which cron starts every minute on the master: it lists the   *)
(* pushes that the web server calls unhandled, and for each of them tells   *)
(* the server that it is handled and then puts it on sr_incoming.  Nothing   *)
(* keeps two of these processes from running at the same time.              *)
(*                                                                         *)
(* The web server is not in the repository.  It appears as the set of       *)
(* pushes it would list.                                                    *)
(***************************************************************************)
EXTENDS Integers, Sequences, FiniteSets, SequencesExt

CONSTANTS
    Requests,     \* pushes, each with its srid
    Crons,        \* processes that may run at the same time
    MaxAttempts,  \* [cloner] attempts, 0 unless it is configured
    MaxFaults     \* bound: faults, of whatever kind and component

ASSUME EnqueuerAssumption ==
    /\ IsFiniteSet(Requests) /\ IsFiniteSet(Crons)
    /\ MaxAttempts \in Int
    /\ MaxFaults \in Nat

VARIABLES
    asked,      \* the pushes users have made
    unhandled,  \* what /list_unhandled answers
    todo,       \* todo[c]: the rest of the list that process c got
    marking,    \* marking[c]: c has still to mark the head of its list
    incoming,   \* sr_incoming
    queued,     \* how often each push was put there
    refusals,   \* marks that the server answered with an error
    losses,     \* processes that ended between the mark and the enqueue
    faults      \* all faults

enqueuerVars == <<asked, unhandled, todo, marking, queued, refusals, losses>>

RunMessage == [srid : Requests, attempt : Nat \ {0}]

EnqueuerTypeOK ==
    /\ asked \subseteq Requests
    /\ unhandled \subseteq asked
    /\ todo \in [Crons -> Seq(asked)]
    /\ marking \in [Crons -> BOOLEAN]
    /\ queued \in [Requests -> Nat]
    /\ faults \in 0 .. MaxFaults
    /\ refusals \in 0 .. faults
    /\ losses \in 0 .. faults

EnqueuerInit ==
    /\ asked = {}
    /\ unhandled = {}
    /\ todo = [c \in Crons |-> <<>>]
    /\ marking = [c \in Crons |-> TRUE]
    /\ incoming = <<>>
    /\ queued = [r \in Requests |-> 0]
    /\ refusals = 0
    /\ losses = 0
    /\ faults = 0

Running(c) == todo[c] # <<>>

Fault == faults < MaxFaults /\ faults' = faults + 1
NoFault == UNCHANGED <<refusals, losses, faults>>
Refuses == Fault /\ refusals' = refusals + 1 /\ UNCHANGED losses
Loses == Fault /\ losses' = losses + 1 /\ UNCHANGED refusals
-----------------------------------------------------------------------------
(* A user runs srpush.                                                       *)
Push(r) ==
    /\ r \notin asked
    /\ asked' = asked \union {r}
    /\ unhandled' = unhandled \union {r}
    /\ UNCHANGED <<todo, marking, incoming, queued>> /\ NoFault

(* GET /list_unhandled.  A process that gets no list, or an empty one, ends  *)
(* without a trace.                                                          *)
List(c) ==
    /\ ~Running(c)
    /\ unhandled # {}
    /\ \E entries \in SetToSeqs(unhandled) :
        todo' = [todo EXCEPT ![c] = entries]
    /\ marking' = [marking EXCEPT ![c] = TRUE]
    /\ UNCHANGED <<asked, unhandled, incoming, queued>> /\ NoFault

(* Faulty: names no entry that the server knows.                             *)
MarkNothing(c) ==
    /\ Running(c) /\ marking[c]
    /\ marking' = [marking EXCEPT ![c] = FALSE]
    /\ UNCHANGED <<asked, unhandled, todo, incoming, queued>> /\ NoFault

(* Faulty: marks the whole list before it queues anything.                   *)
MarkWholeList(c) ==
    /\ Running(c) /\ marking[c]
    /\ unhandled' = unhandled \ ToSet(todo[c])
    /\ marking' = [marking EXCEPT ![c] = FALSE]
    /\ UNCHANGED <<asked, todo, incoming, queued>> /\ NoFault

(* POST /mark_handled reaches the server.                                    *)
Mark(c) ==
    /\ Running(c) /\ marking[c]
    /\ unhandled' = unhandled \ {Head(todo[c])}
    /\ marking' = [marking EXCEPT ![c] = FALSE]
    /\ UNCHANGED <<asked, todo, incoming, queued>> /\ NoFault

(* The server answers with an error, which requests does not raise for.      *)
MarkIsRefused(c) ==
    /\ Running(c) /\ marking[c]
    /\ marking' = [marking EXCEPT ![c] = FALSE]
    /\ UNCHANGED <<asked, unhandled, todo, incoming, queued>> /\ Refuses

(* requests.post raises and the process returns: before the server heard of  *)
(* it, or after, when only the answer was lost.                              *)
MarkRaises(c) ==
    /\ Running(c) /\ marking[c]
    /\ todo' = [todo EXCEPT ![c] = <<>>]
    /\ \/ UNCHANGED unhandled /\ NoFault
       \/ unhandled' = unhandled \ {Head(todo[c])} /\ Loses
    /\ UNCHANGED <<asked, marking, incoming, queued>>

(* stoneridge.enqueue of the entry, and on to the next.                      *)
Enqueue(c) ==
    /\ Running(c) /\ ~marking[c]
    /\ incoming' = Append(incoming, [srid |-> Head(todo[c]), attempt |-> 1])
    /\ queued' = [queued EXCEPT ![Head(todo[c])] = @ + 1]
    /\ todo' = [todo EXCEPT ![c] = Tail(@)]
    /\ marking' = [marking EXCEPT ![c] = TRUE]
    /\ UNCHANGED <<asked, unhandled>> /\ NoFault

(* stoneridge.enqueue raises because the broker cannot be reached, or the    *)
(* process is killed.                                                        *)
EnqueueRaises(c) ==
    /\ Running(c) /\ ~marking[c]
    /\ todo' = [todo EXCEPT ![c] = <<>>]
    /\ UNCHANGED <<asked, unhandled, marking, incoming, queued>>
    /\ Loses

EnqueuerStep ==
    \/ \E r \in Requests : Push(r)
    \/ \E c \in Crons :
        \/ List(c)
        \/ Mark(c) \/ MarkIsRefused(c) \/ MarkRaises(c)
        \/ Enqueue(c) \/ EnqueueRaises(c)
-----------------------------------------------------------------------------
(* An entry is marked before it is queued, "so we don't run the same thing   *)
(* more than once" (tools/srenqueuer.py:44-45).  What that achieves: a push  *)
(* is queued by each process that read its list before the mark, and once    *)
(* for each refused mark.                                                    *)
PushesRunOncePerProcess ==
    \A r \in Requests : queued[r] <= Cardinality(Crons) + refusals

(* A push that the server no longer lists is in the hands of a process or    *)
(* was queued, except one for each process that ended between the mark       *)
(* and the enqueue.                                                          *)
Stray ==
    {r \in asked \ unhandled :
        /\ queued[r] = 0
        /\ \A c \in Crons : \A i \in 1 .. Len(todo[c]) : todo[c][i] # r}

PushesAreQueued == Cardinality(Stray) <= losses
=============================================================================
