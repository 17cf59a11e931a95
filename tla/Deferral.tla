------------------------------ MODULE Deferral ------------------------------
(***************************************************************************)
(* How long a run whose builds do not come is tried for: srmaster, the      *)
(* srcloners and the srdeferrers of module Master, on a clock that they do  *)
(* not move alone.  Nobody takes the runs off the queues of the netconfigs. *)
(*                                                                         *)
(* A minute passes at any time, also while a daemon that could go on does    *)
(* not; a sleep is a guard on the clock.  The clock is never set back.       *)
(***************************************************************************)
EXTENDS Master

CONSTANTS
    Interval,   \* [cloner] interval in minutes, 0 unless it is configured
    MaxMinutes  \* bound: how far the clock moves by itself

VARIABLES
    first,  \* when srcloner first ran for a request, 0 before that
    since   \* since[d]: when deferrer d began to sleep

deferralVars == <<queueVars, faultVars, masterVars, first, since>>

Day == 24 * 60

Init ==
    /\ QueuesInit
    /\ MasterInit
    /\ first = [r \in Requests |-> 0]
    /\ since = [d \in deferrers |-> clock]
-----------------------------------------------------------------------------
Tick ==
    /\ clock < MaxMinutes
    /\ clock' = clock + 1
    /\ UNCHANGED <<queueVars, faultVars, master, deferrers, uuids, clones,
                   dispatched, ledgerVars, first, since>>

(* srdeferrer.run: int(time.time()) has come to start + interval.            *)
Slept(d) == clock >= since[d] + Interval

(* What the processes do, and what happens to them.                          *)
Step ==
    \/ \E r \in Requests : Submit(r)
    \/ MasterStep
    \/ MasterFails
    \/ \E d \in deferrers : Slept(d) /\ DeferrerWakes(d)
    \/ \E d \in deferrers : DeferrerDies(d)

(* The time of what begins in a step.                                        *)
Dates ==
    /\ first' = [r \in Requests |->
                    IF clones[r] = 0 /\ clones'[r] > 0 THEN clock ELSE first[r]]
    /\ since' = [d \in deferrers' |->
                    IF d \in deferrers THEN since[d] ELSE clock]

Next ==
    \/ Step /\ Dates
    \/ Tick

Spec == Init /\ [][Next]_deferralVars
-----------------------------------------------------------------------------
(* A build has all the intervals between the attempts to appear: no run is   *)
(* cancelled before they have passed since srcloner first ran for it,        *)
(* whatever is delivered twice, and however many deferrers sleep at a time.  *)
Patience == \A r \in cancelled : clock - first[r] >= (Attempts - 1) * Interval

(* "If it's been less than a day since the first time we tried to download   *)
(* this build, it will kick off a deferrer process": so no run is cancelled  *)
(* within a day.                                                             *)
TriesForADay == \A r \in cancelled : clock - first[r] >= Day
=============================================================================
