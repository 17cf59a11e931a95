----------------------------- MODULE RunLedger -----------------------------
(***************************************************************************)
(* What Stone Ridge promises to the people who ask for test runs: each job  *)
(* of a run it accepted is reported, or abandoned; it reports nothing else, *)
(* and it takes nothing back.  A job may be abandoned and reported: srmaster *)
(* can cancel one copy of a run and finish another.                         *)
(***************************************************************************)
CONSTANTS
    Requests,  \* the runs that may be asked for
    Wanted     \* Wanted[r]: the jobs of run r

VARIABLES
    accepted,   \* runs that were accepted
    reported,   \* jobs whose results were archived and mailed
    abandoned   \* jobs that will not be tried again

ledger == <<accepted, reported, abandoned>>

Owed == UNION {Wanted[r] : r \in accepted}

Init == accepted = {} /\ reported = {} /\ abandoned = {}

Accept(r) ==
    /\ r \notin accepted
    /\ accepted' = accepted \union {r}
    /\ UNCHANGED <<reported, abandoned>>

Report(j) ==
    /\ j \in Owed \ reported
    /\ reported' = reported \union {j}
    /\ UNCHANGED <<accepted, abandoned>>

(* A worker abandons one job, srmaster all the jobs of a run.                *)
Abandon(jobs) ==
    /\ jobs # {}
    /\ jobs \subseteq Owed \ abandoned
    /\ abandoned' = abandoned \union jobs
    /\ UNCHANGED <<accepted, reported>>

Next ==
    \/ \E r \in Requests : Accept(r)
    \/ \E j \in Owed : Report(j)
    \/ \E jobs \in SUBSET Owed : Abandon(jobs)

(* Nobody waits for ever for a job of run r.                                 *)
Answered(r) == Wanted[r] \subseteq reported \union abandoned
Answers == \A r \in Requests : r \in accepted ~> Answered(r)

Safety == Init /\ [][Next]_ledger
Spec == Safety /\ Answers
=============================================================================
