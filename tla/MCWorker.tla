------------------------------ MODULE MCWorker ------------------------------
(***************************************************************************)
(* Small instances of Worker: a machine with one to three jobs.             *)
(***************************************************************************)
EXTENDS Worker

TwoNetconfigs == {"broadband", "gsm"}

OneJob == {1}
ThreeJobs == {1, 2, 3}

Gsm == [j \in Jobs |-> "gsm"]
(* The first and the last job share one.                                     *)
GsmBetween == [j \in Jobs |-> IF j = 2 THEN "broadband" ELSE "gsm"]

Faults(children, updates, captures, deaths) ==
    [kind \in Kinds |-> CASE kind = "children" -> children
                          [] kind = "updates" -> updates
                          [] kind = "captures" -> captures
                          [] kind = "deaths" -> deaths]

BadChildren == Faults(3, 1, 1, 1)
BadUpdates == Faults(1, 6, 0, 0)
=============================================================================
