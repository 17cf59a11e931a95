------------------------------ MODULE MCBuilds ------------------------------
(***************************************************************************)
(* A small instance of Builds: two pushes, of which the first names two     *)
(* systems.                                                                 *)
(***************************************************************************)
EXTENDS Builds

TwoPushes == {"one", "two"}
CONSTANTS cron1, cron2
TwoCrons == {cron1, cron2}
CronSymmetry == Permutations(Crons)
LinuxAndMac == {"linux", "mac"}

FirstAsksForAll ==
    [r \in Requests |-> IF r = "one" THEN OPERATING_SYSTEMS ELSE {"linux"}]
=============================================================================
