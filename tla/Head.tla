------------------------------- MODULE Head -------------------------------
(***************************************************************************)
(* head.js, under which xpcshell runs a test that ends in .js: the event    *)
(* loop of do_stoneridge(), and the exit status of xpcshell.                *)
(***************************************************************************)
EXTENDS Srdata

(* What a test does in an event, or in run_test(): it may record a result.   *)
(* One is enough to tell whether there are any.                              *)
RecordsOrNot ==
    \/ UNCHANGED results
    \/ results = <<>> /\ do_write_result(1)

run_test ==
    /\ at = "starting"
    /\ at' \in {"looping", "draining"}
    /\ RecordsOrNot
    /\ UNCHANGED <<proc, out>>

(* processNextEvent(); the last event calls do_test_finish().                *)
Event ==
    /\ at \in {"looping", "draining"}
    /\ at' \in {at, "draining"}
    /\ RecordsOrNot
    /\ UNCHANGED <<proc, out>>

Save ==
    /\ at = "draining"
    /\ OpensOutput
    /\ UNCHANGED <<proc, results>>

(* do_stoneridge(); quit(0);                                                 *)
QuitZero ==
    /\ at = "saving"
    /\ WritesOutput
    /\ proc' = "exited"
    /\ UNCHANGED <<at, results>>

(* An exception in the test or in do_save_results, or a crash of xpcshell,   *)
(* which then exits with another status.                                     *)
Throws ==
    /\ proc' = "crashed"
    /\ UNCHANGED script

XpcshellStep == run_test \/ Event \/ Save \/ QuitZero \/ Throws
=============================================================================
