------------------------------ MODULE Srdata ------------------------------
(***************************************************************************)
(* srdata.js, which firefox and xpcshell both load: a test records results  *)
(* in memory, and saves them to its output file when it is done.            *)
(***************************************************************************)
EXTENDS Naturals, Sequences

CONSTANT Tests   \* the files of testroot, without their directory

VARIABLES
    test,        \* the test that srrunner runs, or NoTest
    proc,        \* its process: "none", "running", "exited" or "crashed"
    at,          \* where its script is
    results,     \* STONERIDGE_RESULTS: the keys recorded, <<>> for null
    out          \* out[t]: the output file of test t

script == <<at, results, out>>

CONSTANT NoTest

(* A file that was opened and not written to its end is "truncated".         *)
Output == [state : {"none", "truncated", "written"}, saved : Seq(Nat)]
NoOutput == [state |-> "none", saved |-> <<>>]

SrdataTypeOK ==
    /\ test \in Tests \union {NoTest}
    /\ proc \in {"none", "running", "exited", "crashed"}
    /\ at \in {"starting", "looping", "draining", "saving"}
    /\ results \in Seq(Nat)
    /\ out \in [Tests -> Output]

SrdataInit ==
    /\ test = NoTest
    /\ proc = "none"
    /\ at = "starting"
    /\ results = <<>>
    /\ out = [t \in Tests |-> NoOutput]

do_write_result(key) == results' = Append(results, key)

(* do_save_results: init() of the stream truncates the file, write() and     *)
(* close() fill it.  The process may be killed in between.                   *)
OpensOutput ==
    /\ at' = "saving"
    /\ out' = [out EXCEPT ![test] = [state |-> "truncated", saved |-> <<>>]]

WritesOutput ==
    out' = [out EXCEPT ![test] = [state |-> "written", saved |-> results]]
=============================================================================
