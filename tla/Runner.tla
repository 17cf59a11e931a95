------------------------------ MODULE Runner ------------------------------
(***************************************************************************)
(* The tests of a job on a client: srrunner, which runs them one after the  *)
(* other in processes that it kills when they take too long, and what       *)
(* srcollator and sruploader make of the files they leave.                  *)
(***************************************************************************)
EXTENDS PageLoader, Head

CONSTANTS
    Suites,
    Suite,          \* Suite[t]: the name of test t up to its first dot
    Timeout,        \* the timeout of a process, in sleeps between two polls
    MaxClockSteps,  \* bound: how often somebody sets the clock
    Windows         \* whether this is the windows client

ASSUME RunnerAssumption ==
    /\ NoTest \notin Tests
    /\ Suite \in [Tests -> Suites]
    /\ Timeout \in Nat
    /\ MaxClockSteps \in Nat
    /\ Windows \in BOOLEAN

VARIABLES
    todo,        \* the tests to run, then the output files to collate
    elapsed,     \* time.time() - start, in sleeps
    clockSteps,
    verdict,     \* verdict[t]: what srrunner logs of test t
    stage,
    failed,      \* the stage that failed, or "none"
    upload,      \* upload[s]: the test in upload_<s>.json, or NoTest
    report       \* the same, in the message on sr_outgoing

runner == <<todo, elapsed, clockSteps, verdict>>
process == <<test, proc, script, loader>>
files == <<upload, report>>
vars == <<process, pages, runner, stage, failed, files>>

TypeOK ==
    /\ SrdataTypeOK
    /\ PageLoaderTypeOK
    /\ todo \subseteq Tests
    /\ elapsed \in 0 .. Timeout
    /\ clockSteps \in 0 .. MaxClockSteps
    /\ verdict \in [Tests -> {"none", "succeeded", "failed"}]
    /\ stage \in {"running", "between", "collating", "uploading", "done"}
    /\ failed \in {"none", "runner", "between", "collator", "uploader"}
    /\ upload \in [Suites -> Tests \union {NoTest}]
    /\ report \in [Suites -> Tests \union {NoTest}]

NoUpload == [s \in Suites |-> NoTest]

Init ==
    /\ SrdataInit
    /\ PageLoaderInit
    /\ todo = Tests
    /\ elapsed = 0
    /\ clockSteps = 0
    /\ verdict = [t \in Tests |-> "none"]
    /\ stage = "running"
    /\ failed = "none"
    /\ upload = NoUpload
    /\ report = NoUpload
-----------------------------------------------------------------------------
(* glob() finds the .js tests first, and those in any order.                 *)
First(tests) ==
    IF tests \subseteq PageTests THEN tests ELSE tests \ PageTests

(* After a failure in any stage sruploader still runs, with what there is.   *)
StageFails(name) ==
    /\ failed' = name
    /\ stage' = "uploading"

(* The next test, in a new process.                                          *)
StartTest ==
    /\ stage = "running"
    /\ test = NoTest
    /\ test' \in First(todo)
    /\ todo' = todo \ {test'}
    /\ elapsed' = 0
    /\ proc' = "running"
    /\ at' = "starting"
    /\ results' = <<>>
    /\ page' = 1
    /\ pending' = {}
    /\ quitting' = FALSE
    /\ UNCHANGED <<out, clockSteps, verdict, stage, failed, files>>

(* The binary is missing, say; srrunner catches nothing but its timeouts.    *)
RunnerRaises ==
    /\ stage = "running"
    /\ test = NoTest
    /\ StageFails("runner")
    /\ UNCHANGED <<process, runner, files>>

Ended == proc # "running"

TestEnds(logged) ==
    /\ verdict' = [verdict EXCEPT ![test] = logged]
    /\ test' = NoTest
    /\ proc' = "none"

(* Faulty: polls, and never looks at the clock.                              *)
PollForEver ==
    /\ test # NoTest
    /\ UNCHANGED <<script, loader, todo, clockSteps, stage, failed, files>>
    /\ UNCHANGED elapsed
    /\ IF Ended
       THEN TestEnds(IF proc = "exited" THEN "succeeded" ELSE "failed")
       ELSE UNCHANGED <<test, proc, verdict>>

(* Faulty: a process that has ended has succeeded.                           *)
PollAnyStatus ==
    /\ test # NoTest
    /\ elapsed < Timeout
    /\ elapsed' = elapsed + 1
    /\ IF Ended
       THEN TestEnds("succeeded")
       ELSE UNCHANGED <<test, proc, verdict>>
    /\ UNCHANGED <<script, loader, todo, clockSteps, stage, failed, files>>

(* Faulty: may sleep past the timeout.                                       *)
PollLate ==
    /\ test # NoTest
    /\ elapsed' = elapsed + 1
    /\ IF Ended
       THEN TestEnds(IF proc = "exited" THEN "succeeded" ELSE "failed")
       ELSE UNCHANGED <<test, proc, verdict>>
    /\ UNCHANGED <<script, loader, todo, clockSteps, stage, failed, files>>

(* Sleep, and poll.  An exit status of 0 is a success.                       *)
Poll ==
    /\ test # NoTest
    /\ elapsed < Timeout
    /\ elapsed' = elapsed + 1
    /\ IF Ended
       THEN TestEnds(IF proc = "exited" THEN "succeeded" ELSE "failed")
       ELSE UNCHANGED <<test, proc, verdict>>
    /\ UNCHANGED <<script, loader, todo, clockSteps, stage, failed, files>>

(* Kill it, even if it has ended since the last poll; there windows raises.  *)
TimesOut ==
    /\ test # NoTest
    /\ elapsed = Timeout
    /\ IF Ended /\ Windows
       THEN /\ StageFails("runner")
            /\ test' = NoTest
            /\ proc' = "none"
            /\ UNCHANGED verdict
       ELSE TestEnds("failed") /\ UNCHANGED <<stage, failed>>
    /\ UNCHANGED <<script, loader, todo, elapsed, clockSteps, files>>

(* The timeout is by the wall clock.                                         *)
ClockIsSet ==
    /\ test # NoTest
    /\ clockSteps < MaxClockSteps
    /\ clockSteps' = clockSteps + 1
    /\ elapsed' \in (0 .. Timeout) \ {elapsed}
    /\ UNCHANGED <<process, todo, verdict, stage, failed, files>>

RunnerDone ==
    /\ stage = "running"
    /\ test = NoTest
    /\ todo = {}
    /\ stage' = "between"
    /\ UNCHANGED <<process, runner, failed, files>>

(* What the process of the test does on its own.                             *)
TestStep ==
    /\ proc = "running"
    /\ UNCHANGED <<test, runner, stage, failed, files>>
    /\ IF test \in PageTests
       THEN FirefoxStep
       ELSE XpcshellStep /\ UNCHANGED loader
-----------------------------------------------------------------------------
(* The DNS is restored and the capture saved before srcollator runs, which   *)
(* looks for *.js.out and *.page.out.                                        *)
CollatorStarts ==
    /\ stage = "between"
    /\ stage' = "collating"
    /\ todo' = {t \in Tests : out[t].state # "none"}
    /\ UNCHANGED <<process, elapsed, clockSteps, verdict, failed, files>>

StageBetweenFails ==
    /\ stage = "between"
    /\ StageFails("between")
    /\ UNCHANGED <<process, runner, files>>

(* json.load() raises on a truncated file, and items() on null.              *)
Readable(t) == out[t].state = "written" /\ out[t].saved # <<>>

(* Faulty: forgets the suites it has written.                                *)
CollateNew ==
    /\ stage = "collating"
    /\ \E t \in First(todo) :
            /\ Readable(t)
            /\ upload' = [s \in Suites |-> IF s = Suite[t] THEN t ELSE NoTest]
            /\ todo' = todo \ {t}
    /\ UNCHANGED <<process, elapsed, clockSteps, verdict, stage, failed,
                   report>>

Collate ==
    /\ stage = "collating"
    /\ \E t \in First(todo) :
            /\ Readable(t)
            /\ upload' = [upload EXCEPT ![Suite[t]] = t]
            /\ todo' = todo \ {t}
    /\ UNCHANGED <<process, elapsed, clockSteps, verdict, stage, failed,
                   report>>

CollatorRaises ==
    /\ stage = "collating"
    /\ \E t \in First(todo) : ~Readable(t)
    /\ StageFails("collator")
    /\ UNCHANGED <<process, runner, files>>

CollatorDone ==
    /\ stage = "collating"
    /\ todo = {}
    /\ stage' = "uploading"
    /\ UNCHANGED <<process, runner, failed, files>>

(* sruploader sends whatever upload_*.json files there are.                  *)
Upload ==
    /\ stage = "uploading"
    /\ stage' = "done"
    /\ \/ report' = upload /\ UNCHANGED failed
       \/ UNCHANGED report /\ failed' = "uploader"
    /\ UNCHANGED <<process, runner, upload>>

(* The job goes on elsewhere.                                                *)
Done == stage = "done" /\ UNCHANGED vars

Works ==
    \/ StartTest \/ RunnerRaises \/ Poll \/ TimesOut \/ RunnerDone
    \/ CollatorStarts \/ StageBetweenFails \/ Collate \/ CollatorRaises
    \/ CollatorDone \/ Upload

Next ==
    \/ (Works \/ TestStep \/ ClockIsSet) /\ UNCHANGED pages
    \/ Done

(* srrunner, srcollator and sruploader run.  Nothing is asked of the tests.  *)
Spec == Init /\ [][Next]_vars /\ WF_vars(Works /\ UNCHANGED pages)
-----------------------------------------------------------------------------
(* A page loader that saves, saves all of the pages of the test, each once   *)
(* and in order: "plStop(true)" loses them all, a timer that fires before    *)
(* the page is painted does not make it save too few, and what was killed    *)
(* while it saved is not reported.                                           *)
ReportsAreWhole ==
    \A s \in Suites :
        report[s] # NoTest =>
            LET file == out[report[s]] IN
            /\ file.state = "written"
            /\ report[s] \in PageTests =>
                    file.saved = [i \in 1 .. pages[report[s]] |-> i]

(* "We know we're done, we can write the results to disk": a .js test that   *)
(* srrunner logs as succeeded ran to its end and saved what it recorded.     *)
SucceededTestsSaved ==
    \A t \in Tests \ PageTests :
        verdict[t] = "succeeded" => out[t].state = "written"

(* When every stage was clean, each suite that has the results of a test is  *)
(* reported, those of a test that srrunner killed after it saved included.   *)
SuitesAreReported ==
    stage = "done" /\ failed = "none" =>
        \A t \in Tests : out[t].state # "none" => report[Suite[t]] # NoTest

(* srrunner gets through its tests, and the job to its results, whatever     *)
(* the tests do and however long: this is what Worker assumes of a child.    *)
RunnerEnds == <>(stage = "done")

(* "This process goes through each of the <testsuite>.<originalextension>.out*)
(* files" (doc/overview.markdown): when srcollator has run, the results of   *)
(* each test that saved some are in a file for sruploader.                   *)
EachOutFileIsCollated ==
    stage \in {"uploading", "done"} /\ failed \in {"none", "collator"} =>
        \A t \in Tests : Readable(t) => upload[Suite[t]] = t
=============================================================================
