---------------------------- MODULE RunnerProofs ----------------------------
(***************************************************************************)
(* Proofs about the tests of a job, module Runner, for every value of its    *)
(* constants.                                                               *)
(***************************************************************************)
EXTENDS Runner, SequenceTheorems, TLAPS

(* srrunner has one process at a time, and none when it has done its tests.  *)
ProcessInv ==
    /\ proc = "none" <=> test = NoTest
    /\ stage # "running" => test = NoTest

TypeInv == TypeOK /\ ProcessInv

(* The first n pages of a test, in order.                                    *)
FirstPages(n) == [i \in 1 .. n |-> i]

(* The callbacks by which one page leads to the next.                        *)
Loading == {"plLoadHandler", "waitForPainted", "plPainted"}

(* Only one of them is registered at a time, so no page is recorded twice;   *)
(* the results are those of the pages before the current one.                *)
OneCallback ==
    \E callback \in {"plLoadPage"} \union Loading :
        pending \subseteq {callback, "loadFail"}

PagesRecorded ==
    /\ at = "starting" => pending = {} /\ page = 1 /\ results = <<>>
    /\ pending \subseteq {"loadFail"} \/ results = FirstPages(page - 1)
    /\ pending \intersect Loading # {} => page <= pages[test]

(* What the page loader saves.  It registers nothing afterwards.             *)
SavesAll ==
    at = "saving" => pending = {} /\ results = FirstPages(pages[test])

LoaderInv ==
    /\ test \in PageTests => OneCallback /\ PagesRecorded /\ SavesAll
    /\ \A t \in PageTests :
            out[t].state = "written" => out[t].saved = FirstPages(pages[t])

(* The files for sruploader, and what it sent of them, come from outputs      *)
(* that were written to their end.                                           *)
UploadInv ==
    /\ stage \in {"running", "between"} => upload = NoUpload
    /\ stage # "done" => report = NoUpload
    /\ \A s \in Suites :
        /\ upload[s] # NoTest => out[upload[s]].state = "written"
        /\ report[s] # NoTest => out[report[s]].state = "written"

(* Every test is run once, and a .js test that exits with 0 has saved.       *)
VerdictInv ==
    /\ stage = "running" => \A t \in todo : verdict[t] = "none" /\ t # test
    /\ test # NoTest => verdict[test] = "none"
    /\ test \in Tests \ PageTests /\ proc = "exited" =>
            out[test].state = "written"
    /\ \A t \in Tests \ PageTests :
            verdict[t] = "succeeded" => out[t].state = "written"

(* srcollator has still to read an output, or its suite has a file.          *)
Collated(t) == out[t].state # "none" => upload[Suite[t]] # NoTest
CollatorInv ==
    failed = "none" =>
        /\ stage = "collating" => \A t \in Tests : t \in todo \/ Collated(t)
        /\ stage = "uploading" => \A t \in Tests : Collated(t)
        /\ SuitesAreReported
-----------------------------------------------------------------------------
(* TypeOK by parts: the child and its output, the page loader, srrunner, and *)
(* what is collated and uploaded.                                            *)
RunnerTypeOK ==
    /\ todo \subseteq Tests
    /\ elapsed \in 0 .. Timeout
    /\ clockSteps \in 0 .. MaxClockSteps
    /\ verdict \in [Tests -> {"none", "succeeded", "failed"}]
FilesTypeOK ==
    /\ stage \in {"running", "between", "collating", "uploading", "done"}
    /\ failed \in {"none", "runner", "between", "collator", "uploader"}
    /\ upload \in [Suites -> Tests \union {NoTest}]
    /\ report \in [Suites -> Tests \union {NoTest}]

LEMMA TypeOKParts ==
    TypeOK <=> SrdataTypeOK /\ PageLoaderTypeOK /\ RunnerTypeOK /\ FilesTypeOK
BY DEF TypeOK, RunnerTypeOK, FilesTypeOK

(* What a test may do to its output.                                         *)
LEMMA Opens ==
    ASSUME SrdataTypeOK, test \in Tests, OpensOutput
    PROVE  /\ out' \in [Tests -> Output] /\ at' = "saving"
           /\ out'[test].state = "truncated"
           /\ \A t \in Tests : t # test => out'[t] = out[t]
<1>1. out \in [Tests -> Output]
  BY DEF SrdataTypeOK
<1>2. [state |-> "truncated", saved |-> <<>>] \in Output
  BY DEF Output
<1> QED BY <1>1, <1>2 DEF OpensOutput

LEMMA Writes ==
    ASSUME SrdataTypeOK, test \in Tests, WritesOutput
    PROVE  /\ out' \in [Tests -> Output]
           /\ out'[test].state = "written" /\ out'[test].saved = results
           /\ \A t \in Tests : t # test => out'[t] = out[t]
<1>1. out \in [Tests -> Output] /\ results \in Seq(Nat)
  BY DEF SrdataTypeOK
<1>2. [state |-> "written", saved |-> results] \in Output
  BY <1>1 DEF Output
<1> QED BY <1>1, <1>2 DEF WritesOutput

(* The test that runs.                                                       *)
LEMMA TestRuns ==
    ASSUME TypeInv, TestStep
    PROVE  /\ test \in Tests /\ test # NoTest /\ proc = "running"
           /\ stage = "running"
<1>1. test # NoTest /\ proc = "running"
  BY DEF TypeInv, ProcessInv, TestStep
<1>2. test \in Tests
  BY <1>1 DEF TypeInv, TypeOK, SrdataTypeOK
<1> QED BY <1>1, <1>2 DEF TypeInv, ProcessInv

LEMMA FirefoxTypes ==
    ASSUME TypeInv, UNCHANGED <<test, pages>>, test \in PageTests, test \in Tests,
           FirefoxStep
    PROVE  /\ (SrdataTypeOK /\ PageLoaderTypeOK)'
           /\ proc' \in {proc, "exited", "crashed"}
<1> USE PageLoaderAssumption
<1>1. SrdataTypeOK /\ PageLoaderTypeOK
  BY DEF TypeInv, TypeOK
<1>2. /\ pages[test] \in 0 .. MaxPages /\ page \in 1 .. MaxPages
      /\ MaxPages \in Nat \ {0}
  BY <1>1 DEF PageLoaderTypeOK
<1>3. ASSUME NEW rest, rest \subseteq pending, _loadHandler(rest)
      PROVE  (SrdataTypeOK /\ PageLoaderTypeOK)' /\ proc' = proc
  <2>1. results' \in Seq(Nat) /\ proc' = proc
    BY <1>1, <1>2, <1>3 DEF _loadHandler, do_write_result, SrdataTypeOK
  <2>2. CASE page < pages[test]
    <3>1. page' = page + 1 /\ UNCHANGED <<at, out, quitting>>
      BY <1>3, <2>2 DEF _loadHandler, plNextPage
    <3>2. page' \in 1 .. MaxPages
      BY <1>2, <2>2, <3>1
    <3>3. pending' = (rest \ {"loadFail"}) \union {"plLoadPage"}
      BY <1>3, <2>2 DEF _loadHandler, plNextPage
    <3> QED
      BY <1>1, <1>3, <2>1, <3>1, <3>2, <3>3 DEF SrdataTypeOK, PageLoaderTypeOK
  <2>3. CASE ~(page < pages[test])
    <3>1. /\ page' = 1 /\ OpensOutput /\ quitting' = quitting
          /\ pending' = rest \ {"loadFail"}
      BY <1>3, <2>3 DEF _loadHandler, plNextPage, Stop
    <3> QED
      BY <1>1, <1>2, <1>3, <2>1, <3>1, Opens DEF SrdataTypeOK, PageLoaderTypeOK
  <2> QED BY <2>2, <2>3
<1>4. CASE plInit
  <2>1. quitting' \in BOOLEAN
    BY <1>4 DEF plInit
  <2>2. pending' \in {{"plLoadPage"}, {}}
    BY <1>4 DEF plInit
  <2>3. page' = 1 /\ at' = "looping" /\ UNCHANGED <<proc, results, out>>
    BY <1>4 DEF plInit
  <2> QED
    BY <1>1, <1>2, <2>1, <2>2, <2>3 DEF SrdataTypeOK, PageLoaderTypeOK
<1>9. CASE NoWindow \/ loadFail \/ plLoadHandler
  BY <1>1, <1>2, <1>9 DEF NoWindow, loadFail, plLoadHandler, ForcedStop, Rest,
     script, loader, SrdataTypeOK, PageLoaderTypeOK
<1>10. CASE plLoadPage
  <2>1. pending' \subseteq pending \union {"plLoadHandler", "loadFail"}
    BY <1>10 DEF plLoadPage, Rest
  <2>2. UNCHANGED <<proc, script, page, quitting>>
    BY <1>10 DEF plLoadPage
  <2> QED
    BY <1>1, <1>2, <2>1, <2>2 DEF script, SrdataTypeOK, PageLoaderTypeOK
<1>5. CASE waitForPainted
  <2>1. CASE _loadHandler(Rest("waitForPainted"))
    BY <1>3, <2>1 DEF Rest
  <2>2. CASE /\ pending' = Rest("waitForPainted") \union {"plPainted"}
             /\ UNCHANGED <<proc, script, page, quitting>>
    BY <1>1, <2>2 DEF Rest, script, SrdataTypeOK, PageLoaderTypeOK
  <2> QED BY <1>5, <2>1, <2>2 DEF waitForPainted
<1>6. CASE plPainted
  BY <1>3, <1>6 DEF plPainted, Rest
<1>7. CASE StopSaved
  BY <1>1, <1>7, Writes DEF StopSaved, ForcedStop, SrdataTypeOK,
     PageLoaderTypeOK
<1>8. CASE Quits \/ Crashes
  BY <1>1, <1>8 DEF Quits, Crashes, script, loader, SrdataTypeOK,
     PageLoaderTypeOK
<1> QED
  BY <1>4, <1>5, <1>6, <1>7, <1>8, <1>9, <1>10 DEF FirefoxStep

LEMMA XpcshellTypes ==
    ASSUME TypeInv, test' = test, test \in Tests, XpcshellStep
    PROVE  SrdataTypeOK' /\ proc' \in {proc, "exited", "crashed"}
<1>1. SrdataTypeOK
  BY DEF TypeInv, TypeOK
<1>2. RecordsOrNot => results' \in Seq(Nat)
  BY <1>1 DEF RecordsOrNot, do_write_result, SrdataTypeOK
<1>3. CASE run_test \/ Event
  BY <1>1, <1>2, <1>3 DEF run_test, Event, SrdataTypeOK
<1>4. CASE Save
  BY <1>1, <1>4, Opens DEF Save, SrdataTypeOK
<1>5. CASE QuitZero
  BY <1>1, <1>5, Writes DEF QuitZero, SrdataTypeOK
<1>6. CASE Throws
  BY <1>1, <1>6 DEF Throws, script, SrdataTypeOK
<1> QED BY <1>3, <1>4, <1>5, <1>6 DEF XpcshellStep

LEMMA TestStepTypes ==
    ASSUME TypeInv, TestStep, UNCHANGED pages
    PROVE  TypeInv'
<1>1. test \in Tests /\ test # NoTest /\ proc = "running" /\ stage = "running"
  BY TestRuns
<1>2. test' = test /\ UNCHANGED <<runner, stage, failed, files>>
  BY DEF TestStep
<1>3. /\ (SrdataTypeOK /\ PageLoaderTypeOK)'
      /\ proc' \in {proc, "exited", "crashed"}
  <2>1. CASE test \in PageTests
    BY <1>1, <1>2, <2>1, FirefoxTypes DEF TestStep
  <2>2. CASE test \notin PageTests
    <3>1. XpcshellStep /\ UNCHANGED loader
      BY <2>2 DEF TestStep
    <3>2. PageLoaderTypeOK'
      BY <3>1 DEF TypeInv, TypeOK, PageLoaderTypeOK, loader
    <3> QED BY <1>1, <1>2, <3>1, <3>2, XpcshellTypes
  <2> QED BY <2>1, <2>2
<1>4. (RunnerTypeOK /\ FilesTypeOK)'
  BY <1>2, TypeOKParts DEF TypeInv, runner, files, RunnerTypeOK, FilesTypeOK
<1>5. ProcessInv'
  BY <1>1, <1>2, <1>3 DEF ProcessInv
<1>6. TypeOK'
  BY <1>3, <1>4 DEF TypeOK, RunnerTypeOK, FilesTypeOK
<1> QED BY <1>5, <1>6 DEF TypeInv

(* What srrunner does to its own variables when a process has ended, or not.  *)
LEMMA PollTypes ==
    ASSUME TypeInv, test # NoTest, NEW logged \in {"succeeded", "failed"}
    PROVE  TestEnds(logged) =>
               /\ verdict' \in [Tests -> {"none", "succeeded", "failed"}]
               /\ test' = NoTest /\ proc' = "none"
BY DEF TypeInv, TypeOK, TestEnds

LEMMA RunnerTypes ==
    ASSUME TypeInv, UNCHANGED pages,
           StartTest \/ RunnerRaises \/ Poll \/ TimesOut \/ RunnerDone
           \/ ClockIsSet
    PROVE  TypeInv'
<1> USE RunnerAssumption, PageLoaderAssumption
<1>1. SrdataTypeOK /\ PageLoaderTypeOK /\ RunnerTypeOK /\ FilesTypeOK
  BY TypeOKParts DEF TypeInv
<1>2. CASE StartTest
  <2>1. test' \in todo /\ todo' = todo \ {test'}
    BY <1>2 DEF StartTest, First
  <2>2. test' \in Tests /\ test' # NoTest
    BY <1>1, <2>1 DEF RunnerTypeOK
  <2>3. SrdataTypeOK'
    BY <1>1, <1>2, <2>2 DEF StartTest, SrdataTypeOK
  <2>4. PageLoaderTypeOK'
    <3>1. 1 \in 1 .. MaxPages
      OBVIOUS
    <3>2. page' = 1 /\ pending' = {} /\ quitting' = FALSE
      BY <1>2 DEF StartTest
    <3> QED BY <1>1, <3>1, <3>2 DEF PageLoaderTypeOK
  <2>5. (RunnerTypeOK /\ FilesTypeOK)'
    BY <1>1, <1>2, <2>1 DEF StartTest, files, RunnerTypeOK, FilesTypeOK
  <2>6. ProcessInv'
    BY <1>2, <2>2 DEF StartTest, ProcessInv
  <2>7. TypeOK'
    BY <2>3, <2>4, <2>5 DEF TypeOK, RunnerTypeOK, FilesTypeOK
  <2> QED BY <2>6, <2>7 DEF TypeInv
<1>3. CASE RunnerRaises \/ RunnerDone
  BY <1>3 DEF RunnerRaises, RunnerDone, StageFails, process, script, loader,
     runner, files, TypeInv, TypeOK, ProcessInv, SrdataTypeOK, PageLoaderTypeOK
<1>4. CASE ClockIsSet
  BY <1>4 DEF ClockIsSet, process, script, loader, files, TypeInv, TypeOK,
     ProcessInv, SrdataTypeOK, PageLoaderTypeOK
<1>5. CASE Poll \/ TimesOut
  <2>0. test # NoTest /\ stage = "running" /\ proc # "none"
    BY <1>5 DEF Poll, TimesOut, TypeInv, ProcessInv
  <2>1. /\ UNCHANGED <<script, loader, todo, clockSteps, files>>
        /\ \/ \E logged \in {"succeeded", "failed"} : TestEnds(logged)
           \/ UNCHANGED <<test, proc, verdict>>
           \/ test' = NoTest /\ proc' = "none" /\ verdict' = verdict
    BY <1>5 DEF Poll, TimesOut
  <2>2. /\ verdict' \in [Tests -> {"none", "succeeded", "failed"}]
        /\ \/ test' = NoTest /\ proc' = "none"
           \/ test' = test /\ proc' = proc
    BY <1>1, <2>0, <2>1, PollTypes DEF RunnerTypeOK
  <2>3. elapsed' \in 0 .. Timeout
    <3>1. elapsed \in 0 .. Timeout /\ Timeout \in Nat
      BY <1>1 DEF RunnerTypeOK
    <3>2. (elapsed < Timeout /\ elapsed' = elapsed + 1) \/ elapsed' = elapsed
      BY <1>5 DEF Poll, TimesOut
    <3> QED BY <3>1, <3>2
  <2>4. \/ stage' = stage /\ failed' = failed
        \/ stage' = "uploading" /\ failed' = "runner" /\ test' = NoTest
    BY <1>5 DEF Poll, TimesOut, StageFails
  <2>5. SrdataTypeOK' /\ PageLoaderTypeOK'
    BY <1>1, <2>1, <2>2 DEF script, loader, SrdataTypeOK, PageLoaderTypeOK
  <2>6. (RunnerTypeOK /\ FilesTypeOK)'
    BY <1>1, <2>1, <2>2, <2>3, <2>4 DEF files, RunnerTypeOK, FilesTypeOK
  <2>7. ProcessInv'
    BY <2>0, <2>2, <2>4 DEF ProcessInv, TypeInv
  <2>8. TypeOK'
    BY <2>5, <2>6 DEF TypeOK, RunnerTypeOK, FilesTypeOK
  <2> QED BY <2>7, <2>8 DEF TypeInv
<1> QED BY <1>2, <1>3, <1>4, <1>5

LEMMA CollatingTypes ==
    ASSUME TypeInv, UNCHANGED pages,
           CollatorStarts \/ StageBetweenFails \/ Collate \/ CollatorRaises
           \/ CollatorDone \/ Upload
    PROVE  TypeInv'
<1> USE RunnerAssumption
<1>1. SrdataTypeOK /\ PageLoaderTypeOK /\ RunnerTypeOK /\ FilesTypeOK
  BY TypeOKParts DEF TypeInv
<1>2. /\ UNCHANGED <<process, elapsed, clockSteps, verdict>>
      /\ stage' # "running" /\ stage # "running"
  BY DEF CollatorStarts, StageBetweenFails, Collate, CollatorRaises,
     CollatorDone, Upload, StageFails, process, runner
<1>3. SrdataTypeOK' /\ PageLoaderTypeOK' /\ ProcessInv'
  BY <1>1, <1>2 DEF TypeInv, ProcessInv, process, script, loader,
     SrdataTypeOK, PageLoaderTypeOK
<1>4. todo' \subseteq Tests
  BY <1>1 DEF CollatorStarts, StageBetweenFails, Collate, CollatorRaises,
     CollatorDone, Upload, process, runner, RunnerTypeOK
<1>5. FilesTypeOK'
  <2>1. CASE Collate
    <3>1. PICK t \in First(todo) : upload' = [upload EXCEPT ![Suite[t]] = t]
      BY <2>1 DEF Collate
    <3>2. t \in Tests
      BY <1>1, <3>1 DEF First, RunnerTypeOK
    <3> QED BY <1>1, <2>1, <3>1, <3>2 DEF Collate, FilesTypeOK
  <2>2. CASE ~Collate
    BY <1>1, <2>2 DEF CollatorStarts, StageBetweenFails, CollatorRaises,
       CollatorDone, Upload, StageFails, files, FilesTypeOK
  <2> QED BY <2>1, <2>2
<1>6. RunnerTypeOK'
  BY <1>1, <1>2, <1>4 DEF RunnerTypeOK
<1>7. TypeOK'
  BY <1>3, <1>5, <1>6 DEF TypeOK, RunnerTypeOK, FilesTypeOK
<1> QED BY <1>3, <1>7 DEF TypeInv

LEMMA NextTypes ==
    ASSUME TypeInv, [Next]_vars
    PROVE  TypeInv'
<1>1. UNCHANGED vars => TypeInv'
  BY DEF vars, process, script, loader, runner, files, TypeInv, TypeOK,
     ProcessInv, SrdataTypeOK, PageLoaderTypeOK
<1>2. Done => UNCHANGED vars
  BY DEF Done
<1> QED
  BY <1>1, <1>2, TestStepTypes, RunnerTypes, CollatingTypes DEF Next, Works

LEMMA TypeInvHolds == Spec => []TypeInv
<1>1. Init => TypeInv
  <2> SUFFICES ASSUME Init PROVE TypeInv
    OBVIOUS
  <2> USE RunnerAssumption, PageLoaderAssumption
  <2>1. SrdataTypeOK
    BY DEF Init, SrdataInit, SrdataTypeOK, Output, NoOutput
  <2>2. PageLoaderTypeOK
    <3>1. 1 \in 1 .. MaxPages
      OBVIOUS
    <3>2. page = 1 /\ pending = {} /\ quitting = FALSE
      BY DEF Init, PageLoaderInit
    <3> QED BY <3>1, <3>2 DEF Init, PageLoaderInit, PageLoaderTypeOK
  <2>3. RunnerTypeOK /\ FilesTypeOK
    BY DEF Init, NoUpload, RunnerTypeOK, FilesTypeOK
  <2>4. ProcessInv
    BY DEF Init, SrdataInit, ProcessInv
  <2> QED BY <2>1, <2>2, <2>3, <2>4, TypeOKParts DEF TypeInv
<1>2. TypeInv /\ [Next]_vars => TypeInv'
  BY NextTypes
<1> QED BY <1>1, <1>2, PTL DEF Spec

(* The variables of srrunner, its tests and what becomes of their results    *)
(* have their types, however many tests and pages there are.                 *)
THEOREM TypeCorrect == Spec => []TypeOK
<1>1. TypeInv => TypeOK
  BY DEF TypeInv
<1> QED BY <1>1, TypeInvHolds, PTL
-----------------------------------------------------------------------------
(* The page loader.                                                          *)
LEMMA NextPage ==
    ASSUME NEW n \in Nat \ {0}
    PROVE  /\ Append(FirstPages(n - 1), n) = FirstPages(n)
           /\ FirstPages(0) = <<>>
<1>1. FirstPages(n - 1) \in Seq(Nat) /\ Len(FirstPages(n - 1)) = n - 1
  BY DEF FirstPages
<1>2. FirstPages(n) \in Seq(Nat) /\ Len(FirstPages(n)) = n
  BY DEF FirstPages
<1>3. /\ Append(FirstPages(n - 1), n) \in Seq(Nat)
      /\ Len(Append(FirstPages(n - 1), n)) = n
      /\ \A i \in 1 .. n : Append(FirstPages(n - 1), n)[i] = i
  BY <1>1, AppendProperties DEF FirstPages
<1>4. \A i \in 1 .. n : FirstPages(n)[i] = i
  BY DEF FirstPages
<1>5. Append(FirstPages(n - 1), n) = FirstPages(n)
  BY <1>2, <1>3, <1>4, SeqEqual
<1>6. FirstPages(0) = <<>>
  BY DEF FirstPages
<1> QED BY <1>5, <1>6

(* Another test's outputs stay as they are.                                  *)
OutputsInv ==
    \A t \in PageTests :
        out[t].state = "written" => out[t].saved = FirstPages(pages[t])

LEMMA OutputStays ==
    ASSUME LoaderInv, UNCHANGED pages,
           \A t \in PageTests :
                \/ out'[t] = out[t]
                \/ out'[t].state # "written"
                \/ out'[t].saved = FirstPages(pages[t])
    PROVE  OutputsInv'
BY DEF LoaderInv, OutputsInv

LEMMA LoaderRecords ==
    ASSUME TypeInv, LoaderInv, UNCHANGED <<test, pages>>,
           test \in PageTests, test \in Tests,
           NEW callback \in {"waitForPainted", "plPainted"}, Due(callback),
           _loadHandler(Rest(callback))
    PROVE  LoaderInv'
<1> USE PageLoaderAssumption
<1>1. SrdataTypeOK /\ PageLoaderTypeOK
  BY DEF TypeInv, TypeOK
<1>2. /\ page \in 1 .. MaxPages /\ pages[test] \in 0 .. MaxPages
      /\ MaxPages \in Nat \ {0}
  BY <1>1 DEF PageLoaderTypeOK
<1>3. at = "looping" /\ callback \in pending /\ callback \in Loading
  BY DEF Due, Loading
<1>4. OneCallback /\ PagesRecorded
  BY DEF LoaderInv
<1>5. pending \subseteq {callback, "loadFail"}
  BY <1>3, <1>4 DEF OneCallback
<1>6. Rest(callback) \ {"loadFail"} = {}
  BY <1>5 DEF Rest
<1>7. results = FirstPages(page - 1) /\ page <= pages[test]
  BY <1>3, <1>4 DEF PagesRecorded
<1>8. results' = FirstPages(page)
  <2>1. results' = Append(results, page)
    BY DEF _loadHandler, do_write_result
  <2>2. page \in Nat \ {0}
    BY <1>2
  <2> QED BY <1>7, <2>1, <2>2, NextPage
<1>9. CASE page < pages[test]
  <2>1. /\ page' = page + 1 /\ at' = "looping" /\ out' = out
        /\ pending' = {"plLoadPage"}
    BY <1>3, <1>6, <1>9 DEF _loadHandler, plNextPage
  <2>2. page' - 1 = page
    BY <1>2, <2>1
  <2>3. OneCallback' /\ SavesAll'
    BY <2>1 DEF OneCallback, SavesAll
  <2>4. PagesRecorded'
    BY <1>8, <2>1, <2>2 DEF PagesRecorded, Loading
  <2>5. OutputsInv'
    BY <2>1, OutputStays
  <2> QED BY <2>3, <2>4, <2>5 DEF LoaderInv, OutputsInv
<1>10. CASE ~(page < pages[test])
  <2>1. OpensOutput /\ pending' = {}
    BY <1>6, <1>10 DEF _loadHandler, plNextPage, Stop
  <2>2. page = pages[test]
    BY <1>2, <1>7, <1>10
  <2>3. /\ at' = "saving" /\ out'[test].state = "truncated"
        /\ \A t \in Tests : t # test => out'[t] = out[t]
    BY <1>1, <2>1, Opens
  <2>4. OneCallback' /\ SavesAll' /\ PagesRecorded'
    BY <1>8, <2>1, <2>2, <2>3 DEF OneCallback, SavesAll, PagesRecorded
  <2>5. OutputsInv'
    BY <2>3, OutputStays
  <2> QED BY <2>4, <2>5 DEF LoaderInv, OutputsInv
<1> QED BY <1>9, <1>10

LEMMA LoaderSteps ==
    ASSUME TypeInv, LoaderInv, UNCHANGED <<test, pages>>,
           test \in PageTests, test \in Tests, FirefoxStep
    PROVE  LoaderInv'
<1> USE PageLoaderAssumption
<1>1. SrdataTypeOK /\ PageLoaderTypeOK
  BY DEF TypeInv, TypeOK
<1>2. OneCallback /\ PagesRecorded /\ SavesAll
  BY DEF LoaderInv
<1>3. CASE waitForPainted /\ _loadHandler(Rest("waitForPainted"))
  BY <1>3, LoaderRecords DEF waitForPainted
<1>4. CASE plPainted
  BY <1>4, LoaderRecords DEF plPainted
<1>5. CASE StopSaved
  <2>1. at = "saving" /\ at' = "looping" /\ results' = results
    BY <1>5 DEF StopSaved
  <2>2. pending = {} /\ results = FirstPages(pages[test])
    BY <1>2, <2>1 DEF SavesAll
  <2>3. pending' = {}
    BY <1>5, <2>2 DEF StopSaved, ForcedStop
  <2>4. OneCallback' /\ SavesAll' /\ PagesRecorded'
    BY <2>1, <2>3 DEF OneCallback, SavesAll, PagesRecorded
  <2>5. OutputsInv'
    <3>1. CASE WritesOutput
      <4>1. /\ out'[test].saved = results
            /\ \A t \in Tests : t # test => out'[t] = out[t]
        BY <1>1, <3>1, Writes
      <4> QED BY <2>2, <4>1, OutputStays
    <3>2. CASE out' = out
      BY <3>2, OutputStays
    <3> QED BY <1>5, <3>1, <3>2 DEF StopSaved
  <2> QED BY <2>4, <2>5 DEF LoaderInv, OutputsInv
<1>6. CASE out' = out /\ results' = results /\ ~StopSaved
           /\ ~(waitForPainted /\ _loadHandler(Rest("waitForPainted")))
           /\ ~plPainted
  <2>1. OutputsInv'
    BY <1>6, OutputStays
  <2>2. CASE plInit
    <3>1. /\ at = "starting" /\ at' = "looping" /\ page' = 1
          /\ pending' \subseteq {"plLoadPage"}
      BY <2>2 DEF plInit
    <3>2. results' = FirstPages(page' - 1)
      <4>1. results' = <<>> /\ page' - 1 = 0
        BY <1>2, <1>6, <3>1 DEF PagesRecorded
      <4> QED BY <4>1, NextPage
    <3>3. OneCallback' /\ SavesAll' /\ PagesRecorded'
      BY <3>1, <3>2 DEF OneCallback, SavesAll, PagesRecorded, Loading
    <3> QED BY <2>1, <3>3 DEF LoaderInv, OutputsInv
  <2>3. CASE NoWindow \/ Quits \/ Crashes
    <3>1. UNCHANGED <<page, pending>> /\ at' \in {at, "looping"}
      BY <2>3 DEF NoWindow, Quits, Crashes, script, loader
    <3>2. OneCallback' /\ SavesAll' /\ PagesRecorded'
      BY <1>2, <1>6, <3>1 DEF OneCallback, SavesAll, PagesRecorded
    <3> QED BY <2>1, <3>2 DEF LoaderInv, OutputsInv
  <2>4. CASE plLoadPage
    <3>1. /\ at = "looping" /\ at' = at /\ page' = page
          /\ "plLoadPage" \in pending
      BY <2>4 DEF plLoadPage, Due, script
    <3>2. pending \subseteq {"plLoadPage", "loadFail"}
      BY <1>2, <3>1 DEF OneCallback
    <3>3. \/ page <= pages[test] /\ pending' \subseteq {"plLoadHandler", "loadFail"}
          \/ pending' \subseteq {"loadFail"}
      BY <2>4, <3>2 DEF plLoadPage, Rest
    <3>4. results = FirstPages(page - 1)
      BY <1>2, <3>1 DEF PagesRecorded
    <3>5. OneCallback' /\ SavesAll' /\ PagesRecorded'
      BY <1>6, <3>1, <3>3, <3>4 DEF OneCallback, SavesAll, PagesRecorded, Loading
    <3> QED BY <2>1, <3>5 DEF LoaderInv, OutputsInv
  <2>5. CASE loadFail
    <3>1. /\ at = "looping" /\ at' = at /\ page' = page
          /\ pending' \subseteq pending
      BY <2>5 DEF loadFail, Due, script, ForcedStop, Rest
    <3>2. OneCallback' /\ SavesAll' /\ PagesRecorded'
      BY <1>2, <1>6, <3>1 DEF OneCallback, SavesAll, PagesRecorded
    <3> QED BY <2>1, <3>2 DEF LoaderInv, OutputsInv
  <2>6. ASSUME NEW c1 \in Loading, NEW c2 \in Loading, Due(c1),
               pending' = Rest(c1) \union {c2}, page' = page, at' = at
        PROVE  LoaderInv'
    <3>1. at = "looping" /\ c1 \in pending
      BY <2>6 DEF Due
    <3>2. pending \subseteq {c1, "loadFail"}
      BY <1>2, <2>6, <3>1 DEF OneCallback, Loading
    <3>3. pending' \subseteq {c2, "loadFail"}
      BY <2>6, <3>2 DEF Rest
    <3>4. results = FirstPages(page - 1) /\ page <= pages[test]
      BY <1>2, <2>6, <3>1 DEF PagesRecorded, Loading
    <3>5. OneCallback' /\ SavesAll' /\ PagesRecorded'
      BY <1>6, <2>6, <3>1, <3>3, <3>4 DEF OneCallback, SavesAll, PagesRecorded
    <3> QED BY <2>1, <3>5 DEF LoaderInv, OutputsInv
  <2>7. CASE plLoadHandler
    BY <2>6, <2>7 DEF plLoadHandler, script, Loading
  <2>8. CASE waitForPainted
    BY <1>6, <2>6, <2>8 DEF waitForPainted, script, Loading
  <2> QED
    BY <1>6, <2>2, <2>3, <2>4, <2>5, <2>7, <2>8 DEF FirefoxStep
<1>7. FirefoxStep => \/ StopSaved \/ plPainted
                     \/ waitForPainted /\ _loadHandler(Rest("waitForPainted"))
                     \/ out' = out /\ results' = results
  BY DEF FirefoxStep, plInit, NoWindow, plLoadPage, loadFail, plLoadHandler,
     waitForPainted, Quits, Crashes, script
<1> QED BY <1>3, <1>4, <1>5, <1>6, <1>7

(* A .js test writes no output but its own.                                  *)
LEMMA XpcshellOutputs ==
    ASSUME TypeInv, test \in Tests, XpcshellStep
    PROVE  /\ \A t \in Tests : t # test => out'[t] = out[t]
           /\ proc' = "exited" => out'[test].state = "written" \/ proc = "exited"
           /\ at' \in {"starting", "looping", "draining", "saving"}
<1>1. SrdataTypeOK
  BY DEF TypeInv, TypeOK
<1>2. CASE run_test \/ Event
  BY <1>1, <1>2 DEF run_test, Event, SrdataTypeOK
<1>3. CASE Save
  BY <1>1, <1>3, Opens DEF Save
<1>4. CASE QuitZero
  BY <1>1, <1>4, Writes DEF QuitZero, SrdataTypeOK
<1>5. CASE Throws
  BY <1>1, <1>5 DEF Throws, script, SrdataTypeOK
<1> QED BY <1>2, <1>3, <1>4, <1>5 DEF XpcshellStep

(* What the steps of srrunner and its successors leave of a test.            *)
LEMMA TestStays ==
    ASSUME TypeInv, Works \/ ClockIsSet, ~StartTest
    PROVE  /\ UNCHANGED <<script, loader>>
           /\ test' \in {test, NoTest}
BY DEF Works, RunnerRaises, Poll, TimesOut, RunnerDone, CollatorStarts,
   StageBetweenFails, Collate, CollatorRaises, CollatorDone, Upload,
   ClockIsSet, TestEnds, process

LEMMA LoaderInvHolds == Spec => []LoaderInv
<1> USE RunnerAssumption, PageLoaderAssumption
<1>1. Init => LoaderInv
  <2> SUFFICES ASSUME Init PROVE LoaderInv
    OBVIOUS
  <2>1. test \notin PageTests
    BY DEF Init, SrdataInit
  <2>2. \A t \in PageTests : out[t].state = "none"
    BY DEF Init, SrdataInit, NoOutput
  <2> QED BY <2>1, <2>2 DEF LoaderInv
<1>2. TypeInv /\ LoaderInv /\ [Next]_vars => LoaderInv'
  <2> SUFFICES ASSUME TypeInv, LoaderInv, [Next]_vars PROVE LoaderInv'
    OBVIOUS
  <2>1. CASE TestStep /\ UNCHANGED pages
    <3>1. test \in Tests /\ test' = test
      BY <2>1, TestRuns DEF TestStep
    <3>2. CASE test \in PageTests
      BY <2>1, <3>1, <3>2, LoaderSteps DEF TestStep
    <3>3. CASE test \notin PageTests
      <4>1. \A t \in PageTests : out'[t] = out[t]
        BY <2>1, <3>1, <3>3, XpcshellOutputs DEF TestStep
      <4>2. OutputsInv'
        BY <2>1, <4>1, OutputStays
      <4> QED BY <3>1, <3>3, <4>2 DEF LoaderInv, OutputsInv
    <3> QED BY <3>2, <3>3
  <2>2. CASE StartTest /\ UNCHANGED pages
    <3>1. /\ at' = "starting" /\ results' = <<>> /\ page' = 1 /\ pending' = {}
          /\ out' = out
      BY <2>2 DEF StartTest
    <3>2. OneCallback' /\ SavesAll' /\ PagesRecorded'
      BY <3>1 DEF OneCallback, SavesAll, PagesRecorded
    <3>3. OutputsInv'
      BY <2>2, <3>1, OutputStays
    <3> QED BY <3>2, <3>3 DEF LoaderInv, OutputsInv
  <2>3. ASSUME UNCHANGED <<script, loader, pages>>, test' \in {test, NoTest}
        PROVE  LoaderInv'
    <3>1. test' \in PageTests => test' = test
      BY <2>3
    <3>2. test' \in PageTests => OneCallback' /\ SavesAll' /\ PagesRecorded'
      BY <2>3, <3>1 DEF LoaderInv, OneCallback, SavesAll, PagesRecorded,
         script, loader
    <3>3. OutputsInv'
      BY <2>3, OutputStays DEF script
    <3> QED BY <3>2, <3>3 DEF LoaderInv, OutputsInv
  <2>4. CASE (Works \/ ClockIsSet) /\ ~StartTest /\ UNCHANGED pages
    BY <2>3, <2>4, TestStays
  <2>5. CASE Done \/ UNCHANGED vars
    BY <2>3, <2>5 DEF Done, vars, process
  <2> QED BY <2>1, <2>2, <2>4, <2>5 DEF Next, Works
<1> QED BY <1>1, <1>2, TypeInvHolds, PTL DEF Spec
-----------------------------------------------------------------------------
(* The results on their way to the server.  The outputs change no more once   *)
(* srrunner has ended.                                                       *)
LEMMA OutputsStay ==
    ASSUME TypeInv, Next, stage # "running"
    PROVE  out' = out
<1>1. ~TestStep
  BY TestRuns
<1> QED
  BY <1>1, TestStays DEF Next, Done, vars, process, script, StartTest

LEMMA UploadInvHolds == Spec => []UploadInv
<1> USE RunnerAssumption
<1>1. Init => UploadInv
  BY DEF Init, UploadInv, NoUpload
<1>2. TypeInv /\ UploadInv /\ [Next]_vars => UploadInv'
  <2> SUFFICES ASSUME TypeInv, UploadInv, [Next]_vars PROVE UploadInv'
    OBVIOUS
  <2>1. FilesTypeOK
    BY TypeOKParts DEF TypeInv
  <2>2. CASE UNCHANGED vars
    BY <2>2 DEF vars, process, script, files, UploadInv
  <2>3. CASE Next /\ stage = "running"
    <3>1. UNCHANGED files /\ stage' \in {"running", "between", "uploading"}
      BY <2>3 DEF Next, Works, TestStep, ClockIsSet, Done, StartTest,
         RunnerRaises, Poll, TimesOut, RunnerDone, CollatorStarts,
         StageBetweenFails, Collate, CollatorRaises, CollatorDone, Upload,
         StageFails
    <3>2. upload' = NoUpload /\ report' = NoUpload
      BY <2>3, <3>1 DEF UploadInv, files
    <3> QED BY <3>2 DEF UploadInv, NoUpload
  <2>4. CASE Collate
    <3>1. PICK t \in First(todo) :
                /\ Readable(t)
                /\ upload' = [upload EXCEPT ![Suite[t]] = t]
      BY <2>4 DEF Collate
    <3>2. /\ stage = "collating" /\ stage' = "collating" /\ report' = report
          /\ out' = out
      BY <2>4 DEF Collate, process, script
    <3>3. out[t].state = "written"
      BY <3>1 DEF Readable
    <3>4. \A s \in Suites : upload'[s] # NoTest => out[upload'[s]].state = "written"
      BY <2>1, <3>1, <3>3 DEF UploadInv, FilesTypeOK
    <3> QED BY <3>2, <3>4 DEF UploadInv
  <2>5. CASE Upload
    <3>1. /\ stage = "uploading" /\ stage' = "done" /\ upload' = upload
          /\ report' \in {upload, report} /\ out' = out
      BY <2>5 DEF Upload, process, script
    <3> QED BY <3>1 DEF UploadInv
  <2>6. CASE Next /\ stage # "running" /\ ~Collate /\ ~Upload
    <3>1. /\ UNCHANGED files
          /\ stage' = stage \/ stage' \in {"collating", "uploading"}
          /\ stage' = "done" => stage = "done"
      BY <2>6 DEF Next, Works, TestStep, ClockIsSet, Done, StartTest,
         RunnerRaises, Poll, TimesOut, RunnerDone, CollatorStarts,
         StageBetweenFails, CollatorRaises, CollatorDone, StageFails, vars,
         TypeInv, ProcessInv
    <3>2. stage = "done" => stage' = "done"
      BY <2>6 DEF Next, Works, TestStep, ClockIsSet, Done, StartTest,
         RunnerRaises, Poll, TimesOut, RunnerDone, CollatorStarts,
         StageBetweenFails, CollatorRaises, CollatorDone, StageFails, vars,
         TypeInv, ProcessInv
    <3>3. out' = out
      BY <2>6, OutputsStay
    <3> QED BY <3>1, <3>2, <3>3 DEF UploadInv, files
  <2> QED BY <2>2, <2>3, <2>4, <2>5, <2>6
<1> QED BY <1>1, <1>2, TypeInvHolds, PTL DEF Spec

(* What is reported of a suite is what a test wrote to the end, and a page    *)
(* test writes its pages all, once each and in order: whatever timers fire,  *)
(* events are lost and processes killed.                                     *)
THEOREM ReportsWhole == Spec => []ReportsAreWhole
<1>1. TypeInv /\ LoaderInv /\ UploadInv => ReportsAreWhole
  <2> SUFFICES ASSUME TypeInv, LoaderInv, UploadInv,
                      NEW s \in Suites, report[s] # NoTest
               PROVE  /\ out[report[s]].state = "written"
                      /\ report[s] \in PageTests =>
                            out[report[s]].saved =
                                [i \in 1 .. pages[report[s]] |-> i]
    BY DEF ReportsAreWhole
  <2> QED BY DEF UploadInv, LoaderInv, FirstPages
<1> QED BY <1>1, TypeInvHolds, LoaderInvHolds, UploadInvHolds, PTL
-----------------------------------------------------------------------------
(* The verdicts of srrunner.                                                 *)
LEMMA VerdictInvHolds == Spec => []VerdictInv
<1> USE RunnerAssumption
<1>1. Init => VerdictInv
  BY DEF Init, SrdataInit, VerdictInv
<1>2. TypeInv /\ VerdictInv /\ [Next]_vars => VerdictInv'
  <2> SUFFICES ASSUME TypeInv, VerdictInv, [Next]_vars PROVE VerdictInv'
    OBVIOUS
  <2>1. SrdataTypeOK /\ RunnerTypeOK /\ ProcessInv
    BY TypeOKParts DEF TypeInv
  <2>2. CASE UNCHANGED vars
    BY <2>2 DEF vars, process, script, runner, VerdictInv
  <2>3. CASE TestStep
    <3>1. test \in Tests /\ test # NoTest /\ proc = "running"
      BY <2>3, TestRuns
    <3>2. UNCHANGED <<test, todo, verdict, stage>>
      BY <2>3 DEF TestStep, runner
    <3>3. verdict[test] = "none"
      BY <3>1 DEF VerdictInv
    <3>4. test \notin PageTests =>
              /\ \A t \in Tests : t # test => out'[t] = out[t]
              /\ proc' = "exited" => out'[test].state = "written"
      BY <2>3, <3>1, XpcshellOutputs DEF TestStep
    <3>5. \A t \in Tests \ PageTests : t # test => out'[t] = out[t]
      <4>1. CASE test \in PageTests
        <5>1. FirefoxStep
          BY <2>3, <4>1 DEF TestStep
        <5>2. OpensOutput \/ WritesOutput \/ out' = out
          BY <5>1 DEF FirefoxStep, plInit, NoWindow, plLoadPage, loadFail,
             plLoadHandler, waitForPainted, plPainted, StopSaved, Quits,
             Crashes, script, _loadHandler, plNextPage, Stop
        <5> QED BY <2>1, <3>1, <5>2, Opens, Writes
      <4> QED BY <3>4, <4>1
    <3> QED BY <3>1, <3>2, <3>3, <3>4, <3>5 DEF VerdictInv
  <2>4. CASE StartTest
    <3>1. /\ test' \in todo /\ todo' = todo \ {test'} /\ stage = "running"
          /\ UNCHANGED <<out, verdict>> /\ proc' = "running"
      BY <2>4 DEF StartTest, First
    <3> QED BY <2>1, <3>1 DEF VerdictInv, RunnerTypeOK
  <2>5. CASE (Poll \/ TimesOut) /\ ~(UNCHANGED <<test, proc, verdict>>)
    <3>1. /\ test # NoTest /\ test \in Tests /\ test' = NoTest
          /\ UNCHANGED <<out, todo>> /\ stage = "running"
      BY <2>1, <2>5 DEF Poll, TimesOut, TestEnds, script, SrdataTypeOK,
         ProcessInv
    <3>2. \/ verdict' = verdict
          \/ verdict' = [verdict EXCEPT ![test] = "failed"]
          \/ verdict' = [verdict EXCEPT ![test] = "succeeded"] /\ proc = "exited"
      BY <2>5 DEF Poll, TimesOut, TestEnds
    <3>3. \A t \in Tests : t # test => verdict'[t] = verdict[t]
      BY <2>1, <3>2 DEF RunnerTypeOK
    <3>4. verdict'[test] = "succeeded" => proc = "exited"
      BY <2>1, <3>1, <3>2 DEF RunnerTypeOK, VerdictInv
    <3>5. \A t \in todo : t \in Tests /\ t # test /\ verdict[t] = "none"
      BY <2>1, <3>1 DEF VerdictInv, RunnerTypeOK
    <3> QED BY <3>1, <3>3, <3>4, <3>5 DEF VerdictInv
  <2>6. CASE \/ (Poll \/ TimesOut) /\ UNCHANGED <<test, proc, verdict>>
             \/ RunnerRaises \/ RunnerDone \/ ClockIsSet
    <3>1. /\ UNCHANGED <<test, proc, verdict, out, todo>>
          /\ stage' = "running" => stage = "running"
      BY <2>1, <2>6 DEF Poll, TimesOut, script, RunnerRaises, RunnerDone,
         StageFails, ClockIsSet, process, runner, ProcessInv
    <3> QED BY <3>1 DEF VerdictInv
  <2>7. CASE \/ CollatorStarts \/ StageBetweenFails \/ Collate
             \/ CollatorRaises \/ CollatorDone \/ Upload \/ Done
    <3>1. /\ UNCHANGED <<test, proc, verdict, out>>
          /\ stage' # "running"
      BY <2>7 DEF CollatorStarts, StageBetweenFails, Collate, CollatorRaises,
         CollatorDone, Upload, Done, StageFails, vars, process, script, runner
    <3> QED BY <3>1 DEF VerdictInv
  <2> QED
    BY <2>2, <2>3, <2>4, <2>5, <2>6, <2>7 DEF Next, Works
<1> QED BY <1>1, <1>2, TypeInvHolds, PTL DEF Spec

(* "We know we're done, we can write the results to disk": a .js test that   *)
(* srrunner logs as succeeded has saved its results, and no later test takes *)
(* them back.                                                                *)
THEOREM SuccessIsSaved == Spec => []SucceededTestsSaved
<1>1. VerdictInv => SucceededTestsSaved
  BY DEF VerdictInv, SucceededTestsSaved
<1> QED BY <1>1, VerdictInvHolds, PTL
-----------------------------------------------------------------------------
(* srcollator.                                                               *)
LEMMA CollatorInvHolds == Spec => []CollatorInv
<1> USE RunnerAssumption
<1>1. Init => CollatorInv
  BY DEF Init, CollatorInv, SuitesAreReported
<1>2. TypeInv /\ CollatorInv /\ [Next]_vars => CollatorInv'
  <2> SUFFICES ASSUME TypeInv, CollatorInv, [Next]_vars PROVE CollatorInv'
    OBVIOUS
  <2>1. RunnerTypeOK /\ FilesTypeOK /\ ProcessInv
    BY TypeOKParts DEF TypeInv
  <2>2. CASE UNCHANGED vars
    BY <2>2 DEF vars, process, script, runner, files, CollatorInv, Collated,
       SuitesAreReported
  <2>3. CASE Next /\ stage = "running"
    <3>1. \/ stage' \in {"running", "between"}
          \/ stage' = "uploading" /\ failed' # "none"
      BY <2>3 DEF Next, Works, TestStep, ClockIsSet, Done, StartTest,
         RunnerRaises, Poll, TimesOut, RunnerDone, CollatorStarts,
         StageBetweenFails, Collate, CollatorRaises, CollatorDone, Upload,
         StageFails
    <3> QED BY <3>1 DEF CollatorInv, SuitesAreReported
  <2>4. CASE StageBetweenFails \/ CollatorRaises
    BY <2>4 DEF StageBetweenFails, CollatorRaises, StageFails, CollatorInv,
       SuitesAreReported
  <2>5. CASE CollatorStarts
    <3>1. /\ stage' = "collating" /\ out' = out /\ upload' = upload
          /\ todo' = {t \in Tests : out[t].state # "none"}
      BY <2>5 DEF CollatorStarts, process, script, files
    <3> QED BY <3>1 DEF CollatorInv, Collated, SuitesAreReported
  <2>6. CASE Collate
    <3>1. /\ stage = "collating" /\ stage' = "collating" /\ out' = out
          /\ failed' = failed
      BY <2>6 DEF Collate, process, script
    <3>2. PICK t \in First(todo) :
                /\ upload' = [upload EXCEPT ![Suite[t]] = t]
                /\ todo' = todo \ {t}
      BY <2>6 DEF Collate
    <3>3. t \in Tests /\ t # NoTest /\ Suite[t] \in Suites
      BY <2>1, <3>2 DEF First, RunnerTypeOK
    <3>4. \A s \in Suites : upload'[s] = IF s = Suite[t] THEN t ELSE upload[s]
      BY <2>1, <3>2 DEF FilesTypeOK
    <3>5. \A u \in Tests : Collated(u) => Collated(u)'
      BY <3>1, <3>3, <3>4 DEF Collated
    <3>6. Collated(t)'
      BY <3>1, <3>3, <3>4 DEF Collated
    <3> QED BY <3>1, <3>2, <3>5, <3>6 DEF CollatorInv, SuitesAreReported
  <2>7. CASE CollatorDone
    <3>1. /\ stage = "collating" /\ stage' = "uploading" /\ todo = {}
          /\ UNCHANGED <<out, upload, failed>>
      BY <2>7 DEF CollatorDone, process, script, files
    <3> QED BY <3>1 DEF CollatorInv, Collated, SuitesAreReported
  <2>8. CASE Upload
    <3>1. /\ stage = "uploading" /\ stage' = "done" /\ out' = out
          /\ \/ report' = upload /\ failed' = failed
             \/ failed' = "uploader"
      BY <2>8 DEF Upload, process, script
    <3> QED BY <3>1 DEF CollatorInv, Collated, SuitesAreReported
  <2>9. CASE Done
    <3>1. UNCHANGED <<out, upload, report, failed, stage, todo>>
      BY <2>9 DEF Done, vars, process, script, files, runner
    <3> QED BY <3>1 DEF CollatorInv, Collated, SuitesAreReported
  <2>10. stage # "running" =>
            ~(TestStep \/ StartTest \/ RunnerRaises \/ Poll \/ TimesOut
              \/ RunnerDone \/ ClockIsSet)
    BY <2>1, TestRuns DEF StartTest, RunnerRaises, Poll, TimesOut, RunnerDone,
       ClockIsSet, ProcessInv
  <2> QED
    BY <2>2, <2>3, <2>4, <2>5, <2>6, <2>7, <2>8, <2>9, <2>10 DEF Next, Works
<1> QED BY <1>1, <1>2, TypeInvHolds, PTL DEF Spec

(* When every stage ended well, no suite of which a test has an output file  *)
(* is missing from what the server is sent, those of tests that were killed  *)
(* after they had saved included.                                            *)
THEOREM SuitesReported == Spec => []SuitesAreReported
<1>1. CollatorInv => SuitesAreReported
  <2> SUFFICES ASSUME CollatorInv PROVE SuitesAreReported
    OBVIOUS
  <2> QED BY DEF CollatorInv, SuitesAreReported
<1> QED BY <1>1, CollatorInvHolds, PTL
=============================================================================
