------------------------------ MODULE Worker ------------------------------
(***************************************************************************)
(* One client machine at work: handle() of srworker, which runs the stages  *)
(* of a test as child processes, and what they do to srdns on the client    *)
(* and to srpcapper on the servers.                                         *)
(*                                                                         *)
(* run_process() is recursive: when a child exits uncleanly it may restore  *)
(* the DNS, archive and upload with children of its own, each through       *)
(* run_process() again.  frames is its call stack, innermost call last.     *)
(***************************************************************************)
EXTENDS Pcapper, Sequences, FiniteSets

CONSTANTS
    Netconfig,       \* Netconfig[j]: the netconfig of job j
    RecursionLimit,  \* sys.getrecursionlimit(), in calls of run_process
    MaxFaults        \* bound: MaxFaults[kind], what may go wrong how often

(* Children that exit uncleanly, calls of srdnsupdater and of srpcap that    *)
(* are not carried out, deaths of srworker.                                  *)
Kinds == {"children", "updates", "captures", "deaths"}

ASSUME JobsAssumption ==
    /\ Jobs = 1 .. Cardinality(Jobs)
    /\ Netconfig \in [Jobs -> NETCONFIGS]
    /\ "public" \notin NETCONFIGS

(* Python's own limit is 1000.                                               *)
ASSUME WorkerBounds ==
    /\ RecursionLimit \in Nat /\ RecursionLimit > 1
    /\ MaxFaults \in [Kinds -> Nat]

VARIABLES
    job,                 \* the job at the head of the inbox
    workdirs,            \* workdirs[j]: directories handle() made for job j
    stage,               \* 0: idle, then the stages, then handle() is done
    frames,              \* the calls of run_process
    need_dns_reset,
    archive_on_failure,
    uploaded,
    dns,                 \* who resolves names: "public", or a netconfig
    calls,               \* how often this handle() ran archiver and uploader
    sent,                \* sent[j]: results of job j on sr_outgoing
    ran,                 \* ran[j]: the resolvers that srrunner ran job j with
    saved,               \* saved[j]: the jobs in the capture saved for job j
    faults               \* what went wrong so far, by kind

flags == <<need_dns_reset, archive_on_failure, uploaded>>
world == <<dns, pcaps, sent, ran, saved>>
vars == <<job, workdirs, stage, frames, flags, calls, world, faults>>
-----------------------------------------------------------------------------
Stages == <<"downloader", "unpacker", "infogatherer", "pcap --start",
            "dnsupdater", "dnscheck", "arpfixer", "runner",
            "dnsupdater --restore", "dnscheck --public", "pcap --stop",
            "collator", "archiver", "uploader">>

Done == Len(Stages) + 1

(* A call: the child it runs, how far it is, and the two flags it put aside. *)
Frame == [proc : {Stages[i] : i \in 1 .. Len(Stages)},
          at : {"running", "failed", "restoring", "restored", "archived",
                "uploaded"},
          archive : BOOLEAN, uploaded : BOOLEAN]

NoCalls == [proc \in {"archiver", "uploader"} |-> 0]

TypeOK ==
    /\ PcapperTypeOK
    /\ job \in Jobs \union {n + 1 : n \in Jobs} \union {1}
    /\ workdirs \in [Jobs -> 0 .. 2]
    /\ stage \in 0 .. Done
    /\ frames \in Seq(Frame)
    /\ Len(frames) <= RecursionLimit
    /\ need_dns_reset \in BOOLEAN
    /\ archive_on_failure \in BOOLEAN
    /\ uploaded \in BOOLEAN
    /\ dns \in NETCONFIGS \union {"public"}
    /\ calls \in [{"archiver", "uploader"} -> Nat]
    /\ sent \in [Jobs -> Nat]
    /\ ran \in [Jobs -> SUBSET (NETCONFIGS \union {"public"})]
    /\ saved \in [Jobs -> SUBSET Jobs]
    /\ faults \in [Kinds -> Nat]
    /\ \A kind \in Kinds : faults[kind] <= MaxFaults[kind]

Init ==
    /\ PcapperInit
    /\ job = 1
    /\ workdirs = [j \in Jobs |-> 0]
    /\ stage = 0
    /\ frames = <<>>
    /\ need_dns_reset = FALSE
    /\ archive_on_failure = TRUE
    /\ uploaded = FALSE
    /\ dns = "public"
    /\ calls = NoCalls
    /\ sent = [j \in Jobs |-> 0]
    /\ ran = [j \in Jobs |-> {}]
    /\ saved = [j \in Jobs |-> {}]
    /\ faults = [kind \in Kinds |-> 0]

Fault(kind) ==
    /\ faults[kind] < MaxFaults[kind]
    /\ faults' = [faults EXCEPT ![kind] = @ + 1]
-----------------------------------------------------------------------------
(* The call stack.                                                           *)
Top == frames[Len(frames)]
Running(proc) == frames # <<>> /\ Top.at = "running" /\ Top.proc = proc
At(place) == frames # <<>> /\ Top.at = place

Call(proc) == [proc |-> proc, at |-> "running", archive |-> FALSE,
               uploaded |-> FALSE]
Pop == SubSeq(frames, 1, Len(frames) - 1)
MovesTo(place) == [frames EXCEPT ![Len(frames)].at = place]

(* The child exited uncleanly.                                               *)
Fails ==
    /\ frames' = MovesTo("failed")
    /\ UNCHANGED <<job, workdirs, stage, flags, calls>>

Count(proc) ==
    calls' = [p \in DOMAIN calls |->
                IF p = proc THEN calls[p] + 1 ELSE calls[p]]

(* Faulty: forgets the DNS one stage too early.                              *)
ResetNeededUntilRunner ==
    CASE Top.proc = "dnsupdater" -> TRUE
      [] Top.proc = "arpfixer" -> FALSE
      [] OTHER -> need_dns_reset

(* run_test() after a stage: is the DNS to be restored if the next one fails? *)
ResetNeeded ==
    CASE Top.proc = "dnsupdater" -> TRUE
      [] Top.proc = "runner" -> FALSE
      [] OTHER -> need_dns_reset

(* run_test(): the flags it sets after a stage, and the next stage.          *)
NextStage ==
    /\ stage' = stage + 1
    /\ need_dns_reset' = ResetNeeded
    /\ archive_on_failure' = (archive_on_failure /\ Top.proc # "collator")
    /\ uploaded' = (uploaded \/ Top.proc = "archiver")
    /\ IF stage' = Done
       THEN frames' = <<>> /\ UNCHANGED calls
       ELSE frames' = <<Call(Stages[stage'])>> /\ Count(Stages[stage'])
    /\ UNCHANGED <<job, workdirs>>

(* The child exited cleanly: back to run_process() or run_test().            *)
Returns ==
    \/ /\ Len(frames) > 1
       /\ frames' = Pop
       /\ UNCHANGED <<job, workdirs, stage, flags, calls>>
    \/ Len(frames) = 1 /\ NextStage
-----------------------------------------------------------------------------
(* handle() begins.  A job has two names for its directory; when both are    *)
(* taken makedirs raises, and the broker hands the job out again, for ever.  *)
Receive ==
    /\ stage = 0
    /\ job \in Jobs
    /\ workdirs[job] < 2
    /\ workdirs' = [workdirs EXCEPT ![job] = @ + 1]
    /\ stage' = 1
    /\ frames' = <<Call(Stages[1])>>
    /\ need_dns_reset' = FALSE
    /\ archive_on_failure' = TRUE
    /\ uploaded' = FALSE
    /\ calls' = NoCalls
    /\ UNCHANGED <<job, world, faults>>

(* Faulty: acknowledges another job as well.                                 *)
ReturnAcksTwo ==
    /\ stage = Done
    /\ stage' = 0
    /\ job' = job + 2
    /\ archive_on_failure' = TRUE
    /\ uploaded' = FALSE
    /\ UNCHANGED <<workdirs, frames, need_dns_reset, calls, world, faults>>

(* handle() returns after reset(), and the job is acknowledged.              *)
Return ==
    /\ stage = Done
    /\ stage' = 0
    /\ job' = job + 1
    /\ archive_on_failure' = TRUE
    /\ uploaded' = FALSE
    /\ UNCHANGED <<workdirs, frames, need_dns_reset, calls, world, faults>>

(* The next StoneRidgeWorker of main()'s loop gets the job again.            *)
StartOver ==
    /\ stage' = 0
    /\ frames' = <<>>
    /\ need_dns_reset' = FALSE
    /\ archive_on_failure' = TRUE
    /\ uploaded' = FALSE
    /\ UNCHANGED <<job, workdirs, calls, world>>

(* srworker and its child die, with the machine or alone.                    *)
Dies == stage # 0 /\ Fault("deaths") /\ StartOver
-----------------------------------------------------------------------------
(* What each child does when it does it.                                     *)
(* Faulty: reads the run.ini of the first run.                               *)
NetconfigOfFirst == Netconfig[1]

MyNetconfig == Netconfig[job]

StartCapture ==
    /\ Running("pcap --start")
    /\ Start(MyNetconfig)
    /\ UNCHANGED <<dns, sent, ran, saved>>

SetDns ==
    /\ Running("dnsupdater")
    /\ dns' = MyNetconfig
    /\ UNCHANGED <<pcaps, sent, ran, saved>>

ResetDns ==
    /\ Running("dnsupdater --restore")
    /\ dns' = "public"
    /\ UNCHANGED <<pcaps, sent, ran, saved>>

(* The tests talk to whatever server the names resolve to.                   *)
RunTests ==
    /\ Running("runner")
    /\ ran' = [ran EXCEPT ![job] = @ \union {dns}]
    /\ IF dns \in NETCONFIGS THEN Sniff(dns, job) ELSE UNCHANGED pcaps
    /\ UNCHANGED <<dns, sent, saved>>

(* stop and retrieve; srpcap gives up quietly when srpcapper has no capture. *)
SaveCapture ==
    /\ Running("pcap --stop")
    /\ IF Stoppable(MyNetconfig)
       THEN /\ saved' = [saved EXCEPT ![job] = pcaps[MyNetconfig].traffic]
            /\ Retrieve(MyNetconfig)
       ELSE UNCHANGED <<saved, pcaps>>
    /\ UNCHANGED <<dns, sent, ran>>

SendResults ==
    /\ Running("uploader")
    /\ sent' = [sent EXCEPT ![job] = @ + 1]
    /\ UNCHANGED <<dns, pcaps, ran, saved>>

Quiet == {"downloader", "unpacker", "infogatherer", "arpfixer", "collator",
          "archiver"}

DoesNothing == (\E proc \in Quiet : Running(proc)) /\ UNCHANGED world

(* Faulty: does not look at the address.                                     *)
CheckPassesAnyway ==
    /\ Running("dnscheck") \/ Running("dnscheck --public")
    /\ UNCHANGED world

(* srdnscheck: example.com is, or is not, in 172.16/12.                      *)
CheckPasses ==
    /\ \/ Running("dnscheck") /\ dns # "public"
       \/ Running("dnscheck --public") /\ dns = "public"
    /\ UNCHANGED world

Effect ==
    \/ StartCapture \/ SetDns \/ ResetDns \/ RunTests \/ SaveCapture
    \/ SendResults \/ DoesNothing
-----------------------------------------------------------------------------
(* How a child ends.                                                         *)
ChildSucceeds ==
    /\ Effect \/ CheckPasses
    /\ Returns
    /\ UNCHANGED faults

CheckFails ==
    /\ \/ Running("dnscheck") /\ dns = "public"
       \/ Running("dnscheck --public") /\ dns # "public"
    /\ Fails
    /\ UNCHANGED <<world, faults>>

Updating == Running("dnsupdater") \/ Running("dnsupdater --restore")
Capturing == Running("pcap --start") \/ Running("pcap --stop")

(* It exits uncleanly before it did anything, or after it did it.            *)
ChildFails ==
    /\ At("running")
    /\ Fault(IF Updating THEN "updates" ELSE "children")
    /\ Fails
    /\ UNCHANGED world

ChildFailsLate ==
    /\ StartCapture \/ SetDns \/ ResetDns \/ RunTests \/ SendResults
    /\ Fault(IF Updating THEN "updates" ELSE "children")
    /\ Fails

(* srdns answered something else than ok, or srpcapper an error: the child   *)
(* logs that and exits cleanly.                                              *)
ChildIsRefused ==
    /\ \/ Updating /\ Fault("updates")
       \/ Capturing /\ Fault("captures")
    /\ Returns
    /\ UNCHANGED world

CaptureNotStarted ==
    /\ Running("pcap --start")
    /\ StartFails(MyNetconfig)
    /\ Fault("captures")
    /\ Returns
    /\ UNCHANGED <<dns, sent, ran, saved>>

(* Stopped, but the files could not be read; or read and lost on the way.    *)
CaptureNotRetrieved ==
    /\ Running("pcap --stop")
    /\ Stoppable(MyNetconfig)
    /\ \/ Stop(MyNetconfig) /\ Fault("captures") /\ Returns
       \/ Retrieve(MyNetconfig) /\ Fault("captures") /\ Fails
    /\ UNCHANGED <<dns, sent, ran, saved>>
-----------------------------------------------------------------------------
(* run_process() after its child failed.                                     *)
RestoresDns == At("failed") /\ need_dns_reset
Archives == At("restored") /\ archive_on_failure
Uploads == At("archived") /\ ~uploaded

(* The flags are put aside while the DNS is restored.                        *)
RestoreDns ==
    /\ RestoresDns
    /\ Len(frames) < RecursionLimit
    /\ frames' = Append([frames EXCEPT ![Len(frames)] =
                            [@ EXCEPT !.at = "restoring",
                                      !.archive = archive_on_failure,
                                      !.uploaded = uploaded]],
                        Call("dnsupdater --restore"))
    /\ archive_on_failure' = FALSE
    /\ uploaded' = TRUE
    /\ UNCHANGED <<job, workdirs, stage, need_dns_reset, calls, world, faults>>

(* Faulty: forgets to put uploaded back.                                     *)
DnsRestoredForgets ==
    /\ At("restoring")
    /\ frames' = MovesTo("restored")
    /\ archive_on_failure' = Top.archive
    /\ UNCHANGED <<job, workdirs, stage, need_dns_reset, uploaded, calls,
                   world, faults>>

DnsRestored ==
    /\ At("restoring")
    /\ frames' = MovesTo("restored")
    /\ archive_on_failure' = Top.archive
    /\ uploaded' = Top.uploaded
    /\ UNCHANGED <<job, workdirs, stage, need_dns_reset, calls, world, faults>>

(* Faulty: leaves archive_on_failure set.                                    *)
ArchiveAgain ==
    /\ Archives
    /\ Len(frames) < RecursionLimit
    /\ frames' = Append(MovesTo("archived"), Call("archiver"))
    /\ Count("archiver")
    /\ UNCHANGED <<job, workdirs, stage, flags, world, faults>>

Archive ==
    /\ Archives
    /\ Len(frames) < RecursionLimit
    /\ frames' = Append(MovesTo("archived"), Call("archiver"))
    /\ Count("archiver")
    /\ archive_on_failure' = FALSE
    /\ UNCHANGED <<job, workdirs, stage, need_dns_reset, uploaded, world,
                   faults>>

Upload ==
    /\ Uploads
    /\ Len(frames) < RecursionLimit
    /\ frames' = Append(MovesTo("uploaded"), Call("uploader"))
    /\ Count("uploader")
    /\ uploaded' = TRUE
    /\ UNCHANGED <<job, workdirs, stage, need_dns_reset, archive_on_failure,
                   world, faults>>

(* Nothing to do at one of the three.                                        *)
Skip ==
    /\ \/ At("failed") /\ ~RestoresDns /\ frames' = MovesTo("restored")
       \/ At("restored") /\ ~Archives /\ frames' = MovesTo("archived")
       \/ At("archived") /\ ~Uploads /\ frames' = MovesTo("uploaded")
    /\ UNCHANGED <<job, workdirs, stage, flags, calls, world, faults>>

(* do_error(): the caller goes on, or handle() logs the exception.           *)
DoError ==
    /\ At("uploaded")
    /\ frames' = Pop
    /\ stage' = IF Len(frames) = 1 THEN Done ELSE stage
    /\ UNCHANGED <<job, workdirs, flags, calls, world, faults>>

(* Python raises RuntimeError, which nobody catches before main().           *)
TooDeep ==
    /\ RestoresDns \/ Archives \/ Uploads
    /\ Len(frames) = RecursionLimit
    /\ StartOver
    /\ UNCHANGED faults

Works ==
    \/ Receive \/ ChildSucceeds \/ CheckFails \/ Return
    \/ RestoreDns \/ DnsRestored \/ Archive \/ Upload \/ Skip \/ DoError
    \/ TooDeep

Suffers ==
    \/ ChildFails \/ ChildFailsLate \/ ChildIsRefused \/ CaptureNotStarted
    \/ CaptureNotRetrieved \/ Dies

Next == Works \/ Suffers

(* run_process() waits for its child, and every child ends.                  *)
Spec == Init /\ [][Next]_vars
FairSpec == Spec /\ WF_vars(Works)
-----------------------------------------------------------------------------
(* "don't try to archive again if for some reason the archival process       *)
(* fails": whatever fails, in whatever order, handle() runs srarchiver once  *)
(* and sruploader once before it returns, and srarchiver first.              *)
ArchivedAndUploadedOnce ==
    /\ calls["uploader"] <= calls["archiver"] /\ calls["archiver"] <= 1
    /\ stage = Done => calls["uploader"] = 1

(* No test is run against the public internet, whatever srdns and the        *)
(* children of srworker do: srdnscheck aborts the test first.                *)
NeverTestedInPublic == \A j \in Jobs : "public" \notin ran[j]

(* "We were in the midst of having our dns all screwy": when handle() has    *)
(* returned the machine resolves names in public again, wherever the test    *)
(* failed, unless srdnsupdater itself failed or srworker died.               *)
DnsIsRestored ==
    faults["updates"] = 0 /\ faults["deaths"] = 0 /\ stage \in {0, Done} =>
        dns = "public"

(* A test meets the servers of its own netconfig when srdnsupdater works,    *)
(* even after a death left the DNS of another netconfig behind.              *)
TestedOnItsNetconfigIfUpdated ==
    faults["updates"] = 0 => \A j \in Jobs : ran[j] \subseteq {Netconfig[j]}

(* The packets of a test that the client runs once end up in one saved        *)
(* capture at most, also when another test inherits the capture of a test     *)
(* that failed.  (A job that run_process ran too deep for is run again, and   *)
(* its packets may then be in the captures of two servers.)                   *)
NoPacketsSavedTwice ==
    \A j \in Jobs : workdirs[j] <= 1 =>
        \A i1, i2 \in Jobs : j \in saved[i1] \intersect saved[i2] => i1 = i2
-----------------------------------------------------------------------------
(* What the queues see of all this: module Handling.                         *)
UploaderEnded ==
    /\ calls["uploader"] > 0
    /\ \A i \in 1 .. Len(frames) :
            frames[i].proc = "uploader" => frames[i].at # "running"

Phase == CASE stage = 0 -> "idle"
           [] stage # 0 /\ UploaderEnded -> "finished"
           [] OTHER -> "running"

Handler == INSTANCE Handling WITH phase <- Phase

(* handle() takes a job, sends its results once or not at all, and returns,  *)
(* however its children fail.                                                *)
HandlesJobs == Handler!Spec
=============================================================================
